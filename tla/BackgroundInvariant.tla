------------------------ MODULE BackgroundInvariant ------------------------
(* Proofs about the background profile, for any number of processes,       *)
(* settings, operations and faults: at most one operation works at a time, *)
(* a registration always has its files, and whatever an operation that     *)
(* dies leaves can be taken up again.                                      *)
EXTENDS Background, TLAPS

(* Where an operation is: without the guard, taking another's guard apart, *)
(* making its own, working under it, or taking its own apart.              *)
WorkPcs == {"enable", "recoverfiles", "write", "rename", "inspect", "register", "again", "start",
            "status", "load", "view", "ask", "wait", "stop", "stopped", "unregister",
            "unregistering", "unregistered", "remove", "resume"}
OutsidePcs == {"idle", "mkdir", "recover", "lockowner", "readowner", "mkagain", "disable"}
MarkedPcs == WorkPcs \union {"lock", "release"}
LockedPcs == MarkedPcs \union {"mark"}
LinkedPcs == LockedPcs \union {"lockown", "unlinkown"}
ClaimPcs == LinkedPcs \union {"own", "rmown", "unlinkowner", "rmguard"}

(* The lists of files and commands an operation works through.             *)
EnableTodos == {<<"settings", "reg", "marker">>, <<"reg", "marker">>, <<"marker">>}
DisablingTodo == <<"disabling">>
RemoveTodos == {<<"marker", "settings", "reg", "disabling">>, <<"settings", "reg", "disabling">>,
                <<"reg", "disabling">>, DisablingTodo}
RegisterTodos == {<<"temp", "file", "reload", "enable">>, <<"file", "reload", "enable">>,
                  <<"reload", "enable">>, <<"enable">>, <<"temp", "file", "bootstrap">>,
                  <<"file", "bootstrap">>, <<"bootstrap">>, <<"create">>}
StartTodos == {<<"start">>}
StopTodos == {<<"stop", "kill">>, <<"kill">>, <<"bootout">>}
UnregisterTodos == {<<"disable", "unlink", "reload">>, <<"unlink", "reload">>, <<"reload">>,
                    <<"bootout", "unlink">>, <<"unlink">>, <<"delete">>}
Todos == EnableTodos \union RemoveTodos \union RegisterTodos \union StartTodos \union StopTodos
           \union UnregisterTodos \union {<< >>}

Ops == {"none", "enable", "start", "stop", "restart", "disable"}
Runs0 == 0 .. 2 * MaxRuns
CallRecord ==
  [pc : OutsidePcs \union ClaimPcs, op : Ops, run : Runs0, arg : Profiles \union {None},
   force : BOOLEAN, seen : Runs0, body : {"none", "enable", "resume", "load"},
   after : {"idle", "disable"}, todo : Todos, registered : BOOLEAN, unloaded : BOOLEAN]
GuardRecord == [dir : BOOLEAN, owner : Runs0]
OwnerRecord == [mark : BOOLEAN, lock : Calls \union {None}]
ManagerRecord == [up : BOOLEAN, file : BOOLEAN, temp : BOOLEAN, loaded : BOOLEAN,
                  enabled : BOOLEAN, override : BOOLEAN, service : {"off", "up", "waiting"}]
FileNames == Managed \union {"dir", "lock", "disabling"}

(* The type of every variable the arguments below rest on.                 *)
Types ==
  /\ os \in Systems
  /\ guard \in GuardRecord
  /\ owner \in [Owners -> OwnerRecord]
  /\ area \subseteq FileNames
  /\ temps \subseteq Managed \union {"disabling"}
  /\ stored \in Profiles \union {None}
  /\ mgr \in ManagerRecord
  /\ call \in [Calls -> CallRecord]
  /\ inst \in {"idle", "working", "gone"}
  /\ runs \in 0 .. MaxRuns

(* The number of an owner file: that of the operation, and for the second  *)
(* lock of a Disable one beyond them all.                                  *)
Numbered(r) ==
  /\ r.pc # "idle" => r.run > 0 /\ r.body # "none"
  /\ r.after = "disable" => r.run <= MaxRuns
  /\ r.pc \in {"lockowner", "readowner"} => r.seen > 0

(* What an operation r of the process c that is at the guard g knows of    *)
(* it, and of the owner files o.                                           *)
Claims(c) == call[c].pc \in ClaimPcs
Guarded(c, r, g, o) ==
  /\ r.pc \in ClaimPcs => g.dir
  /\ r.pc \in {"own", "rmown", "rmguard"} => g.owner = 0
  /\ r.pc \in LinkedPcs => g.owner = r.run
  /\ r.pc = "unlinkowner" => g.owner # 0
  /\ r.pc \in LockedPcs => o[r.run].lock = c
  /\ r.pc = "readowner" => o[r.seen].lock = c

(* A marked owner file is the one in the guard, and the operation that     *)
(* claims the guard, if any, is the one that marked it.                    *)
MarkIsOwn ==
  \A o \in Owners : owner[o].mark =>
    /\ guard.dir /\ guard.owner = o /\ inst = "idle"
    /\ \A c \in Calls : Claims(c) => call[c].pc \in MarkedPcs /\ call[c].run = o

GuardInv ==
  /\ guard.dir \/ guard.owner = 0
  /\ \A c \in Calls : Numbered(call[c]) /\ Guarded(c, call[c], guard, owner)
  /\ \A c, d \in Calls : Claims(c) /\ Claims(d) => c = d
  /\ MarkIsOwn
  /\ inst # "idle" => \A c \in Calls : ~Claims(c)
  /\ inst = "working" => guard.dir /\ guard.owner = 0
  /\ inst = "gone" => ~guard.dir

(* The files at every moment, the moment after a death included.           *)
FilesFit ==
  /\ stored # None <=> "settings" \in area
  /\ "marker" \in area => "settings" \in area /\ "reg" \in area /\ temps \subseteq {"disabling"}
  /\ "marker" \notin area /\ "disabling" \in area => temps = {}
  /\ mgr.file => "marker" \in area /\ inst # "gone"

(* What an operation r under the lock knows of the files a, of the         *)
(* temporaries t and of the manager m.                                     *)
Fitting(r, a, t, m) ==
  /\ r.body = "enable" \/ r.pc \in {"enable", "recoverfiles"} => r.arg \in Profiles
  /\ r.pc = "recoverfiles" => "marker" \notin a /\ "disabling" \notin a
  /\ r.pc \in {"write", "rename"} => r.todo \in EnableTodos \union {DisablingTodo}
  /\ r.pc \in {"write", "rename"} /\ r.todo \in EnableTodos =>
       /\ r.arg \in Profiles
       /\ "marker" \notin a /\ "disabling" \notin a
       /\ Head(r.todo) # "settings" => "settings" \in a
       /\ Head(r.todo) = "marker" => "reg" \in a
  /\ r.pc \in {"write", "rename"} /\ r.todo = DisablingTodo => "marker" \in a
  /\ r.pc = "write" => t = {}
  /\ r.pc = "rename" => t \subseteq {Head(r.todo)}
  /\ r.pc \in {"inspect", "register", "again"} => "marker" \in a
  /\ r.pc = "register" => r.todo \in RegisterTodos
  /\ r.pc = "start" => r.todo \in StartTodos
  /\ r.pc = "stop" => r.todo \in StopTodos
  /\ r.pc \in {"view", "ask", "stop", "wait", "stopped", "unregister", "unregistering",
               "unregistered"} => "marker" \in a /\ t = {}
  /\ r.pc \in {"ask", "stop", "wait", "stopped"} => (m.file => r.registered)
  /\ r.pc = "unregistering" =>
       r.todo \in UnregisterTodos /\ (r.todo = <<"reload">> => ~m.file)
  /\ r.pc = "unregistered" => ~m.file
  /\ r.pc = "remove" =>
       /\ r.todo \in RemoveTodos
       /\ ~m.file /\ t = {}
       /\ Head(r.todo) # "marker" => "marker" \notin a

FilesInv == FilesFit /\ \A c \in Calls : Fitting(call[c], area, temps, mgr)
BackgroundInv == Types /\ GuardInv /\ FilesInv

---------------------------------------------------------------------------
(* The lists.                                                              *)

(* Taking the first element off a list of up to four.                      *)
LEMMA List1 ==
  ASSUME NEW a
  PROVE  Head(<<a>>) = a /\ Tail(<<a>>) = << >> /\ Len(<<a>>) = 1
  OBVIOUS
LEMMA List2 ==
  ASSUME NEW a, NEW b
  PROVE  Head(<<a, b>>) = a /\ Tail(<<a, b>>) = <<b>> /\ Len(<<a, b>>) = 2
  OBVIOUS
LEMMA List3 ==
  ASSUME NEW a, NEW b, NEW c
  PROVE  Head(<<a, b, c>>) = a /\ Tail(<<a, b, c>>) = <<b, c>> /\ Len(<<a, b, c>>) = 3
  OBVIOUS
LEMMA List4 ==
  ASSUME NEW a, NEW b, NEW c, NEW d
  PROVE  /\ Head(<<a, b, c, d>>) = a /\ Tail(<<a, b, c, d>>) = <<b, c, d>>
         /\ Len(<<a, b, c, d>>) = 4
  OBVIOUS

(* The files an Enable writes, in their order.                             *)
LEMMA EnableList ==
  ASSUME NEW t \in EnableTodos
  PROVE  /\ Head(t) \in Managed
         /\ Head(t) = "settings" => Tail(t) \in EnableTodos /\ Head(Tail(t)) = "reg"
         /\ Head(t) = "reg" => Tail(t) \in EnableTodos /\ Head(Tail(t)) = "marker"
         /\ Head(t) = "marker" => Tail(t) = << >>
<1>1. CASE t = <<"settings", "reg", "marker">>
  BY <1>1, List1, List2, List3, List4 DEF EnableTodos, Managed
<1>2. CASE t = <<"reg", "marker">>
  BY <1>2, List1, List2, List3, List4 DEF EnableTodos, Managed
<1>3. CASE t = <<"marker">>
  BY <1>3, List1, List2, List3, List4 DEF EnableTodos, Managed
<1>q. QED  BY <1>1, <1>2, <1>3 DEF EnableTodos

(* The mark of a Disable.                                                  *)
LEMMA DisablingList ==
  /\ Head(DisablingTodo) = "disabling" /\ Tail(DisablingTodo) = << >>
  /\ DisablingTodo \notin EnableTodos
  BY List1, List2, List3 DEF EnableTodos, DisablingTodo

(* The files a Disable removes, the marker first.                          *)
LEMMA RemoveList ==
  ASSUME NEW t \in RemoveTodos
  PROVE  /\ Head(t) \in Managed \union {"disabling"}
         /\ Len(t) = 1 => Tail(t) = << >> /\ Head(t) = "disabling"
         /\ Len(t) # 1 => Tail(t) \in RemoveTodos /\ Head(Tail(t)) # "marker"
<1>1. CASE t = <<"marker", "settings", "reg", "disabling">>
  BY <1>1, List1, List2, List3, List4 DEF RemoveTodos, DisablingTodo, Managed
<1>2. CASE t = <<"settings", "reg", "disabling">>
  BY <1>2, List1, List2, List3, List4 DEF RemoveTodos, DisablingTodo, Managed
<1>3. CASE t = <<"reg", "disabling">>
  BY <1>3, List1, List2, List3, List4 DEF RemoveTodos, DisablingTodo, Managed
<1>4. CASE t = <<"disabling">>
  BY <1>4, List1, List2, List3, List4 DEF RemoveTodos, DisablingTodo, Managed
<1>q. QED  BY <1>1, <1>2, <1>3, <1>4, Zenon DEF RemoveTodos, DisablingTodo

(* The commands that register the service.                                 *)
LEMMA RegisterList ==
  ASSUME NEW t \in RegisterTodos
  PROVE  /\ Head(t) \in {"temp", "file", "reload", "enable", "bootstrap", "create"}
         /\ Len(t) = 1 => Tail(t) = << >>
         /\ Len(t) # 1 => Tail(t) \in RegisterTodos
<1>1. CASE t = <<"temp", "file", "reload", "enable">>
  BY <1>1, List1, List2, List3, List4 DEF RegisterTodos
<1>2. CASE t = <<"file", "reload", "enable">>
  BY <1>2, List1, List2, List3, List4 DEF RegisterTodos
<1>3. CASE t = <<"reload", "enable">>
  BY <1>3, List1, List2, List3, List4 DEF RegisterTodos
<1>4. CASE t = <<"enable">>
  BY <1>4, List1, List2, List3, List4 DEF RegisterTodos
<1>5. CASE t = <<"temp", "file", "bootstrap">>
  BY <1>5, List1, List2, List3, List4 DEF RegisterTodos
<1>6. CASE t = <<"file", "bootstrap">>
  BY <1>6, List1, List2, List3, List4 DEF RegisterTodos
<1>7. CASE t = <<"bootstrap">>
  BY <1>7, List1, List2, List3, List4 DEF RegisterTodos
<1>8. CASE t = <<"create">>
  BY <1>8, List1, List2, List3, List4 DEF RegisterTodos
<1>q. QED  BY <1>1, <1>2, <1>3, <1>4, <1>5, <1>6, <1>7, <1>8 DEF RegisterTodos

(* The commands that unregister it: no one but reload follows the removal. *)
LEMMA UnregisterList ==
  ASSUME NEW t \in UnregisterTodos
  PROVE  /\ Head(t) \in {"disable", "unlink", "reload", "bootout", "delete"}
         /\ Len(t) = 1 => /\ Tail(t) = << >>
                          /\ Head(t) \in {"unlink", "delete"} \/ t = <<"reload">>
         /\ Len(t) # 1 => /\ Tail(t) \in UnregisterTodos
                          /\ Tail(t) = <<"reload">> => Head(t) = "unlink"
<1>1. CASE t = <<"disable", "unlink", "reload">>
  BY <1>1, List1, List2, List3, List4 DEF UnregisterTodos
<1>2. CASE t = <<"unlink", "reload">>
  BY <1>2, List1, List2, List3, List4 DEF UnregisterTodos
<1>3. CASE t = <<"reload">>
  BY <1>3, List1, List2, List3, List4 DEF UnregisterTodos
<1>4. CASE t = <<"bootout", "unlink">>
  BY <1>4, List1, List2, List3, List4 DEF UnregisterTodos
<1>5. CASE t = <<"unlink">>
  BY <1>5, List1, List2, List3, List4 DEF UnregisterTodos
<1>6. CASE t = <<"delete">>
  BY <1>6, List1, List2, List3, List4 DEF UnregisterTodos
<1>q. QED  BY <1>1, <1>2, <1>3, <1>4, <1>5, <1>6 DEF UnregisterTodos

---------------------------------------------------------------------------
(* The moves of one operation.                                             *)

(* One operation has moved: the others are where they were.                *)
LEMMA Moved ==
  ASSUME NEW c \in Calls, NEW r \in CallRecord, call \in [Calls -> CallRecord],
         call' = [call EXCEPT ![c] = r]
  PROVE  /\ call' \in [Calls -> CallRecord] /\ call'[c] = r
         /\ \A d \in Calls \ {c} : call'[d] = call[d]
  OBVIOUS

(* The kinds of place do not overlap.                                      *)
LEMMA Places ==
  /\ \A x \in OutsidePcs : x \notin ClaimPcs
  /\ MarkedPcs \subseteq LockedPcs /\ LockedPcs \subseteq LinkedPcs /\ LinkedPcs \subseteq ClaimPcs
  /\ WorkPcs \subseteq MarkedPcs
  /\ "readowner" \notin ClaimPcs
  BY DEF OutsidePcs, ClaimPcs, LinkedPcs, LockedPcs, MarkedPcs, WorkPcs

(* An operation that ends outside the guard, whatever it was before: it    *)
(* can only set its own locks, and clear marks.                            *)
LEMMA OutsideMove ==
  ASSUME Types, GuardInv,
         NEW c \in Calls, NEW r \in CallRecord, call' = [call EXCEPT ![c] = r],
         r.pc \in OutsidePcs, Numbered(r), guard' = guard, inst' = inst,
         \A o \in Owners : owner'[o].mark => owner[o].mark,
         \A o \in Owners, d \in Calls \ {c} : owner[o].lock = d => owner'[o].lock = d,
         r.pc = "readowner" => owner'[r.seen].lock = c
  PROVE  GuardInv'
<1>1. /\ call'[c] = r
      /\ \A d \in Calls \ {c} : call'[d] = call[d]
  BY Moved DEF Types
<1>2. \A d \in Calls \ {c} : Numbered(call'[d]) /\ Guarded(d, call'[d], guard', owner')
  <2> SUFFICES ASSUME NEW d \in Calls \ {c}
               PROVE  Numbered(call'[d]) /\ Guarded(d, call'[d], guard', owner')
    OBVIOUS
  <2>1. Numbered(call[d]) /\ Guarded(d, call[d], guard, owner) /\ call'[d] = call[d]
    BY <1>1 DEF GuardInv
  <2>2. call[d] \in CallRecord
    BY DEF Types
  <2>3. call[d].pc \in LockedPcs => call[d].run \in Owners
    BY <2>1, <2>2, BackgroundAssumption DEF Numbered, CallRecord, Runs0, Owners, LockedPcs, MarkedPcs, WorkPcs
  <2>4. call[d].pc = "readowner" => call[d].seen \in Owners
    BY <2>1, <2>2, BackgroundAssumption DEF Numbered, CallRecord, Runs0, Owners
  <2> QED  BY <2>1, <2>3, <2>4 DEF Guarded
<1>3. Numbered(call'[c]) /\ Guarded(c, call'[c], guard', owner')
  BY <1>1 DEF Guarded, OutsidePcs, ClaimPcs, LinkedPcs, LockedPcs, MarkedPcs, WorkPcs
<1>4. ~Claims(c)' /\ \A d \in Calls \ {c} : Claims(d)' <=> Claims(d)
  BY <1>1, Places DEF Claims
<1>5. MarkIsOwn'
  BY <1>1, <1>4 DEF MarkIsOwn, GuardInv
<1> QED  BY <1>2, <1>3, <1>4, <1>5 DEF GuardInv

(* An operation that is the only one at the guard afterwards.              *)
LEMMA ClaimMove ==
  ASSUME Types, GuardInv,
         NEW c \in Calls, NEW r \in CallRecord, call' = [call EXCEPT ![c] = r],
         Numbered(r), inst = "idle", inst' = inst, guard'.dir,
         \A d \in Calls \ {c} : ~Claims(d),
         Guarded(c, r, guard', owner'), r.pc \in ClaimPcs,
         \A o \in Owners : owner'[o].mark => guard'.owner = o /\ r.pc \in MarkedPcs /\ r.run = o,
         \A o \in Owners, d \in Calls \ {c} : owner[o].lock = d => owner'[o].lock = d
  PROVE  GuardInv'
<1>1. /\ call'[c] = r
      /\ \A d \in Calls \ {c} : call'[d] = call[d]
  BY Moved DEF Types
<1>2. \A d \in Calls \ {c} : Numbered(call'[d]) /\ Guarded(d, call'[d], guard', owner')
  <2> SUFFICES ASSUME NEW d \in Calls \ {c}
               PROVE  Numbered(call'[d]) /\ Guarded(d, call'[d], guard', owner')
    OBVIOUS
  <2>1. Numbered(call[d]) /\ Guarded(d, call[d], guard, owner) /\ call'[d] = call[d]
    BY <1>1 DEF GuardInv
  <2>2. call[d] \in CallRecord /\ call[d].pc \notin ClaimPcs
    BY DEF Types, Claims
  <2>3. call[d].pc = "readowner" => call[d].seen \in Owners
    BY <2>1, <2>2, BackgroundAssumption DEF Numbered, CallRecord, Runs0, Owners
  <2> QED  BY <2>1, <2>2, <2>3 DEF Guarded, ClaimPcs, LinkedPcs
<1>3. Numbered(call'[c]) /\ Guarded(c, call'[c], guard', owner')
  BY <1>1
<1>4. \A d \in Calls \ {c} : ~Claims(d)'
  BY <1>1 DEF Claims
<1>5. MarkIsOwn'
  BY <1>1, <1>4 DEF MarkIsOwn
<1> QED  BY <1>2, <1>3, <1>4, <1>5 DEF GuardInv

(* An operation that removes the guard it alone claims.                    *)
LEMMA DropMove ==
  ASSUME Types, GuardInv,
         NEW c \in Calls, NEW r \in CallRecord, call' = [call EXCEPT ![c] = r],
         Numbered(r), inst = "idle", inst' = inst, owner' = owner, ~guard'.dir, guard'.owner = 0,
         \A d \in Calls \ {c} : ~Claims(d), \A o \in Owners : ~owner[o].mark,
         r.pc \in OutsidePcs, r.pc # "readowner"
  PROVE  GuardInv'
<1>1. /\ call'[c] = r
      /\ \A d \in Calls \ {c} : call'[d] = call[d]
  BY Moved DEF Types
<1>2. \A d \in Calls \ {c} : Numbered(call'[d]) /\ Guarded(d, call'[d], guard', owner')
  <2> SUFFICES ASSUME NEW d \in Calls \ {c}
               PROVE  Numbered(call'[d]) /\ Guarded(d, call'[d], guard', owner')
    OBVIOUS
  <2>1. Numbered(call[d]) /\ Guarded(d, call[d], guard, owner) /\ call'[d] = call[d]
    BY <1>1 DEF GuardInv
  <2>2. call[d].pc \notin ClaimPcs
    BY DEF Claims
  <2> QED  BY <2>1, <2>2 DEF Guarded, ClaimPcs, LinkedPcs
<1>3. Numbered(call'[c]) /\ Guarded(c, call'[c], guard', owner')
  BY <1>1 DEF Guarded, OutsidePcs, ClaimPcs, LinkedPcs, LockedPcs, MarkedPcs, WorkPcs
<1>4. ~Claims(c)' /\ \A d \in Calls \ {c} : ~Claims(d)'
  BY <1>1, Places DEF Claims
<1>5. MarkIsOwn'
  BY DEF MarkIsOwn
<1> QED  BY <1>2, <1>3, <1>4, <1>5 DEF GuardInv

(* An operation that claims the guard is the only one, the installer       *)
(* included, and a mark is its own.                                        *)
LEMMA ClaimIsAlone ==
  ASSUME GuardInv, Types, NEW c \in Calls, Claims(c)
  PROVE  /\ \A d \in Calls \ {c} : ~Claims(d)
         /\ inst = "idle" /\ guard.dir
         /\ \A o \in Owners : owner[o].mark => call[c].pc \in MarkedPcs /\ call[c].run = o
  BY DEF GuardInv, MarkIsOwn, Types, Guarded, Claims

(* An operation that is not at work leaves what is known of the files.     *)
LEMMA FilesOutside ==
  ASSUME Types, FilesInv,
         NEW c \in Calls, NEW r \in CallRecord, call' = [call EXCEPT ![c] = r],
         r.pc \notin WorkPcs, r.body = "enable" => r.arg \in Profiles,
         area' = area, temps' = temps, stored' = stored, mgr' = mgr, inst' = inst
  PROVE  FilesInv'
<1>1. /\ call'[c] = r
      /\ \A d \in Calls \ {c} : call'[d] = call[d]
  BY Moved DEF Types
<1>2. Fitting(r, area, temps, mgr)
  BY DEF Fitting, WorkPcs
<1>3. FilesFit'
  BY DEF FilesFit, FilesInv
<1> QED  BY <1>1, <1>2, <1>3 DEF FilesInv

(* Only an operation at work changes the files or the registration.        *)
LEMMA FilesWork ==
  ASSUME Types, GuardInv, FilesInv,
         NEW c \in Calls, NEW r \in CallRecord, call' = [call EXCEPT ![c] = r],
         call[c].pc \in MarkedPcs, FilesFit', Fitting(r, area', temps', mgr')
  PROVE  FilesInv'
<1>1. /\ call'[c] = r
      /\ \A d \in Calls \ {c} : call'[d] = call[d]
  BY Moved DEF Types
<1>2. ASSUME NEW d \in Calls \ {c}
      PROVE  Fitting(call[d], area', temps', mgr')
  <2>1. Claims(c)
    BY Places DEF Claims
  <2>2. call[d].pc \notin WorkPcs
    BY <2>1, ClaimIsAlone, Places DEF Claims
  <2>3. call[d].body = "enable" => call[d].arg \in Profiles
    BY DEF FilesInv, Fitting
  <2> QED  BY <2>2, <2>3 DEF Fitting, WorkPcs
<1> QED  BY <1>1, <1>2 DEF FilesInv

---------------------------------------------------------------------------
(* The guard.                                                              *)

LEMMA NoCallFacts ==
  /\ NoCall \in CallRecord
  /\ NoCall.pc = "idle" /\ NoCall.body = "none" /\ NoCall.after = "idle"
  BY BackgroundAssumption DEF NoCall, CallRecord, OutsidePcs, Ops, Runs0, Todos

(* Of a process: what its operation may be.                                *)
LEMMA CallFacts ==
  ASSUME BackgroundInv, NEW c \in Calls
  PROVE  /\ call[c] \in CallRecord /\ Numbered(call[c])
         /\ Guarded(c, call[c], guard, owner) /\ Fitting(call[c], area, temps, mgr)
         /\ call \in [Calls -> CallRecord] /\ owner \in [Owners -> OwnerRecord]
         /\ call[c].body = "enable" => call[c].arg \in Profiles
  BY DEF BackgroundInv, Types, GuardInv, FilesInv, Fitting

(* Only the place of the operation has changed.                            *)
LEMMA NewPlace ==
  ASSUME NEW c \in Calls, NEW x \in OutsidePcs \union ClaimPcs,
         call \in [Calls -> CallRecord], Goto(c, x)
  PROVE  \E r \in CallRecord :
           /\ call' = [call EXCEPT ![c] = r]
           /\ r.pc = x /\ r.op = call[c].op /\ r.run = call[c].run /\ r.arg = call[c].arg
           /\ r.seen = call[c].seen /\ r.body = call[c].body /\ r.after = call[c].after
           /\ r.todo = call[c].todo /\ r.registered = call[c].registered
<1> DEFINE r == [call[c] EXCEPT !.pc = x]
<1>1. call[c] \in CallRecord
  OBVIOUS
<1>2. r \in CallRecord
  BY <1>1 DEF CallRecord
<1>3. call' = [call EXCEPT ![c] = r]
  BY DEF Goto
<1>4. /\ r.pc = x /\ r.op = call[c].op /\ r.run = call[c].run /\ r.arg = call[c].arg
      /\ r.seen = call[c].seen /\ r.body = call[c].body /\ r.after = call[c].after
      /\ r.todo = call[c].todo /\ r.registered = call[c].registered
  BY <1>1 DEF CallRecord
<1> QED  BY <1>2, <1>3, <1>4, Zenon

(* An operation gives up outside the guard, or dies anywhere.              *)
LEMMA GivesUp ==
  ASSUME BackgroundInv, NEW c \in Calls, call' = [call EXCEPT ![c] = NoCall],
         UNCHANGED <<bookkeeping, guard, files, mgr, inst>>,
         owner' \in [Owners -> OwnerRecord],
         \A o \in Owners : owner'[o].mark => owner[o].mark,
         \A o \in Owners, d \in Calls \ {c} : owner[o].lock = d => owner'[o].lock = d
  PROVE  BackgroundInv'
<1>1. Numbered(NoCall) /\ NoCall.pc \in OutsidePcs /\ NoCall.pc \notin WorkPcs
  BY NoCallFacts DEF Numbered, OutsidePcs, WorkPcs
<1>2. Types'
  BY NoCallFacts, Moved DEF BackgroundInv, Types, bookkeeping, files
<1>3. GuardInv'
  BY <1>1, NoCallFacts, OutsideMove, Zenon DEF BackgroundInv
<1>4. FilesInv'
  BY <1>1, NoCallFacts, FilesOutside, Zenon DEF BackgroundInv, files
<1> QED  BY <1>2, <1>3, <1>4 DEF BackgroundInv

(* The guard is made: whoever makes the directory is alone with it.        *)
LEMMA MadeGuard ==
  ASSUME BackgroundInv, NEW c \in Calls, At(c, "mkdir") \/ At(c, "mkagain"),
         inst # "gone", ~guard.dir, guard' = [dir |-> TRUE, owner |-> 0], Goto(c, "own"),
         UNCHANGED <<bookkeeping, owner, files, mgr, inst>>
  PROVE  BackgroundInv'
<1>1. PICK r \in CallRecord :
        /\ call' = [call EXCEPT ![c] = r]
        /\ r.pc = "own" /\ r.run = call[c].run /\ r.arg = call[c].arg
        /\ r.seen = call[c].seen /\ r.body = call[c].body /\ r.after = call[c].after
  BY NewPlace, CallFacts DEF ClaimPcs
<1>2. Numbered(r) /\ (r.body = "enable" => r.arg \in Profiles)
  BY <1>1, CallFacts DEF Numbered, At
<1>3. guard' \in GuardRecord /\ guard'.dir /\ guard'.owner = 0
  BY BackgroundAssumption DEF GuardRecord, Runs0
<1>4. inst = "idle" /\ \A d \in Calls : ~Claims(d)
  BY DEF BackgroundInv, GuardInv, Types, Guarded, Claims
<1>5. \A o \in Owners : ~owner[o].mark
  BY DEF BackgroundInv, GuardInv, MarkIsOwn
<1>6. Types'
  BY <1>1, <1>3, Moved DEF BackgroundInv, Types, bookkeeping, files
<1>7. Guarded(c, r, guard', owner') /\ r.pc \in ClaimPcs
  BY <1>1, <1>3 DEF Guarded, ClaimPcs, LinkedPcs, LockedPcs, MarkedPcs, WorkPcs
<1>8. GuardInv'
  BY <1>1, <1>2, <1>3, <1>4, <1>5, <1>7, ClaimMove, Zenon DEF BackgroundInv
<1>9. FilesInv'
  BY <1>1, <1>2, FilesOutside, Zenon DEF BackgroundInv, files, WorkPcs
<1> QED  BY <1>6, <1>8, <1>9 DEF BackgroundInv

(* An operation begins.                                                    *)
LEMMA BeginStep ==
  ASSUME BackgroundInv, NEW c \in Calls, BeginAny(c)
  PROVE  BackgroundInv'
<1>1. PICK op \in Ops, arg \in Profiles \union {None}, force \in BOOLEAN :
        Begin(c, op, arg, force) /\ (op = "enable" => arg \in Profiles)
  BY Zenon DEF BeginAny, Ops
<1> DEFINE body == CASE op = "enable" -> "enable" [] op = "disable" -> "resume" [] OTHER -> "load"
           after == IF op = "disable" THEN "disable" ELSE "idle"
           r == [NoCall EXCEPT !.pc = "mkdir", !.op = op, !.run = runs + 1, !.arg = arg,
                               !.force = force, !.body = body, !.after = after]
<1>2. runs + 1 \in Runs0 /\ runs + 1 > 0 /\ runs + 1 <= MaxRuns /\ runs + 1 \in 0 .. MaxRuns
  BY <1>1, BackgroundAssumption DEF BackgroundInv, Types, Begin, Runs0
<1>3. body \in {"enable", "resume", "load"} /\ after \in {"idle", "disable"}
      /\ (body = "enable" => op = "enable")
  OBVIOUS
<1>4. call' = [call EXCEPT ![c] = r] /\ runs' = runs + 1
  BY <1>1 DEF Begin
<1> HIDE DEF body, after
<1>5. r \in CallRecord
  BY <1>2, <1>3, NoCallFacts, Zenon DEF CallRecord, OutsidePcs
<1>6. r.pc = "mkdir" /\ r.run = runs + 1 /\ r.body = body /\ r.arg = arg
  BY NoCallFacts DEF NoCall
<1> HIDE DEF r
<1>7. Numbered(r) /\ (r.body = "enable" => r.arg \in Profiles)
  BY <1>1, <1>2, <1>3, <1>6 DEF Numbered
<1>8. Types'
  BY <1>1, <1>2, <1>4, <1>5, Moved DEF BackgroundInv, Types, Begin, guards, files
<1>9. GuardInv'
  BY <1>1, <1>4, <1>5, <1>6, <1>7, OutsideMove, Zenon DEF BackgroundInv, Begin, guards, OutsidePcs
<1>10. FilesInv'
  BY <1>1, <1>4, <1>5, <1>6, <1>7, FilesOutside, Zenon DEF BackgroundInv, Begin, files, WorkPcs
<1> QED  BY <1>8, <1>9, <1>10 DEF BackgroundInv

LEMMA MakeGuardStep ==
  ASSUME BackgroundInv, NEW c \in Calls, MakeGuard(c)
  PROVE  BackgroundInv'
<1>1. CASE inst = "gone"
  BY <1>1, GivesUp, CallFacts DEF MakeGuard, bookkeeping
<1>2. CASE inst # "gone" /\ guard.dir
  <2>1. Goto(c, "recover") /\ UNCHANGED <<bookkeeping, guards, files, mgr, inst>>
    BY <1>2 DEF MakeGuard, guards
  <2>2. PICK r \in CallRecord :
          /\ call' = [call EXCEPT ![c] = r]
          /\ r.pc = "recover" /\ r.run = call[c].run /\ r.arg = call[c].arg
          /\ r.seen = call[c].seen /\ r.body = call[c].body /\ r.after = call[c].after
    BY <2>1, NewPlace, CallFacts DEF OutsidePcs
  <2>3. Numbered(r) /\ (r.body = "enable" => r.arg \in Profiles)
    BY <2>2, CallFacts DEF Numbered, MakeGuard, At
  <2>4. Types'
    BY <2>1, <2>2, Moved DEF BackgroundInv, Types, bookkeeping, guards, files
  <2>5. GuardInv'
    BY <2>1, <2>2, <2>3, OutsideMove, Zenon DEF BackgroundInv, guards, OutsidePcs
  <2>6. FilesInv'
    BY <2>1, <2>2, <2>3, FilesOutside, Zenon DEF BackgroundInv, files, WorkPcs
  <2> QED  BY <2>4, <2>5, <2>6 DEF BackgroundInv
<1>3. CASE inst # "gone" /\ ~guard.dir
  BY <1>3, MadeGuard DEF MakeGuard
<1> QED  BY <1>1, <1>2, <1>3

LEMMA MakeGuardAgainStep ==
  ASSUME BackgroundInv, NEW c \in Calls, MakeGuardAgain(c)
  PROVE  BackgroundInv'
<1>1. CASE guard.dir \/ inst = "gone"
  BY <1>1, GivesUp, CallFacts DEF MakeGuardAgain
<1>2. CASE ~(guard.dir \/ inst = "gone")
  BY <1>2, MadeGuard DEF MakeGuardAgain
<1> QED  BY <1>1, <1>2

LEMMA OpenOwnerStep ==
  ASSUME BackgroundInv, NEW c \in Calls, OpenOwner(c)
  PROVE  BackgroundInv'
<1>1. CASE ~(guard.dir /\ guard.owner # 0)
  BY <1>1, GivesUp, CallFacts, Zenon DEF OpenOwner, guards
<1>2. CASE guard.dir /\ guard.owner # 0
  <2> DEFINE r == [call[c] EXCEPT !.pc = "lockowner", !.seen = guard.owner]
  <2>1. guard.owner \in Runs0 /\ guard.owner > 0
    BY <1>2, BackgroundAssumption DEF BackgroundInv, Types, GuardRecord, Runs0
  <2>2. r \in CallRecord
    BY <2>1, CallFacts, ZenonT(30) DEF CallRecord, OutsidePcs
  <2>3. /\ r.pc = "lockowner" /\ r.run = call[c].run /\ r.arg = call[c].arg
        /\ r.seen = guard.owner /\ r.body = call[c].body /\ r.after = call[c].after
    BY CallFacts DEF CallRecord
  <2>4. call' = [call EXCEPT ![c] = r]
    BY <1>2 DEF OpenOwner
  <2> HIDE DEF r
  <2>5. UNCHANGED <<bookkeeping, guards, files, mgr, inst>>
    BY DEF OpenOwner
  <2>6. Numbered(r) /\ (r.body = "enable" => r.arg \in Profiles)
    BY <2>1, <2>3, CallFacts DEF Numbered, OpenOwner, At
  <2>7. Types'
    BY <2>2, <2>4, <2>5, Moved DEF BackgroundInv, Types, bookkeeping, guards, files
  <2>8. GuardInv'
    BY <2>2, <2>3, <2>4, <2>5, <2>6, OutsideMove, Zenon DEF BackgroundInv, guards, OutsidePcs
  <2>9. FilesInv'
    BY <2>2, <2>3, <2>4, <2>5, <2>6, FilesOutside, Zenon DEF BackgroundInv, files, WorkPcs
  <2> QED  BY <2>7, <2>8, <2>9 DEF BackgroundInv
<1> QED  BY <1>1, <1>2

LEMMA LockOwnerStep ==
  ASSUME BackgroundInv, NEW c \in Calls, LockOwner(c)
  PROVE  BackgroundInv'
<1> DEFINE s == call[c].seen
<1>1. s \in Owners
  BY CallFacts, BackgroundAssumption DEF LockOwner, At, Numbered, CallRecord, Runs0, Owners
<1>2. CASE owner[s].lock # None
  BY <1>2, GivesUp, CallFacts DEF LockOwner
<1>3. CASE owner[s].lock = None
  <2>1. /\ owner' = [owner EXCEPT ![s].lock = c] /\ Goto(c, "readowner")
        /\ UNCHANGED <<bookkeeping, guard, files, mgr, inst>>
    BY <1>3 DEF LockOwner
  <2>2. PICK r \in CallRecord :
          /\ call' = [call EXCEPT ![c] = r]
          /\ r.pc = "readowner" /\ r.run = call[c].run /\ r.arg = call[c].arg
          /\ r.seen = s /\ r.body = call[c].body /\ r.after = call[c].after
    BY <2>1, NewPlace, CallFacts DEF OutsidePcs
  <2>3. Numbered(r) /\ (r.body = "enable" => r.arg \in Profiles)
    BY <2>2, CallFacts DEF Numbered, LockOwner, At
  <2>4. /\ owner' \in [Owners -> OwnerRecord] /\ owner'[s].lock = c
        /\ \A o \in Owners : owner'[o].mark = owner[o].mark
        /\ \A o \in Owners \ {s} : owner'[o] = owner[o]
    BY <1>1, <2>1, CallFacts DEF OwnerRecord
  <2>5. \A o \in Owners, d \in Calls \ {c} : owner[o].lock = d => owner'[o].lock = d
    BY <1>3, <2>4, BackgroundAssumption
  <2>6. Types'
    BY <2>1, <2>2, <2>4, Moved DEF BackgroundInv, Types, bookkeeping, files
  <2>7. GuardInv'
    BY <2>1, <2>2, <2>3, <2>4, <2>5, OutsideMove, Zenon DEF BackgroundInv, OutsidePcs
  <2>8. FilesInv'
    BY <2>1, <2>2, <2>3, FilesOutside, Zenon DEF BackgroundInv, files, WorkPcs
  <2> QED  BY <2>6, <2>7, <2>8 DEF BackgroundInv
<1> QED  BY <1>2, <1>3

(* The step that takes over a guard a dead operation left: the mark was    *)
(* found under the lock, so nobody else claims the guard, and no one else  *)
(* will find it.                                                           *)
LEMMA ReadOwnerStep ==
  ASSUME BackgroundInv, NEW c \in Calls, ReadOwner(c)
  PROVE  BackgroundInv'
<1> DEFINE s == call[c].seen
<1>1. s \in Owners /\ owner[s].lock = c /\ call[c].pc = "readowner"
  BY CallFacts, BackgroundAssumption
     DEF ReadOwner, At, Numbered, CallRecord, Runs0, Owners, Guarded
<1>2. /\ owner' = [owner EXCEPT ![s] = [mark |-> FALSE, lock |-> None]]
      /\ UNCHANGED <<bookkeeping, guard, files, mgr, inst>>
  BY DEF ReadOwner
<1>3. /\ owner' \in [Owners -> OwnerRecord]
      /\ ~owner'[s].mark /\ \A o \in Owners \ {s} : owner'[o] = owner[o]
  BY <1>1, <1>2, CallFacts DEF OwnerRecord
<1>4. \A o \in Owners, d \in Calls \ {c} : owner[o].lock = d => owner'[o].lock = d
  BY <1>1, <1>3
<1>5. CASE ~owner[s].mark
  BY <1>2, <1>3, <1>4, <1>5, GivesUp, Zenon DEF ReadOwner
<1>6. CASE owner[s].mark
  <2>1. Goto(c, "unlinkowner")
    BY <1>6, CallFacts DEF ReadOwner, Goto, CallRecord
  <2>2. PICK r \in CallRecord :
          /\ call' = [call EXCEPT ![c] = r]
          /\ r.pc = "unlinkowner" /\ r.run = call[c].run /\ r.arg = call[c].arg
          /\ r.seen = s /\ r.body = call[c].body /\ r.after = call[c].after
    BY <2>1, NewPlace, CallFacts DEF ClaimPcs
  <2>3. Numbered(r) /\ (r.body = "enable" => r.arg \in Profiles)
    BY <1>1, <2>2, CallFacts DEF Numbered
  <2>4. /\ guard.dir /\ guard.owner = s /\ inst = "idle" /\ s # 0
        /\ \A d \in Calls : Claims(d) => call[d].pc \in MarkedPcs /\ call[d].run = s
    <3>1. MarkIsOwn /\ s # 0
      BY <1>1, BackgroundAssumption DEF Owners, BackgroundInv, GuardInv
    <3> QED  BY <1>1, <1>6, <3>1, Zenon DEF MarkIsOwn
  <2>5. \A d \in Calls \ {c} : ~Claims(d)
    BY <1>1, <2>4, CallFacts, Places, ZenonT(30) DEF Guarded
  <2>6. \A o \in Owners : ~owner'[o].mark
    BY <1>3, <2>4 DEF BackgroundInv, GuardInv, MarkIsOwn
  <2>7. Guarded(c, r, guard', owner') /\ r.pc \in ClaimPcs
    BY <1>2, <2>2, <2>4 DEF Guarded, ClaimPcs, LinkedPcs, LockedPcs, MarkedPcs, WorkPcs
  <2>8. Types'
    BY <1>2, <1>3, <2>2, Moved DEF BackgroundInv, Types, bookkeeping, files
  <2>9. GuardInv'
    BY <1>2, <1>4, <2>2, <2>3, <2>4, <2>5, <2>6, <2>7, ClaimMove, Zenon DEF BackgroundInv
  <2>10. FilesInv'
    BY <1>2, <2>2, <2>3, FilesOutside, ZenonT(30) DEF BackgroundInv, files, WorkPcs
  <2> QED  BY <2>8, <2>9, <2>10 DEF BackgroundInv
<1> QED  BY <1>5, <1>6

(* An operation that claims the guard goes on to another place of its      *)
(* claim; it changes the guard and its owner file as that place requires.  *)
LEMMA ClaimGoesOn ==
  ASSUME BackgroundInv, NEW c \in Calls, Claims(c), NEW r \in CallRecord,
         call' = [call EXCEPT ![c] = r],
         r.pc \in ClaimPcs, r.pc \notin WorkPcs, r.run = call[c].run, r.seen = call[c].seen,
         r.after = call[c].after \/ r.after = "idle",
         r.body = call[c].body, r.arg = call[c].arg,
         UNCHANGED <<bookkeeping, files, mgr, inst>>,
         guard' \in GuardRecord, guard'.dir, owner' \in [Owners -> OwnerRecord],
         \A o \in Owners, d \in Calls \ {c} : owner[o].lock = d => owner'[o].lock = d,
         \A o \in Owners : owner'[o].mark => guard'.owner = o /\ r.pc \in MarkedPcs /\ r.run = o,
         Guarded(c, r, guard', owner')
  PROVE  BackgroundInv'
<1>1. /\ \A d \in Calls \ {c} : ~Claims(d)
      /\ inst = "idle" /\ inst' = inst
  BY ClaimIsAlone DEF BackgroundInv
<1>2. Numbered(r)
  BY CallFacts, ZenonT(30) DEF Numbered, Claims, ClaimPcs, LinkedPcs, LockedPcs, MarkedPcs, WorkPcs
<1>3. Types'
  BY Moved DEF BackgroundInv, Types, bookkeeping, files
<1>4. GuardInv'
  BY <1>1, <1>2, ClaimMove, Zenon DEF BackgroundInv
<1>5. FilesInv'
  BY CallFacts, FilesOutside, Zenon DEF BackgroundInv, files
<1> QED  BY <1>3, <1>4, <1>5 DEF BackgroundInv

(* An operation takes the guard it claims away.                            *)
LEMMA ClaimEnds ==
  ASSUME BackgroundInv, NEW c \in Calls, Claims(c), call[c].pc \notin MarkedPcs,
         NEW r \in CallRecord, call' = [call EXCEPT ![c] = r],
         r.pc \in OutsidePcs, r.pc # "readowner", Numbered(r),
         r.body = "enable" => r.arg \in Profiles,
         UNCHANGED <<bookkeeping, owner, files, mgr, inst>>,
         guard' = [dir |-> FALSE, owner |-> 0]
  PROVE  BackgroundInv'
<1>1. /\ \A d \in Calls \ {c} : ~Claims(d)
      /\ inst = "idle" /\ inst' = inst
      /\ \A o \in Owners : ~owner[o].mark
  BY ClaimIsAlone DEF BackgroundInv
<1>2. guard' \in GuardRecord /\ ~guard'.dir /\ guard'.owner = 0
  BY BackgroundAssumption DEF GuardRecord, Runs0
<1>3. Types'
  BY <1>2, Moved DEF BackgroundInv, Types, bookkeeping, files
<1>4. GuardInv'
  BY <1>1, <1>2, DropMove, Zenon DEF BackgroundInv
<1>5. FilesInv'
  BY Places, FilesOutside, Zenon DEF BackgroundInv, files
<1> QED  BY <1>3, <1>4, <1>5 DEF BackgroundInv

LEMMA UnlinkOwnerStep ==
  ASSUME BackgroundInv, NEW c \in Calls, UnlinkOwner(c)
  PROVE  BackgroundInv'
<1>1. Claims(c) /\ call[c].pc = "unlinkowner" /\ call[c].pc \notin MarkedPcs
  BY DEF UnlinkOwner, At, Claims, ClaimPcs, MarkedPcs, WorkPcs
<1>2. guard.owner # 0 /\ guard.dir /\ guard \in GuardRecord
  BY <1>1, CallFacts DEF Guarded, Claims, BackgroundInv, Types
<1>3. /\ guard' = [guard EXCEPT !.owner = 0] /\ Goto(c, "rmguard")
      /\ UNCHANGED <<bookkeeping, owner, files, mgr, inst>>
  BY <1>2 DEF UnlinkOwner
<1>4. PICK r \in CallRecord :
        /\ call' = [call EXCEPT ![c] = r]
        /\ r.pc = "rmguard" /\ r.run = call[c].run /\ r.arg = call[c].arg
        /\ r.seen = call[c].seen /\ r.body = call[c].body /\ r.after = call[c].after
  BY <1>3, NewPlace, CallFacts DEF ClaimPcs
<1>5. guard' \in GuardRecord /\ guard'.dir /\ guard'.owner = 0
  BY <1>2, <1>3, BackgroundAssumption DEF GuardRecord, Runs0
<1>6. \A o \in Owners : ~owner[o].mark
  BY <1>1, ClaimIsAlone DEF BackgroundInv
<1>7. r.pc \in ClaimPcs /\ r.pc \notin WorkPcs /\ Guarded(c, r, guard', owner')
  BY <1>4, <1>5 DEF Guarded, ClaimPcs, LinkedPcs, LockedPcs, MarkedPcs, WorkPcs
<1> QED  BY <1>1, <1>3, <1>4, <1>5, <1>6, <1>7, CallFacts, ClaimGoesOn, Zenon

LEMMA RemoveGuardStep ==
  ASSUME BackgroundInv, NEW c \in Calls, RemoveGuard(c)
  PROVE  BackgroundInv'
<1>1. Claims(c) /\ call[c].pc = "rmguard" /\ call[c].pc \notin MarkedPcs
  BY DEF RemoveGuard, At, Claims, ClaimPcs, MarkedPcs, WorkPcs
<1>2. guard.owner = 0 /\ guard.dir
  BY <1>1, CallFacts DEF Guarded, Claims
<1>3. /\ guard' = [dir |-> FALSE, owner |-> 0] /\ Goto(c, "mkagain")
      /\ UNCHANGED <<bookkeeping, owner, files, mgr, inst>>
  BY <1>2 DEF RemoveGuard
<1>4. PICK r \in CallRecord :
        /\ call' = [call EXCEPT ![c] = r]
        /\ r.pc = "mkagain" /\ r.run = call[c].run /\ r.arg = call[c].arg
        /\ r.seen = call[c].seen /\ r.body = call[c].body /\ r.after = call[c].after
  BY <1>3, NewPlace, CallFacts DEF OutsidePcs
<1>5. Numbered(r) /\ (r.body = "enable" => r.arg \in Profiles)
  BY <1>1, <1>4, CallFacts DEF Numbered
<1>6. r.pc \in OutsidePcs /\ r.pc # "readowner"
  BY <1>4 DEF OutsidePcs
<1> QED  BY <1>1, <1>3, <1>4, <1>5, <1>6, ClaimEnds, Zenon

LEMMA CreateOwnerStep ==
  ASSUME BackgroundInv, NEW c \in Calls, CreateOwner(c)
  PROVE  BackgroundInv'
<1>1. Claims(c) /\ call[c].pc = "own" /\ call[c].pc \notin MarkedPcs
  BY DEF CreateOwner, At, Claims, ClaimPcs, MarkedPcs, WorkPcs
<1>2. guard.owner = 0 /\ guard.dir /\ guard \in GuardRecord
  BY <1>1, CallFacts DEF Guarded, Claims, BackgroundInv, Types
<1>3. UNCHANGED <<bookkeeping, owner, files, mgr, inst>>
  BY DEF CreateOwner
<1>4. \A o \in Owners : ~owner[o].mark
  BY <1>1, ClaimIsAlone DEF BackgroundInv
<1>5. CASE guard' = [guard EXCEPT !.owner = call[c].run] /\ Goto(c, "lockown")
  <2>1. PICK r \in CallRecord :
          /\ call' = [call EXCEPT ![c] = r]
          /\ r.pc = "lockown" /\ r.run = call[c].run /\ r.arg = call[c].arg
          /\ r.seen = call[c].seen /\ r.body = call[c].body /\ r.after = call[c].after
    BY <1>5, NewPlace, CallFacts DEF ClaimPcs, LinkedPcs
  <2>2. call[c].run \in Runs0
    BY CallFacts DEF CallRecord
  <2>3. guard' \in GuardRecord /\ guard'.dir /\ guard'.owner = r.run
    BY <1>2, <1>5, <2>1, <2>2 DEF GuardRecord
  <2>4. r.pc \in ClaimPcs /\ r.pc \notin WorkPcs /\ Guarded(c, r, guard', owner')
    BY <2>1, <2>3 DEF Guarded, ClaimPcs, LinkedPcs, LockedPcs, MarkedPcs, WorkPcs
  <2> QED  BY <1>1, <1>3, <1>4, <2>1, <2>3, <2>4, CallFacts, ClaimGoesOn, Zenon
<1>6. CASE guard' = guard /\ call' = [call EXCEPT ![c].pc = "rmown", ![c].after = "idle"]
  <2> DEFINE r == [call[c] EXCEPT !.pc = "rmown", !.after = "idle"]
  <2>1. call' = [call EXCEPT ![c] = r]
    BY <1>6, CallFacts, Zenon
  <2>2. r \in CallRecord
    BY CallFacts, ZenonT(30) DEF CallRecord, ClaimPcs
  <2>3. /\ r.pc = "rmown" /\ r.run = call[c].run /\ r.arg = call[c].arg
        /\ r.seen = call[c].seen /\ r.body = call[c].body /\ r.after = "idle"
    BY CallFacts DEF CallRecord
  <2> HIDE DEF r
  <2>4. r.pc \in ClaimPcs /\ r.pc \notin WorkPcs /\ Guarded(c, r, guard', owner')
    BY <1>2, <1>6, <2>3 DEF Guarded, ClaimPcs, LinkedPcs, LockedPcs, MarkedPcs, WorkPcs
  <2> QED  BY <1>1, <1>2, <1>3, <1>4, <1>6, <2>1, <2>2, <2>3, <2>4, CallFacts, ClaimGoesOn, Zenon
<1> QED  BY <1>2, <1>5, <1>6, Zenon DEF CreateOwner

LEMMA LockOwnStep ==
  ASSUME BackgroundInv, NEW c \in Calls, LockOwn(c)
  PROVE  BackgroundInv'
<1> DEFINE n == call[c].run
<1>1. Claims(c) /\ call[c].pc = "lockown" /\ call[c].pc \notin MarkedPcs
  BY DEF LockOwn, At, Claims, ClaimPcs, LinkedPcs, LockedPcs, MarkedPcs, WorkPcs
<1>2. guard.owner = n /\ guard.dir /\ guard \in GuardRecord
  BY <1>1, CallFacts DEF Guarded, Claims, BackgroundInv, Types, LinkedPcs
<1>3. n \in Owners
  BY <1>1, CallFacts, BackgroundAssumption DEF Numbered, CallRecord, Runs0, Owners
<1>4. \A o \in Owners : ~owner[o].mark
  BY <1>1, ClaimIsAlone DEF BackgroundInv
<1>5. UNCHANGED <<bookkeeping, guard, files, mgr, inst>>
  BY DEF LockOwn
<1>6. CASE owner[n].lock = None
  <2>1. owner' = [owner EXCEPT ![n].lock = c] /\ Goto(c, "mark")
    BY <1>6 DEF LockOwn
  <2>2. PICK r \in CallRecord :
          /\ call' = [call EXCEPT ![c] = r]
          /\ r.pc = "mark" /\ r.run = n /\ r.arg = call[c].arg
          /\ r.seen = call[c].seen /\ r.body = call[c].body /\ r.after = call[c].after
    BY <2>1, NewPlace, CallFacts DEF ClaimPcs, LinkedPcs, LockedPcs
  <2>3. /\ owner' \in [Owners -> OwnerRecord] /\ owner'[n].lock = c
        /\ \A o \in Owners : owner'[o].mark = owner[o].mark
        /\ \A o \in Owners \ {n} : owner'[o] = owner[o]
    BY <1>3, <2>1, CallFacts DEF OwnerRecord
  <2>4. \A o \in Owners, d \in Calls \ {c} : owner[o].lock = d => owner'[o].lock = d
    BY <1>6, <2>3, BackgroundAssumption
  <2>5. r.pc \in ClaimPcs /\ r.pc \notin WorkPcs /\ Guarded(c, r, guard', owner')
    BY <1>2, <1>5, <2>2, <2>3 DEF Guarded, ClaimPcs, LinkedPcs, LockedPcs, MarkedPcs, WorkPcs
  <2> QED  BY <1>1, <1>2, <1>4, <1>5, <2>2, <2>3, <2>4, <2>5, ClaimGoesOn, Zenon
<1>7. CASE owner[n].lock # None
  <2> DEFINE r == [call[c] EXCEPT !.pc = "unlinkown", !.after = "idle"]
  <2>1. call' = [call EXCEPT ![c] = r] /\ owner' = owner
    BY <1>7, CallFacts, Zenon DEF LockOwn
  <2>2. r \in CallRecord
    BY CallFacts, ZenonT(30) DEF CallRecord, ClaimPcs, LinkedPcs
  <2>3. /\ r.pc = "unlinkown" /\ r.run = n /\ r.arg = call[c].arg
        /\ r.seen = call[c].seen /\ r.body = call[c].body /\ r.after = "idle"
    BY CallFacts DEF CallRecord
  <2> HIDE DEF r
  <2>4. r.pc \in ClaimPcs /\ r.pc \notin WorkPcs /\ Guarded(c, r, guard', owner')
    BY <1>2, <1>5, <2>3 DEF Guarded, ClaimPcs, LinkedPcs, LockedPcs, MarkedPcs, WorkPcs
  <2> QED  BY <1>1, <1>2, <1>4, <1>5, <2>1, <2>2, <2>3, <2>4, CallFacts, ClaimGoesOn, Zenon
<1> QED  BY <1>6, <1>7

LEMMA MarkOwnStep ==
  ASSUME BackgroundInv, NEW c \in Calls, MarkOwn(c)
  PROVE  BackgroundInv'
<1> DEFINE n == call[c].run
<1>1. Claims(c) /\ call[c].pc = "mark" /\ call[c].pc \notin MarkedPcs
  BY DEF MarkOwn, At, Claims, ClaimPcs, LinkedPcs, LockedPcs, MarkedPcs, WorkPcs
<1>2. guard.owner = n /\ guard.dir /\ guard \in GuardRecord /\ owner[n].lock = c
  BY <1>1, CallFacts DEF Guarded, Claims, BackgroundInv, Types, LinkedPcs, LockedPcs
<1>3. n \in Owners
  BY <1>1, CallFacts, BackgroundAssumption DEF Numbered, CallRecord, Runs0, Owners
<1>4. \A o \in Owners : ~owner[o].mark
  BY <1>1, ClaimIsAlone DEF BackgroundInv
<1>5. /\ owner' = [owner EXCEPT ![n].mark = TRUE] /\ Goto(c, "lock")
      /\ UNCHANGED <<bookkeeping, guard, files, mgr, inst>>
  BY DEF MarkOwn
<1>6. PICK r \in CallRecord :
        /\ call' = [call EXCEPT ![c] = r]
        /\ r.pc = "lock" /\ r.run = n /\ r.arg = call[c].arg
        /\ r.seen = call[c].seen /\ r.body = call[c].body /\ r.after = call[c].after
  BY <1>5, NewPlace, CallFacts DEF ClaimPcs, LinkedPcs, LockedPcs, MarkedPcs
<1>7. /\ owner' \in [Owners -> OwnerRecord]
      /\ \A o \in Owners : owner'[o].lock = owner[o].lock
      /\ \A o \in Owners \ {n} : owner'[o] = owner[o]
  BY <1>3, <1>5, CallFacts, Zenon DEF OwnerRecord
<1>8. \A o \in Owners : owner'[o].mark => o = n
  BY <1>4, <1>7
<1>9. r.pc \in ClaimPcs /\ r.pc \notin WorkPcs /\ r.pc \in MarkedPcs
      /\ Guarded(c, r, guard', owner')
  BY <1>2, <1>3, <1>5, <1>6, <1>7 DEF Guarded, ClaimPcs, LinkedPcs, LockedPcs, MarkedPcs, WorkPcs
<1>10. guard' \in GuardRecord /\ guard'.dir /\ guard'.owner = n
  BY <1>2, <1>5
<1>11. \A o \in Owners : owner'[o].mark => guard'.owner = o /\ r.pc \in MarkedPcs /\ r.run = o
  BY <1>6, <1>8, <1>9, <1>10
<1>12. \A o \in Owners, d \in Calls \ {c} : owner[o].lock = d => owner'[o].lock = d
  BY <1>7
<1> QED  BY <1>1, <1>5, <1>6, <1>7, <1>9, <1>10, <1>11, <1>12, ClaimGoesOn, ZenonT(30)

LEMMA ReleaseStep ==
  ASSUME BackgroundInv, NEW c \in Calls, Release(c)
  PROVE  BackgroundInv'
<1> DEFINE n == call[c].run
<1>1. Claims(c) /\ call[c].pc = "release"
  BY DEF Release, At, Claims, ClaimPcs, LinkedPcs, LockedPcs, MarkedPcs
<1>2. guard.owner = n /\ guard.dir /\ guard \in GuardRecord /\ owner[n].lock = c
  BY <1>1, CallFacts DEF Guarded, Claims, BackgroundInv, Types, LinkedPcs, LockedPcs, MarkedPcs
<1>3. n \in Owners
  BY <1>1, CallFacts, BackgroundAssumption DEF Numbered, CallRecord, Runs0, Owners
<1>4. \A o \in Owners : owner[o].mark => o = n
  BY <1>1, ClaimIsAlone, Zenon DEF BackgroundInv
<1>5. /\ owner' = [owner EXCEPT ![n] = [mark |-> FALSE, lock |-> None]] /\ Goto(c, "unlinkown")
      /\ UNCHANGED <<bookkeeping, guard, files, mgr, inst>>
  BY DEF Release
<1>6. PICK r \in CallRecord :
        /\ call' = [call EXCEPT ![c] = r]
        /\ r.pc = "unlinkown" /\ r.run = n /\ r.arg = call[c].arg
        /\ r.seen = call[c].seen /\ r.body = call[c].body /\ r.after = call[c].after
  BY <1>5, NewPlace, CallFacts DEF ClaimPcs, LinkedPcs
<1>7. /\ owner' \in [Owners -> OwnerRecord] /\ ~owner'[n].mark
      /\ \A o \in Owners \ {n} : owner'[o] = owner[o]
  BY <1>3, <1>5, CallFacts, Zenon DEF OwnerRecord
<1>8. \A o \in Owners : ~owner'[o].mark
  BY <1>4, <1>7
<1>9. \A o \in Owners, d \in Calls \ {c} : owner[o].lock = d => owner'[o].lock = d
  BY <1>2, <1>7
<1>10. r.pc \in ClaimPcs /\ r.pc \notin WorkPcs /\ Guarded(c, r, guard', owner')
  BY <1>2, <1>5, <1>6 DEF Guarded, ClaimPcs, LinkedPcs, LockedPcs, MarkedPcs, WorkPcs
<1>11. guard' \in GuardRecord /\ guard'.dir
  BY <1>2, <1>5
<1> QED  BY <1>1, <1>5, <1>6, <1>7, <1>8, <1>9, <1>10, <1>11, ClaimGoesOn, Zenon

LEMMA UnlinkOwnStep ==
  ASSUME BackgroundInv, NEW c \in Calls, UnlinkOwn(c)
  PROVE  BackgroundInv'
<1>1. Claims(c) /\ call[c].pc = "unlinkown" /\ call[c].pc \notin MarkedPcs
  BY DEF UnlinkOwn, At, Claims, ClaimPcs, LinkedPcs, MarkedPcs, WorkPcs
<1>2. guard.dir /\ guard \in GuardRecord
  BY <1>1, CallFacts DEF Guarded, Claims, BackgroundInv, Types
<1>3. /\ guard' = [guard EXCEPT !.owner = 0] /\ Goto(c, "rmown")
      /\ UNCHANGED <<bookkeeping, owner, files, mgr, inst>>
  BY DEF UnlinkOwn
<1>4. PICK r \in CallRecord :
        /\ call' = [call EXCEPT ![c] = r]
        /\ r.pc = "rmown" /\ r.run = call[c].run /\ r.arg = call[c].arg
        /\ r.seen = call[c].seen /\ r.body = call[c].body /\ r.after = call[c].after
  BY <1>3, NewPlace, CallFacts DEF ClaimPcs
<1>5. guard' \in GuardRecord /\ guard'.dir /\ guard'.owner = 0
  BY <1>2, <1>3, BackgroundAssumption DEF GuardRecord, Runs0
<1>6. \A o \in Owners : ~owner[o].mark
  BY <1>1, ClaimIsAlone DEF BackgroundInv
<1>7. r.pc \in ClaimPcs /\ r.pc \notin WorkPcs /\ Guarded(c, r, guard', owner')
  BY <1>4, <1>5 DEF Guarded, ClaimPcs, LinkedPcs, LockedPcs, MarkedPcs, WorkPcs
<1> QED  BY <1>1, <1>3, <1>4, <1>5, <1>6, <1>7, CallFacts, ClaimGoesOn, Zenon

LEMMA RemoveOwnStep ==
  ASSUME BackgroundInv, NEW c \in Calls, RemoveOwn(c)
  PROVE  BackgroundInv'
<1>1. Claims(c) /\ call[c].pc = "rmown" /\ call[c].pc \notin MarkedPcs
  BY DEF RemoveOwn, At, Claims, ClaimPcs, MarkedPcs, WorkPcs
<1>2. guard.owner = 0
  BY <1>1, CallFacts DEF Guarded
<1>3. /\ guard' = [dir |-> FALSE, owner |-> 0]
      /\ UNCHANGED <<bookkeeping, owner, files, mgr, inst>>
  BY <1>2 DEF RemoveOwn
<1>4. CASE call[c].after = "idle"
  <2>1. call' = [call EXCEPT ![c] = NoCall]
    BY <1>4 DEF RemoveOwn
  <2>2. Numbered(NoCall) /\ NoCall.pc \in OutsidePcs /\ NoCall.pc # "readowner"
    BY NoCallFacts DEF Numbered, OutsidePcs
  <2> QED  BY <1>1, <1>3, <2>1, <2>2, NoCallFacts, ClaimEnds, Zenon
<1>5. CASE call[c].after # "idle"
  <2> DEFINE r == [call[c] EXCEPT !.pc = call[c].after, !.after = "idle",
                                  !.run = call[c].run + MaxRuns]
  <2>1. call[c].after = "disable" /\ call[c].run > 0 /\ call[c].run <= MaxRuns
    BY <1>1, <1>5, CallFacts DEF CallRecord, Numbered
  <2>2. call[c].run + MaxRuns \in Runs0 /\ call[c].run + MaxRuns > 0
    BY <2>1, CallFacts, BackgroundAssumption DEF CallRecord, Runs0
  <2>3. call' = [call EXCEPT ![c] = r]
    BY <1>5 DEF RemoveOwn
  <2>4. r \in CallRecord
    BY <2>1, <2>2, CallFacts, ZenonT(30) DEF CallRecord, OutsidePcs
  <2>5. /\ r.pc = "disable" /\ r.run = call[c].run + MaxRuns /\ r.after = "idle"
        /\ r.body = call[c].body /\ r.arg = call[c].arg
    BY <2>1, CallFacts DEF CallRecord
  <2> HIDE DEF r
  <2>6. Numbered(r) /\ r.pc \in OutsidePcs /\ r.pc # "readowner"
    BY <1>1, <2>2, <2>5, CallFacts DEF Numbered, OutsidePcs
  <2> QED  BY <1>1, <1>3, <2>3, <2>4, <2>5, <2>6, CallFacts, ClaimEnds, Zenon
<1> QED  BY <1>4, <1>5

LEMMA DisableStep ==
  ASSUME BackgroundInv, NEW c \in Calls, Disable(c)
  PROVE  BackgroundInv'
<1>1. CASE "marker" \notin area
  BY <1>1, GivesUp, CallFacts, Zenon DEF Disable, guards
<1>2. CASE "marker" \in area
  <2> DEFINE r == [call[c] EXCEPT !.pc = "mkdir", !.body = "load"]
  <2>1. r \in CallRecord
    BY CallFacts, ZenonT(30) DEF CallRecord, OutsidePcs
  <2>2. /\ r.pc = "mkdir" /\ r.run = call[c].run /\ r.body = "load" /\ r.after = call[c].after
    BY CallFacts DEF CallRecord
  <2>3. call' = [call EXCEPT ![c] = r] /\ UNCHANGED <<bookkeeping, guards, files, mgr, inst>>
    BY <1>2 DEF Disable
  <2> HIDE DEF r
  <2>4. Numbered(r)
    BY <2>2, CallFacts DEF Numbered, Disable, At
  <2>5. Types'
    BY <2>1, <2>3, Moved DEF BackgroundInv, Types, bookkeeping, guards, files
  <2>6. GuardInv'
    BY <2>1, <2>2, <2>3, <2>4, OutsideMove, Zenon DEF BackgroundInv, guards, OutsidePcs
  <2>7. FilesInv'
    BY <2>1, <2>2, <2>3, FilesOutside, Zenon DEF BackgroundInv, files, WorkPcs
  <2> QED  BY <2>5, <2>6, <2>7 DEF BackgroundInv
<1> QED  BY <1>1, <1>2

(* A process that dies leaves the guard, its mark and the files.           *)
LEMMA CrashStep ==
  ASSUME BackgroundInv, NEW c \in Calls, Crash(c)
  PROVE  BackgroundInv'
<1>1. /\ owner' \in [Owners -> OwnerRecord]
      /\ \A o \in Owners : owner'[o].mark = owner[o].mark
      /\ \A o \in Owners : owner[o].lock # c => owner'[o].lock = owner[o].lock
  BY CallFacts DEF Crash, OwnerRecord
<1> QED  BY <1>1, GivesUp, Zenon DEF Crash

LEMMA InstallerStep ==
  ASSUME BackgroundInv, Install \/ Installed
  PROVE  BackgroundInv'
<1>1. CASE Install
  <2>1. guard' \in GuardRecord /\ guard'.dir /\ guard'.owner = 0
    BY <1>1, BackgroundAssumption DEF Install, GuardRecord, Runs0
  <2>2. runs' \in 0 .. MaxRuns
    BY <1>1, BackgroundAssumption DEF Install, BackgroundInv, Types
  <2>3. Types'
    BY <1>1, <2>1, <2>2 DEF Install, BackgroundInv, Types, files
  <2>4. /\ \A d \in Calls : ~Claims(d)
        /\ \A o \in Owners : ~owner[o].mark
    BY <1>1 DEF Install, BackgroundInv, GuardInv, MarkIsOwn, Guarded, Claims
  <2>5. \A d \in Calls : Guarded(d, call[d], guard', owner)
    BY <2>4, CallFacts, Places, Zenon DEF Guarded, Claims, ClaimPcs
  <2>6. GuardInv'
    BY <1>1, <2>1, <2>4, <2>5, Zenon DEF Install, BackgroundInv, GuardInv, MarkIsOwn, Claims
  <2>7. FilesInv'
    BY <1>1 DEF Install, BackgroundInv, FilesInv, FilesFit, files
  <2> QED  BY <2>3, <2>6, <2>7 DEF BackgroundInv
<1>2. CASE Installed
  <2>1. guard' \in GuardRecord /\ ~guard'.dir /\ guard'.owner = 0
    BY <1>2, BackgroundAssumption, Zenon DEF Installed, BackgroundInv, Types, GuardInv, GuardRecord
  <2>2. Types'
    BY <1>2, <2>1 DEF Installed, BackgroundInv, Types, bookkeeping, files
  <2>3. /\ \A d \in Calls : ~Claims(d)
        /\ \A o \in Owners : ~owner[o].mark
    BY <1>2 DEF Installed, BackgroundInv, GuardInv, MarkIsOwn
  <2>4. \A d \in Calls : Guarded(d, call[d], guard', owner)
    BY <2>3, CallFacts, Places DEF Guarded, Claims, ClaimPcs
  <2>5. GuardInv'
    BY <1>2, <2>1, <2>3, <2>4, Zenon DEF Installed, BackgroundInv, GuardInv, MarkIsOwn, Claims
  <2>6. FilesFit'
    BY <1>2 DEF Installed, Uninstallable, BackgroundInv, FilesInv, FilesFit, files
  <2>7. \A d \in Calls : Fitting(call[d], area', temps', mgr')
    <3> SUFFICES ASSUME NEW d \in Calls
                 PROVE  Fitting(call[d], area', temps', mgr')
      OBVIOUS
    <3>1. call[d].pc \notin WorkPcs
      BY <2>3, Places DEF Claims
    <3> QED  BY <3>1, CallFacts, Zenon DEF Fitting, WorkPcs
  <2>8. FilesInv'
    BY <1>2, <2>6, <2>7 DEF Installed, FilesInv
  <2> QED  BY <2>2, <2>5, <2>8 DEF BackgroundInv
<1> QED  BY <1>1, <1>2

(* What the service, the session and the owner do never makes a            *)
(* registration.                                                           *)
LEMMA WorldStep ==
  ASSUME BackgroundInv, Service \/ Session \/ Override
  PROVE  BackgroundInv'
<1>1. mgr' \in ManagerRecord /\ mgr'.file = mgr.file
  BY ZenonT(30) DEF Service, Session, Override, BackgroundInv, Types, ManagerRecord
<1>2. UNCHANGED <<bookkeeping, guards, files, call, inst>>
  BY DEF Service, Session, Override
<1>3. Types'
  BY <1>1, <1>2 DEF BackgroundInv, Types, bookkeeping, guards, files
<1>4. GuardInv'
  BY <1>2 DEF BackgroundInv, GuardInv, MarkIsOwn, Claims, guards
<1>5. FilesFit'
  BY <1>1, <1>2 DEF BackgroundInv, FilesInv, FilesFit, files
<1>6. \A d \in Calls : Fitting(call[d], area, temps, mgr')
  BY <1>1, ZenonT(30) DEF BackgroundInv, FilesInv, Fitting
<1> QED  BY <1>2, <1>3, <1>4, <1>5, <1>6 DEF BackgroundInv, FilesInv, files
=============================================================================
