--------------------------- MODULE ObserverRuntime ---------------------------
(* The local observer process (cmd/observer serve, internal/lifecycle and  *)
(* the start and stop of the two collectors), processes that are started   *)
(* one after the other or at once on one state directory, and a requester  *)
(* of a graceful stop.  Every file of the control directory is written,    *)
(* renamed and removed in a step of its own, and processes die anywhere.   *)
EXTENDS Naturals, FiniteSets

CONSTANTS
  Procs,        \* process slots
  Ports,        \* addresses the observer may be told to listen on
  MaxStarts,    \* bound: processes started
  MaxRequests,  \* bound: stop requests
  MaxFaults     \* bound: deaths, expired waits and failed starts

ASSUME RuntimeAssumption ==
  MaxStarts \in Nat /\ MaxRequests \in Nat /\ MaxFaults \in Nat

VARIABLES
  proc,        \* the processes
  instance,    \* nonce in instance.json, 0 when there is none
  request,     \* nonce in stop-request.json, 0 when there is none
  temporary,   \* the temporaries in the directory: of the instance, of the request
  asker,       \* the requester: step, the nonce it read, its answer
  closed,      \* history: instances whose own Close removed their publication
  replaced,    \* history: instances whose publication a later New removed
  starts, asks, faults

rvars == <<proc, instance, request, temporary, asker, closed, replaced, starts, asks, faults>>
removals == <<closed, replaced>>
control == <<instance, request, temporary, removals>>
counts == <<starts, asks, faults>>

NoProc == [pc |-> "off", port |-> 0, managed |-> FALSE, nonce |-> 0, http |-> "off", handler |-> FALSE,
           host |-> "off", logs |-> "off", lock |-> FALSE, store |-> "none", told |-> FALSE,
           joined |-> TRUE, unclean |-> FALSE]
NoAsker == [pc |-> "idle", nonce |-> 0, answer |-> "none"]

At(p, pc) == proc[p].pc = pc
Goto(p, pc) == proc' = [proc EXCEPT ![p].pc = pc]
Exit(p) == proc' = [proc EXCEPT ![p] = NoProc]
Fault == faults < MaxFaults /\ faults' = faults + 1
Stay == UNCHANGED <<asker, counts>>

---------------------------------------------------------------------------
(* serveRuntime: the address first, then the store, then the control       *)
(* directory of a managed process.                                         *)

Listen(p, port, managed) ==
  /\ At(p, "off") /\ starts < MaxStarts
  /\ \A r \in Procs : proc[r].http = "up" => proc[r].port # port
  /\ starts' = starts + 1
  /\ proc' = [proc EXCEPT ![p] = [NoProc EXCEPT !.pc = "store", !.port = port, !.managed = managed,
                                                !.http = "up", !.nonce = starts + 1]]
  /\ UNCHANGED <<control, asker, asks, faults>>

OpenStore(p) ==
  /\ At(p, "store")
  /\ IF \E r \in Procs : proc[r].store = "open" THEN Exit(p)
     ELSE proc' = [proc EXCEPT ![p].store = "open",
                               ![p].pc = IF proc[p].managed THEN "lock" ELSE "start"]
  /\ UNCHANGED control /\ Stay

(* lifecycle.New: the lock, what an earlier process left, and the          *)
(* publication of this one.                                                *)
LockEndpoint(p) ==
  /\ At(p, "lock")
  /\ IF \E r \in Procs : proc[r].lock THEN Exit(p)
     ELSE proc' = [proc EXCEPT ![p].lock = TRUE, ![p].pc = "cleantemps"]
  /\ UNCHANGED control /\ Stay

CleanTemps(p) ==
  /\ At(p, "cleantemps")
  /\ temporary' = {}
  /\ Goto(p, "cleaninstance")
  /\ UNCHANGED <<instance, request, removals>> /\ Stay

CleanInstance(p) ==
  /\ At(p, "cleaninstance")
  /\ instance' = 0
  /\ replaced' = replaced \union ({instance} \ {0})
  /\ Goto(p, "cleanrequest")
  /\ UNCHANGED <<request, temporary, closed>> /\ Stay

CleanRequest(p) ==
  /\ At(p, "cleanrequest")
  /\ request' = 0
  /\ Goto(p, "write")
  /\ UNCHANGED <<instance, temporary, removals>> /\ Stay

WriteInstance(p) ==
  /\ At(p, "write")
  /\ temporary' = temporary \union {"instance"}
  /\ Goto(p, "publish")
  /\ UNCHANGED <<instance, request, removals>> /\ Stay

PublishInstance(p) ==
  /\ At(p, "publish")
  /\ temporary' = temporary \ {"instance"}
  /\ IF instance = 0 THEN instance' = proc[p].nonce /\ Goto(p, "start")
     ELSE UNCHANGED instance /\ Exit(p)
  /\ UNCHANGED <<request, removals>> /\ Stay

(* The parts are made, or the store is closed again; the host collector    *)
(* starts; the log collector starts or, when it does not, everything is    *)
(* stopped again.                                                          *)
Start(p) ==
  /\ At(p, "start")
  /\ \/ proc' = [proc EXCEPT ![p].host = "idle", ![p].logs = "idle", ![p].pc = "serve"]
        /\ UNCHANGED faults
     \/ Fault /\ proc' = [proc EXCEPT ![p].store = "closed", ![p].unclean = TRUE, ![p].pc = "abandon"]
     \/ Fault /\ proc' = [proc EXCEPT ![p].host = "idle", ![p].unclean = TRUE, ![p].pc = "stoplogs"]
  /\ UNCHANGED <<control, asker, starts, asks>>

---------------------------------------------------------------------------
(* While it serves: requests, collections and the watch on the control     *)
(* directory.  A handler and a collection use the store from begin to end. *)

Handle(p) ==
  /\ \/ At(p, "serve") /\ ~proc[p].handler /\ proc' = [proc EXCEPT ![p].handler = TRUE]
     \/ proc[p].handler /\ proc' = [proc EXCEPT ![p].handler = FALSE]
  /\ UNCHANGED control /\ Stay

(* loop and collectOnce; a collector that is told to stop finishes what it *)
(* is doing and joins.  An idle one whose tick is due as well may collect  *)
(* once more.                                                              *)
CollectorStep(s, t) ==
  <<s, t>> \in {<<"idle", "busy">>, <<"busy", "idle">>, <<"quit", "ending">>, <<"quit", "done">>,
                <<"ending", "done">>}
Collect(p) ==
  /\ \E t \in {"idle", "busy", "ending", "done"} :
       \/ CollectorStep(proc[p].host, t) /\ proc' = [proc EXCEPT ![p].host = t]
       \/ CollectorStep(proc[p].logs, t) /\ proc' = [proc EXCEPT ![p].logs = t]
  /\ UNCHANGED control /\ Stay

(* Endpoint.watch, from the publication until the endpoint is finished:    *)
(* only a request for this instance is taken, and only one.                *)
Watched == {"start", "serve", "shutdown", "drain", "stoplogs", "joinlogs", "stophost", "joinhost",
            "closestore"}
Watch(p) ==
  /\ proc[p].pc \in Watched /\ proc[p].managed /\ ~proc[p].told
  /\ request # 0 /\ request = proc[p].nonce
  /\ request' = 0
  /\ proc' = [proc EXCEPT ![p].told = TRUE]
  /\ UNCHANGED <<instance, temporary, removals>> /\ Stay

(* What the watch took cancels the context of the server.                  *)
StopTaken(p) ==
  /\ At(p, "serve") /\ proc[p].told
  /\ Goto(p, "shutdown")
  /\ UNCHANGED control /\ Stay

(* A signal, or a server that stops by itself.                             *)
Ended(p) ==
  /\ At(p, "serve")
  /\ \/ Goto(p, "shutdown") /\ UNCHANGED faults
     \/ Fault /\ proc' = [proc EXCEPT ![p].unclean = TRUE, ![p].pc = "shutdown"]
  /\ UNCHANGED <<control, asker, starts, asks>>

---------------------------------------------------------------------------
(* finishHTTP: the listener closes, then the handlers are awaited until    *)
(* they end or the time is up.                                             *)

Shutdown(p) ==
  /\ At(p, "shutdown")
  /\ proc' = [proc EXCEPT ![p].http = "closed", ![p].pc = "drain"]
  /\ UNCHANGED control /\ Stay

(* Mutant: the handlers count as ended when the listener is closed. *)
DrainGivesUp(p) ==
  /\ At(p, "drain")
  /\ proc' = [proc EXCEPT ![p].unclean = @ \/ proc[p].handler, ![p].pc = "stoplogs"]
  /\ UNCHANGED control /\ Stay
Drain(p) ==
  /\ At(p, "drain")
  /\ IF proc[p].handler
     THEN proc' = [proc EXCEPT ![p].joined = FALSE, ![p].unclean = TRUE, ![p].pc = "stoplogs"]
     ELSE Goto(p, "stoplogs")
  /\ UNCHANGED control /\ Stay

(* The collector is cancelled: a collection under way still has to end.    *)
Cancelled(state) == CASE state = "idle" -> "quit" [] state = "busy" -> "ending" [] OTHER -> state

CancelLogs(p) ==
  /\ At(p, "stoplogs")
  /\ proc' = [proc EXCEPT ![p].logs = Cancelled(@), ![p].pc = "joinlogs"]
  /\ UNCHANGED control /\ Stay

(* Mutant: the wait for a collector has no end. *)
JoinForever(p, collector, next) ==
  /\ collector \in {"done", "off"} /\ Goto(p, next)
  /\ UNCHANGED control /\ Stay
(* Stop of a collector: it has joined, or it has not when the time is up.  *)
Join(p, collector, next) ==
  /\ IF collector \in {"done", "off"} THEN Goto(p, next)
     ELSE proc' = [proc EXCEPT ![p].joined = FALSE, ![p].unclean = TRUE, ![p].pc = next]
  /\ UNCHANGED control /\ Stay

JoinLogs(p) == At(p, "joinlogs") /\ Join(p, proc[p].logs, "stophost")

CancelHost(p) ==
  /\ At(p, "stophost")
  /\ proc' = [proc EXCEPT ![p].host = Cancelled(@), ![p].pc = "joinhost"]
  /\ UNCHANGED control /\ Stay

JoinHost(p) == At(p, "joinhost") /\ Join(p, proc[p].host, "closestore")

(* stopCollectors: the store is closed when every wait for a borrower      *)
(* ended with its end; closing may fail.                                   *)
Closes(p, unclean) ==
  proc' = [proc EXCEPT ![p].store = IF proc[p].joined THEN "closed" ELSE @,
                       ![p].pc = IF proc[p].managed /\ ~unclean THEN "close" ELSE "abandon"]
CloseStore(p) ==
  /\ At(p, "closestore")
  /\ \/ Closes(p, proc[p].unclean) /\ UNCHANGED faults
     \/ proc[p].joined /\ Fault /\ Closes(p, TRUE)
  /\ UNCHANGED <<control, asker, starts, asks>>

(* Endpoint.Close: the own request, then the own publication, which may    *)
(* not be removable.                                                       *)
CloseRequest(p) ==
  /\ At(p, "close")
  /\ request' = IF request = proc[p].nonce THEN 0 ELSE request
  /\ Goto(p, "closeinstance")
  /\ UNCHANGED <<instance, temporary, removals>> /\ Stay

CloseInstance(p) ==
  /\ At(p, "closeinstance")
  /\ \/ /\ instance = proc[p].nonce /\ instance' = 0 /\ closed' = closed \union {proc[p].nonce}
        /\ UNCHANGED faults
     \/ Fault /\ UNCHANGED <<instance, closed>>
  /\ Goto(p, "abandon")
  /\ UNCHANGED <<request, temporary, replaced, asker, starts, asks>>

(* Abandon and the end of the process: the publication stays.              *)
Abandon(p) == At(p, "abandon") /\ Exit(p) /\ UNCHANGED control /\ Stay

Crash(p) ==
  /\ ~At(p, "off") /\ Fault /\ Exit(p)
  /\ UNCHANGED <<control, asker, starts, asks>>

---------------------------------------------------------------------------
(* RequestStop, one requester at a time: the background operations that    *)
(* call it exclude each other.                                             *)

Ask ==
  /\ asker.pc = "idle" /\ asks < MaxRequests /\ instance # 0
  /\ asks' = asks + 1
  /\ asker' = [pc |-> "read", nonce |-> instance, answer |-> "none"]
  /\ UNCHANGED <<proc, control, starts, faults>>

(* A request that is already there must be for the same instance.          *)
AskRead ==
  /\ asker.pc = "read"
  /\ IF request = 0
     THEN temporary' = temporary \ {"request"} /\ asker' = [asker EXCEPT !.pc = "write"]
     ELSE /\ asker' = [asker EXCEPT !.pc = IF request = asker.nonce THEN "poll" ELSE "idle",
                                    !.answer = IF request = asker.nonce THEN "none" ELSE "wrong"]
          /\ UNCHANGED temporary
  /\ UNCHANGED <<proc, instance, request, removals, counts>>

AskWrite ==
  /\ asker.pc = "write"
  /\ temporary' = temporary \union {"request"}
  /\ asker' = [asker EXCEPT !.pc = "publish"]
  /\ UNCHANGED <<proc, instance, request, removals, counts>>

AskPublish ==
  /\ asker.pc = "publish"
  /\ LET can == request = 0 /\ "request" \in temporary IN
     /\ request' = IF can THEN asker.nonce ELSE request
     /\ asker' = [asker EXCEPT !.pc = IF can THEN "poll" ELSE "idle",
                               !.answer = IF can THEN "none" ELSE "wrong"]
  /\ temporary' = temporary \ {"request"}
  /\ UNCHANGED <<proc, instance, removals, counts>>

AskPoll ==
  /\ asker.pc = "poll" /\ instance # asker.nonce
  /\ asker' = [asker EXCEPT !.pc = "idle", !.answer = IF instance = 0 THEN "stopped" ELSE "wrong"]
  /\ UNCHANGED <<proc, control, counts>>

(* The requester gives up, or dies.                                        *)
AskEnds ==
  /\ asker.pc # "idle"
  /\ asker.pc = "poll" \/ faults < MaxFaults
  /\ faults' = IF asker.pc = "poll" THEN faults ELSE faults + 1
  /\ asker' = NoAsker
  /\ UNCHANGED <<proc, control, starts, asks>>

---------------------------------------------------------------------------
RuntimeInit ==
  /\ proc = [p \in Procs |-> NoProc]
  /\ instance = 0 /\ request = 0 /\ temporary = {}
  /\ asker = NoAsker /\ closed = {} /\ replaced = {}
  /\ starts = 0 /\ asks = 0 /\ faults = 0

(* What a process does on its own, to serve and to end.                    *)
Proceed(p) ==
  \/ OpenStore(p) \/ LockEndpoint(p) \/ CleanTemps(p) \/ CleanInstance(p) \/ CleanRequest(p)
  \/ WriteInstance(p) \/ PublishInstance(p) \/ Start(p)
  \/ StopTaken(p) \/ Shutdown(p) \/ Drain(p) \/ CancelLogs(p) \/ JoinLogs(p) \/ CancelHost(p) \/ JoinHost(p)
  \/ CloseStore(p) \/ CloseRequest(p) \/ CloseInstance(p) \/ Abandon(p)
Requester == Ask \/ AskRead \/ AskWrite \/ AskPublish \/ AskPoll \/ AskEnds
RuntimeNext ==
  \/ \E p \in Procs :
       \/ \E port \in Ports, managed \in BOOLEAN : Listen(p, port, managed)
       \/ Proceed(p) \/ Handle(p) \/ Collect(p) \/ Watch(p) \/ Ended(p) \/ Crash(p)
  \/ Requester

(* A process runs on, and its watch ticks.  A collection and a handler     *)
(* need never end.                                                         *)
RuntimeFairness == \A p \in Procs : WF_rvars(Proceed(p)) /\ WF_rvars(Watch(p))
RuntimeSpec == RuntimeInit /\ [][RuntimeNext]_rvars /\ RuntimeFairness

---------------------------------------------------------------------------
Borrowed(p) == proc[p].handler \/ proc[p].host \in {"busy", "ending"} \/ proc[p].logs \in {"busy", "ending"}

(* The history store is closed only when no HTTP handler and no collection *)
(* uses it (stopCollectors and the httpJoined argument of finishHTTP),     *)
(* and no two processes have it open.                                      *)
StoreOutlivesBorrowers ==
  /\ \A p \in Procs : Borrowed(p) => proc[p].store = "open"
  /\ \A p, r \in Procs : proc[p].store = "open" /\ proc[r].store = "open" => p = r

(* A managed process that serves is the one that is published, so that a   *)
(* stop request reaches it, whatever processes were started beside it or   *)
(* died before it (the lock of lifecycle.New and the order of its steps);  *)
(* and a requester that is told the instance stopped is told so only when  *)
(* that instance is over: it closed itself, or a later process found what  *)
(* it left behind (the comments promise more: StopMeansCleanClose).        *)
ServingIsPublished ==
  /\ \A p \in Procs : At(p, "serve") /\ proc[p].managed => instance = proc[p].nonce
  /\ asker.answer = "stopped" =>
       /\ asker.nonce \in closed \union replaced
       /\ \A p \in Procs : proc[p].nonce = asker.nonce => proc[p].pc \in {"abandon", "off"}

(* A requester is told that the instance stopped only when that instance   *)
(* removed its publication in a clean close, as the comments at Abandon    *)
(* and RequestStop say: an unclean shutdown is never taken for success.    *)
StopMeansCleanClose == asker.answer = "stopped" => asker.nonce \in closed

(* What a process serves from is its own and stays so: the store outlives  *)
(* its borrowers and the published instance is the one that serves         *)
(* (stopCollectors, finishHTTP, lifecycle.New).                            *)
ServingIsBacked == StoreOutlivesBorrowers /\ ServingIsPublished

(* A stop request for the instance that serves ends that process, however  *)
(* long a handler or a collection takes: every wait of the shutdown is     *)
(* bounded (finishHTTP, stopCollectors, Scheduler.Stop).                   *)
RequestEndsInstance ==
  \A p \in Procs : (At(p, "serve") /\ proc[p].managed /\ request = proc[p].nonce) ~> At(p, "off")
=============================================================================
