--------------------------- MODULE EnrollmentStore ---------------------------
(***************************************************************************)
(* The private directory in which a one-use enrollment leaves its traces   *)
(* (internal/enrollmentstore) as operators on a directory.  A directory is *)
(* a function from the names it holds to the connector each record binds.  *)
(* A setup is the handle one enrollment process works through: it counts   *)
(* the steps it completed, and once a step failed it refuses every other.  *)
(***************************************************************************)
EXTENDS Naturals, Functions, TLC

\* The names of the fixed entries; "stage" is .record.tmp.
StoreNames == {"lock", "stage", "attempt", "credential", "ready", "ledger"}

NoConnector == 0

NewSetup == [step |-> 0, failed |-> FALSE, conn |-> NoConnector]

Entries(d) == DOMAIN d

With(d, name, conn) == (name :> conn) @@ d

\* A handle on a directory that must be empty, or on one that holds a lock and
\* no staged record; nothing is repaired or adopted.
open(d, fresh) ==
  IF fresh THEN Entries(d) = {}
  ELSE "lock" \in Entries(d) /\ "stage" \notin Entries(d)

Expected(step) ==
  {"lock"} \cup (IF step >= 1 THEN {"attempt"} ELSE {})
           \cup (IF step >= 2 THEN {"credential"} ELSE {})
           \cup (IF step >= 3 THEN {"ledger"} ELSE {})

check(d, s, conn, step) ==
  /\ ~s.failed
  /\ s.step = step
  /\ step # 0 => s.conn = conn
  /\ Entries(d) = Expected(step)

\* Reading a record admits it only when it binds the setup's connector.
read(d, name, conn) == name \in Entries(d) /\ d[name] = conn

Fail(d, s) == [dir |-> d, setup |-> [s EXCEPT !.failed = TRUE]]

\* The record is staged, written, synced and renamed into an absent name.  It can
\* fail before the stage exists, with the stage left behind, or after the rename.
publish(d, name, s) ==
  LET done == With(d, name, s.conn) IN
  {Fail(d, s)}
  \cup (IF "stage" \in Entries(d) THEN {}
        ELSE {Fail(With(d, "stage", s.conn), s)}
             \cup (IF name \in Entries(d) THEN {}
                   ELSE {Fail(done, s),
                         [dir |-> done, setup |-> [s EXCEPT !.step = @ + 1]]}))

Begin(d, s, conn) ==
  IF ~check(d, s, conn, 0) THEN {Fail(d, s)}
  ELSE publish(d, "attempt", [s EXCEPT !.conn = conn])

Create(d, s, conn) ==
  IF check(d, s, conn, 1) /\ read(d, "attempt", conn)
  THEN publish(d, "credential", s) ELSE {Fail(d, s)}

\* The ledger directory is made and a zero ledger provisioned in it, reopened and
\* compared; a failure after the directory exists leaves it.
Provision(d, s, conn) ==
  IF check(d, s, conn, 2) /\ read(d, "attempt", conn) /\ read(d, "credential", conn)
  THEN LET made == With(d, "ledger", conn) IN
       {Fail(d, s), Fail(made, s), [dir |-> made, setup |-> [s EXCEPT !.step = @ + 1]]}
  ELSE {Fail(d, s)}

MarkReady(d, s, conn) ==
  IF /\ check(d, s, conn, 3)
     /\ \A name \in {"attempt", "credential", "ledger"} : read(d, name, conn)
  THEN publish(d, "ready", s) ELSE {Fail(d, s)}

\* A finished enrollment of the connector: exactly the five entries, all its own.
openReady(d, conn) ==
  /\ open(d, FALSE)
  /\ Entries(d) = StoreNames \ {"stage"}
  /\ \A name \in {"attempt", "credential", "ready", "ledger"} : read(d, name, conn)

==============================================================================
