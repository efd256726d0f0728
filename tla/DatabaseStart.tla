---------------------------- MODULE DatabaseStart ----------------------------
(***************************************************************************)
(* The SQLite file: how a starting process brings it to its schema          *)
(* (persistence/migrations.py, called from composition.py), and the unit of *)
(* work every store writes through (persistence/uow.py, connections.py).    *)
(*                                                                          *)
(* Processes of different versions of the program share the file and may    *)
(* crash at any step.  SQLite itself is external: one writer at a time,     *)
(* what a transaction wrote becomes visible when it commits.  A migration   *)
(* that creates a table fails when it is there; one that only updates or    *)
(* deletes rows can run twice.                                              *)
(***************************************************************************)
EXTENDS Integers, FiniteSets

CONSTANTS Processes,
          Nobody,     \* no process
          Latest,     \* migrations of the newest program
          Known,      \* how many of them the program of a process has
          Repeatable, \* migrations that only update or delete rows
          Statements, \* statements of a migration
          MaxUnits    \* units of work committed

Versions == 1..Latest

ASSUME ProcessesAssumption ==
    /\ Nobody \notin Processes
    /\ Latest \in Nat \ {0}
    /\ Known \in [Processes -> Versions]
    /\ Repeatable \subseteq Versions \ {1}
    /\ Statements \in Nat \ {0} /\ MaxUnits \in Nat

VARIABLES
    db,   \* what is committed: statements run, receipts, two rows of a store
    lock, \* the process inside a write transaction
    work, \* what that transaction has written
    proc, \* where each process is
    told, \* units, each the value it left in its rows, whose callers were
          \* told that they are committed
    lost  \* units whose process died after their commit, before it could tell

vars == <<db, lock, work, proc, told, lost>>
units == <<told, lost>>

Empty == [ran |-> [v \in Versions |-> 0], receipts |-> {}, left |-> 0, right |-> 0]
Fresh == [at |-> "start", applied |-> {}, step |-> 0, tries |-> 0, unit |-> 0]

Init ==
    /\ db = Empty /\ lock = Nobody /\ work = Empty
    /\ proc = [p \in Processes |-> Fresh] /\ told = {} /\ lost = {}

At(p, where) == proc[p].at = where
Goto(p, where) == proc' = [proc EXCEPT ![p].at = where]

-----------------------------------------------------------------------------
(* SQLite: BEGIN IMMEDIATE, a write inside the transaction, its end.        *)
Begin(p) == lock = Nobody /\ lock' = p /\ work' = db
FaultyWrite(new) == work' = new /\ db' = new
Write(new) == work' = new /\ db' = db
Rollback(p) ==
    /\ db' = db
    /\ IF lock = p THEN lock' = Nobody /\ work' = Empty ELSE UNCHANGED <<lock, work>>
CommitWork == db' = work /\ lock' = Nobody /\ work' = Empty

-----------------------------------------------------------------------------
(* Bootstrap.  The receipts are read before any transaction begins: first   *)
(* whether their table is there, then, if not, whether another one is.      *)
HasReceipts == 1 \in db.receipts
HasTables == \E v \in Versions : db.ran[v] > 0

(* A schema newer than the program and a receipt it does not know are       *)
(* refused.                                                                 *)
Compatible(p) == db.receipts \subseteq 1..Known[p]

ReadApplied(p) ==
    /\ At(p, "start")
    /\ proc' = [proc EXCEPT ![p].applied = db.receipts,
                   ![p].at = IF ~HasReceipts THEN "tables"
                             ELSE IF Compatible(p) THEN "apply" ELSE "failed"]
    /\ UNCHANGED <<db, lock, work, units>>

RefuseUnversioned(p) ==
    /\ At(p, "tables")
    /\ Goto(p, IF HasTables THEN "failed" ELSE "apply")
    /\ UNCHANGED <<db, lock, work, units>>

Pending(p) == (1..Known[p]) \ proc[p].applied
NextVersion(p) == CHOOSE v \in Pending(p) : \A w \in Pending(p) : v <= w

BeginMigration(p) ==
    /\ At(p, "apply") /\ Pending(p) # {}
    /\ Begin(p)
    /\ proc' = [proc EXCEPT ![p].at = "migrate", ![p].step = 0]
    /\ UNCHANGED <<db, units>>

(* The lock is waited for five seconds.                                     *)
BusyMigration(p) ==
    /\ At(p, "apply") /\ Pending(p) # {} /\ lock \notin {Nobody, p}
    /\ Goto(p, "failed")
    /\ UNCHANGED <<db, lock, work, units>>

CanRun(v) == v \in Repeatable \/ v \notin work.receipts

RunStatement(p) ==
    /\ At(p, "migrate") /\ proc[p].step < Statements
    /\ LET v == NextVersion(p)
       IN  CanRun(v) /\ Write([work EXCEPT !.ran[v] = @ + 1])
    /\ proc' = [proc EXCEPT ![p].step = @ + 1]
    /\ UNCHANGED <<lock, units>>

(* A statement, or the reading of its file, fails: nothing of it stays.     *)
FailMigration(p) ==
    /\ At(p, "migrate")
    /\ Rollback(p) /\ Goto(p, "failed")
    /\ UNCHANGED units

(* The version is the primary key of the receipts.                          *)
FaultyReceiptIsNew(v) == TRUE
ReceiptIsNew(v) == v \notin work.receipts

RecordReceipt(p) ==
    /\ At(p, "migrate") /\ proc[p].step = Statements
    /\ LET v == NextVersion(p)
       IN  /\ ReceiptIsNew(v)
           /\ Write([work EXCEPT !.receipts = @ \cup {v}])
    /\ Goto(p, "commit")
    /\ UNCHANGED <<lock, units>>

CommitMigration(p) ==
    /\ At(p, "commit")
    /\ CommitWork
    /\ proc' = [proc EXCEPT ![p].at = "apply", ![p].applied = @ \cup {NextVersion(p)}]
    /\ UNCHANGED units

(* The file is checked before anything is read and after the last step.     *)
QuickCheckFails(p) ==
    /\ At(p, "start") \/ (At(p, "apply") /\ Pending(p) = {})
    /\ Goto(p, "failed")
    /\ UNCHANGED <<db, lock, work, units>>

FinishBootstrap(p) ==
    /\ At(p, "apply") /\ Pending(p) = {}
    /\ Goto(p, "ready")
    /\ UNCHANGED <<db, lock, work, units>>

-----------------------------------------------------------------------------
(* A unit of work, which reads a row and writes two: a busy file is tried   *)
(* once more with a new connection.                                         *)
Enter(p) ==
    /\ At(p, "ready") /\ db.left < MaxUnits
    /\ Begin(p)
    /\ proc' = [proc EXCEPT ![p].at = "body", ![p].tries = 0]
    /\ UNCHANGED <<db, units>>

BusyUnit(p) ==
    /\ At(p, "ready") /\ lock \notin {Nobody, p}
    /\ proc' = [proc EXCEPT ![p].tries = 1 - @]
    /\ UNCHANGED <<db, lock, work, units>>

WriteLeft(p) ==
    /\ At(p, "body")
    /\ Write([work EXCEPT !.left = work.left + 1])
    /\ Goto(p, "body2")
    /\ UNCHANGED <<lock, units>>

WriteRight(p) ==
    /\ At(p, "body2")
    /\ Write([work EXCEPT !.right = work.left])
    /\ Goto(p, "unit")
    /\ UNCHANGED <<lock, units>>

CommitUnit(p) ==
    /\ At(p, "unit")
    /\ CommitWork
    /\ proc' = [proc EXCEPT ![p].at = "committed", ![p].unit = work.left]
    /\ UNCHANGED units

(* commit returns.                                                          *)
TellCaller(p) ==
    /\ At(p, "committed")
    /\ Goto(p, "ready")
    /\ told' = told \cup {proc[p].unit}
    /\ UNCHANGED <<db, lock, work, lost>>

(* The body raises, or the commit fails.                                    *)
ExitUncommitted(p) ==
    /\ proc[p].at \in {"body", "body2", "unit"}
    /\ Rollback(p) /\ Goto(p, "ready")
    /\ UNCHANGED units

(* The process dies, or was refused, and is started again.                  *)
Restart(p) ==
    /\ ~At(p, "start")
    /\ Rollback(p)
    /\ proc' = [proc EXCEPT ![p] = Fresh]
    /\ lost' = IF At(p, "committed") THEN lost \cup {proc[p].unit} ELSE lost
    /\ UNCHANGED told

-----------------------------------------------------------------------------
Next ==
    \E p \in Processes :
        \/ QuickCheckFails(p) \/ ReadApplied(p) \/ RefuseUnversioned(p)
        \/ BeginMigration(p) \/ BusyMigration(p) \/ RunStatement(p) \/ FailMigration(p)
        \/ RecordReceipt(p) \/ CommitMigration(p) \/ FinishBootstrap(p)
        \/ Enter(p) \/ BusyUnit(p) \/ WriteLeft(p) \/ WriteRight(p)
        \/ CommitUnit(p) \/ TellCaller(p) \/ ExitUncommitted(p) \/ Restart(p)

Spec == Init /\ [][Next]_vars

-----------------------------------------------------------------------------
Whole(d) ==
    /\ \E last \in 0..Latest : d.receipts = 1..last
    /\ \A v \in Versions : d.ran[v] = IF v \in d.receipts THEN Statements ELSE 0
    /\ d.left = d.right

(* The file and its processes have their types (migrations.py).             *)
TypeOK ==
    /\ db.receipts \subseteq Versions /\ db.left \in 0..MaxUnits
    /\ lock \in Processes \cup {Nobody}
    /\ told \subseteq 1..MaxUnits /\ lost \subseteq 1..MaxUnits
    /\ \A p \in Processes : proc[p].applied \subseteq Versions /\ proc[p].tries \in {0, 1}

(* Every unit in the file is one whose caller was told so, is being told,   *)
(* or never will be, its process having died after the commit; and no two   *)
(* units count as one.                                                      *)
BeingTold(n) == \E p \in Processes : At(p, "committed") /\ proc[p].unit = n

UnitsAreCounted ==
    /\ \A n \in 1..MaxUnits :
          n \in 1..db.left <=> n \in told \/ n \in lost \/ BeingTold(n)
    /\ told \cap lost = {}
    /\ \A p, q \in Processes :
          At(p, "committed") =>
             /\ proc[p].unit \notin told \cup lost
             /\ At(q, "committed") /\ proc[q].unit = proc[p].unit => p = q

(* Whatever crashes, fails or starts at the same time, the file holds whole *)
(* migrations, each run once, without a gap and each with its receipt; the  *)
(* rows a unit writes together are there together, and every unit whose     *)
(* caller was told so has counted (migrations.py _apply, uow.py).           *)
StoreIsWhole == Whole(db) /\ UnitsAreCounted

(* A process that is ready finds at least the schema it was written for     *)
(* (migrations.py bootstrap).                                               *)
ReadyHasItsSchema == \A p \in Processes : At(p, "ready") => 1..Known[p] \subseteq db.receipts

(* A migration and a unit of work are in the file whole or not at all, each *)
(* with its receipt, and a process that is ready has its schema             *)
(* (migrations.py, uow.py).                                                 *)
DatabaseIsWhole == StoreIsWhole /\ ReadyHasItsSchema

(* Does not hold: a process that runs meets the schema of a newer program   *)
(* that was started meanwhile.                                              *)
ReadyIsCompatible == \A p \in Processes : At(p, "ready") => Compatible(p)
=============================================================================
