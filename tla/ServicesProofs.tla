---------------------------- MODULE ServicesProofs ----------------------------
(***************************************************************************)
(* What the services promise, for every value of their constants: the       *)
(* database under any number of processes, versions and migrations, and     *)
(* each of the services of Services with any number of threads, models,     *)
(* clients, keys, symbols and events.                                       *)
(*                                                                          *)
(* The database first.  What it promises is not inductive: what a commit    *)
(* makes visible was written before it, so the invariant says of the        *)
(* process inside a transaction how its work differs from what is           *)
(* committed, and of every process that the receipts it read are a prefix   *)
(* of those in the file.                                                    *)
(*                                                                          *)
(* Then one section per service, with its PartInv: what it promises and     *)
(* what the step under way has in hand.  The last section puts them         *)
(* together.                                                                *)
(***************************************************************************)
EXTENDS Services, Sequences, FiniteSetTheorems, TLAPS

Inside == {"migrate", "commit", "body", "body2", "unit"}
Served == {"ready", "body", "body2", "unit", "committed"}
Places == {"start", "tables", "apply", "failed"} \cup Inside \cup Served

Stores == [ran : [Versions -> Nat], receipts : SUBSET Versions, left : Nat, right : Nat]
Records == [at : Places, applied : SUBSET Versions, step : 0..Statements, tries : {0, 1}, unit : Nat]

Types ==
    /\ db \in Stores /\ work \in Stores
    /\ lock \in Processes \cup {Nobody}
    /\ proc \in [Processes -> Records]

(* The process inside a transaction is the one with the lock.               *)
LockIsHeld == \A p \in Processes : proc[p].at \in Inside <=> lock = p

(* A process has read, or recorded, a prefix of the receipts.               *)
PrefixRead(p) ==
    /\ \E k \in 0..Latest : proc[p].applied = 1..k
    /\ proc[p].applied \subseteq db.receipts
    /\ At(p, "tables") => proc[p].applied = {}
    /\ proc[p].at \in {"apply", "migrate", "commit"} => proc[p].applied \subseteq 1..Known[p]

(* What a migration has written and not committed.                          *)
MigrationUnderWay(p) ==
    /\ At(p, "migrate") =>
         /\ Pending(p) # {}
         /\ work = [db EXCEPT !.ran[NextVersion(p)] = @ + proc[p].step]
    /\ At(p, "commit") =>
         /\ Pending(p) # {} /\ NextVersion(p) \notin db.receipts
         /\ work = [db EXCEPT !.ran[NextVersion(p)] = @ + Statements,
                              !.receipts = @ \cup {NextVersion(p)}]

(* What a unit of work has written and not committed.                       *)
UnitUnderWay(p) ==
    /\ At(p, "body") => work = db
    /\ At(p, "body2") => work = [db EXCEPT !.left = @ + 1]
    /\ At(p, "unit") => work = [db EXCEPT !.left = @ + 1, !.right = db.left + 1]

HasSchema(p) == proc[p].at \in Served => 1..Known[p] \subseteq db.receipts

(* What the file holds is whole; what it counts comes after.                *)
FileIsWhole == Whole(db)

IInv ==
    /\ Types /\ FileIsWhole /\ LockIsHeld
    /\ \A p \in Processes :
          PrefixRead(p) /\ MigrationUnderWay(p) /\ UnitUnderWay(p) /\ HasSchema(p)

Parts(p) == PrefixRead(p) /\ MigrationUnderWay(p) /\ UnitUnderWay(p) /\ HasSchema(p)

-----------------------------------------------------------------------------
(* The next migration of a process follows the last one it knows applied    *)
(* (migrations.py _apply reads the receipts once and goes on from there).   *)
LEMMA NextFollows ==
    ASSUME NEW p \in Processes, Types, PrefixRead(p), Pending(p) # {}
    PROVE  \E k \in 0..Latest :
              /\ proc[p].applied = 1..k /\ k < Known[p]
              /\ NextVersion(p) = k + 1 /\ k + 1 \in Versions
<1>1. PICK k \in 0..Latest : proc[p].applied = 1..k
  BY DEF PrefixRead
<1>2. Known[p] \in 1..Latest /\ Latest \in Nat
  BY ProcessesAssumption DEF Versions
<1>3. Pending(p) = (k + 1)..Known[p]
  BY <1>1, <1>2 DEF Pending
<1>4. k < Known[p]
  BY <1>2, <1>3
<1>5. k + 1 \in Pending(p) /\ \A w \in Pending(p) : k + 1 <= w
  BY <1>2, <1>3, <1>4
<1>6. NextVersion(p) \in Pending(p) /\ \A w \in Pending(p) : NextVersion(p) <= w
  BY <1>5 DEF NextVersion
<1>7. NextVersion(p) = k + 1
  BY <1>2, <1>3, <1>5, <1>6
<1> QED BY <1>1, <1>2, <1>4, <1>7 DEF Versions

(* What is known of a process stays true while others work: receipts are    *)
(* only added, and the work changes only for the process with the lock.     *)
LEMMA OthersKeep ==
    ASSUME NEW q \in Processes, Parts(q), proc'[q] = proc[q],
           db.receipts \subseteq db'.receipts,
           (db' = db /\ work' = work) \/ proc[q].at \notin Inside
    PROVE  Parts(q)'
<1>1. Pending(q)' = Pending(q)
  BY DEF Pending
<1>2. NextVersion(q)' = NextVersion(q)
  BY <1>1 DEF NextVersion
<1>3. PrefixRead(q)'
  BY DEF Parts, PrefixRead, At
<1>4. HasSchema(q)'
  BY DEF Parts, HasSchema
<1>5. MigrationUnderWay(q)'
  <2>1. CASE proc[q].at \notin Inside
    BY <2>1 DEF MigrationUnderWay, At, Inside
  <2>2. CASE db' = db /\ work' = work
    BY <1>1, <1>2, <2>2 DEF Parts, MigrationUnderWay, At
  <2> QED BY <2>1, <2>2
<1>6. UnitUnderWay(q)'
  BY DEF Parts, UnitUnderWay, At, Inside
<1> QED BY <1>3, <1>4, <1>5, <1>6 DEF Parts

(* A process that is in no transaction and stays out of one may do what it  *)
(* likes with its own record.                                               *)
LEMMA OutsideKeeps ==
    ASSUME IInv, NEW p \in Processes, NEW r \in Records,
           proc' = [proc EXCEPT ![p] = r], UNCHANGED <<db, lock, work>>,
           proc[p].at \notin Inside, r.at \notin Inside, PrefixRead(p)', HasSchema(p)'
    PROVE  IInv'
<1>1. Types'
  BY DEF IInv, Types
<1>2. FileIsWhole'
  BY DEF IInv, FileIsWhole, Whole
<1>3. LockIsHeld'
  BY DEF IInv, Types, LockIsHeld
<1>4. ASSUME NEW q \in Processes PROVE Parts(q)'
  <2>1. CASE q = p
    <3>1. proc'[p] = r
      BY DEF IInv, Types
    <3>2. MigrationUnderWay(p)' /\ UnitUnderWay(p)'
      BY <3>1 DEF MigrationUnderWay, UnitUnderWay, At, Inside
    <3> QED BY <2>1, <3>2 DEF Parts
  <2>2. CASE q # p
    <3>1. proc'[q] = proc[q]
      BY <2>2 DEF IInv, Types
    <3> QED BY <3>1, OthersKeep DEF IInv, Parts
  <2> QED BY <2>1, <2>2
<1> QED BY <1>1, <1>2, <1>3, <1>4 DEF IInv, Parts

(* A process that has the lock, or takes it when nobody has, answers only   *)
(* for what it leaves in the file and in its own work.                      *)
LEMMA HolderKeeps ==
    ASSUME IInv, NEW p \in Processes, NEW r \in Records,
           proc' = [proc EXCEPT ![p] = r],
           lock \in {p, Nobody}, lock' = IF r.at \in Inside THEN p ELSE Nobody,
           db' \in Stores, work' \in Stores,
           db.receipts \subseteq db'.receipts, FileIsWhole', Parts(p)'
    PROVE  IInv'
<1>1. Types'
  BY DEF IInv, Types
<1>2. ASSUME NEW q \in Processes, q # p PROVE proc'[q] = proc[q] /\ proc[q].at \notin Inside
  BY <1>2, ProcessesAssumption DEF IInv, Types, LockIsHeld
<1>3. proc'[p] = r
  BY DEF IInv, Types
<1>4. LockIsHeld'
  BY <1>2, <1>3, ProcessesAssumption DEF LockIsHeld
<1>5. ASSUME NEW q \in Processes PROVE Parts(q)'
  <2>1. CASE q = p
    BY <2>1
  <2>2. CASE q # p
    BY <1>2, <2>2, OthersKeep DEF IInv, Parts
  <2> QED BY <2>1, <2>2
<1> QED BY <1>1, <1>4, <1>5 DEF IInv, Parts

-----------------------------------------------------------------------------
LEMMA InitHolds == Init => IInv
<1> SUFFICES ASSUME Init PROVE IInv
  OBVIOUS
<1> USE ProcessesAssumption DEF Init, Fresh, Empty
<1>1. Types
  BY DEF Types, Stores, Records, Places, Inside, Served
<1>2. FileIsWhole
  <2>1. 0 \in 0..Latest /\ 1..0 = {}
    OBVIOUS
  <2> QED BY <2>1 DEF FileIsWhole, Whole
<1>3. LockIsHeld
  BY DEF LockIsHeld, Inside
<1>4. ASSUME NEW p \in Processes PROVE Parts(p)
  <2>1. 0 \in 0..Latest /\ 1..0 = {}
    OBVIOUS
  <2> QED BY <2>1 DEF Parts, PrefixRead, MigrationUnderWay, UnitUnderWay, HasSchema, At, Served
<1> QED BY <1>1, <1>2, <1>3, <1>4 DEF IInv, Parts

(* The steps outside every transaction (migrations.py bootstrap, uow.py).   *)
LEMMA OutsideSteps ==
    ASSUME IInv, NEW p \in Processes,
           \/ QuickCheckFails(p) \/ ReadApplied(p) \/ RefuseUnversioned(p)
           \/ BusyMigration(p) \/ FinishBootstrap(p) \/ BusyUnit(p) \/ TellCaller(p)
    PROVE  IInv'
<1> USE DEF At, Goto
<1>0. proc[p] \in Records /\ db \in Stores /\ proc \in [Processes -> Records]
  BY DEF IInv, Types
<1>p. PrefixRead(p) /\ HasSchema(p)
  BY DEF IInv
<1>1. CASE QuickCheckFails(p)
  <2> DEFINE r == [proc[p] EXCEPT !.at = "failed"]
  <2>1. r \in Records /\ proc' = [proc EXCEPT ![p] = r] /\ proc'[p] = r
    BY <1>0, <1>1 DEF QuickCheckFails, Records, Places
  <2>2. PrefixRead(p)' /\ HasSchema(p)'
    BY <1>0, <1>1, <1>p, <2>1 DEF QuickCheckFails, PrefixRead, HasSchema, Served, Records
  <2> QED BY <1>0, <1>1, <2>1, <2>2, OutsideKeeps DEF QuickCheckFails, Inside, Records
<1>2. CASE ReadApplied(p)
  <2> DEFINE r == [proc[p] EXCEPT !.applied = db.receipts,
                     !.at = IF ~HasReceipts THEN "tables"
                            ELSE IF Compatible(p) THEN "apply" ELSE "failed"]
  <2>1. r \in Records /\ proc' = [proc EXCEPT ![p] = r] /\ proc'[p] = r
    BY <1>0, <1>2 DEF ReadApplied, Records, Places, Stores
  <2>2. PICK last \in 0..Latest : db.receipts = 1..last
    BY DEF IInv, FileIsWhole, Whole
  <2>3. ~HasReceipts => db.receipts = {}
    BY <2>2, ProcessesAssumption DEF HasReceipts
  <2>4. PrefixRead(p)' /\ HasSchema(p)'
    BY <1>0, <1>2, <2>1, <2>2, <2>3
       DEF ReadApplied, PrefixRead, HasSchema, Served, Records, Compatible
  <2> QED BY <1>0, <1>2, <2>1, <2>4, OutsideKeeps DEF ReadApplied, Inside, Records
<1>3. CASE RefuseUnversioned(p)
  <2> DEFINE r == [proc[p] EXCEPT !.at = IF HasTables THEN "failed" ELSE "apply"]
  <2>1. r \in Records /\ proc' = [proc EXCEPT ![p] = r] /\ proc'[p] = r
    BY <1>0, <1>3 DEF RefuseUnversioned, Records, Places
  <2>2. PrefixRead(p)' /\ HasSchema(p)'
    BY <1>0, <1>3, <1>p, <2>1 DEF RefuseUnversioned, PrefixRead, HasSchema, Served, Records
  <2> QED BY <1>0, <1>3, <2>1, <2>2, OutsideKeeps DEF RefuseUnversioned, Inside, Records
<1>4. CASE BusyMigration(p)
  <2> DEFINE r == [proc[p] EXCEPT !.at = "failed"]
  <2>1. r \in Records /\ proc' = [proc EXCEPT ![p] = r] /\ proc'[p] = r
    BY <1>0, <1>4 DEF BusyMigration, Records, Places
  <2>2. PrefixRead(p)' /\ HasSchema(p)'
    BY <1>0, <1>4, <1>p, <2>1 DEF BusyMigration, PrefixRead, HasSchema, Served, Records
  <2> QED BY <1>0, <1>4, <2>1, <2>2, OutsideKeeps DEF BusyMigration, Inside, Records
<1>5. CASE FinishBootstrap(p)
  <2> DEFINE r == [proc[p] EXCEPT !.at = "ready"]
  <2>1. r \in Records /\ proc' = [proc EXCEPT ![p] = r] /\ proc'[p] = r
    BY <1>0, <1>5 DEF FinishBootstrap, Records, Places, Served
  <2>2. 1..Known[p] \subseteq db.receipts
    BY <1>5, <1>p DEF FinishBootstrap, Pending, PrefixRead
  <2>3. PrefixRead(p)' /\ HasSchema(p)'
    BY <1>0, <1>5, <1>p, <2>1, <2>2 DEF FinishBootstrap, PrefixRead, HasSchema, Records
  <2> QED BY <1>0, <1>5, <2>1, <2>3, OutsideKeeps DEF FinishBootstrap, Inside, Records
<1>6. CASE BusyUnit(p)
  <2> DEFINE r == [proc[p] EXCEPT !.tries = 1 - @]
  <2>1. r \in Records /\ proc' = [proc EXCEPT ![p] = r] /\ proc'[p] = r
    BY <1>0, <1>6 DEF BusyUnit, Records
  <2>2. PrefixRead(p)' /\ HasSchema(p)'
    BY <1>0, <1>6, <1>p, <2>1 DEF BusyUnit, PrefixRead, HasSchema, Records
  <2> QED BY <1>0, <1>6, <2>1, <2>2, OutsideKeeps DEF BusyUnit, Inside, Records
<1>7. CASE TellCaller(p)
  <2> DEFINE r == [proc[p] EXCEPT !.at = "ready"]
  <2>1. r \in Records /\ proc' = [proc EXCEPT ![p] = r] /\ proc'[p] = r
    BY <1>0, <1>7 DEF TellCaller, Records, Places, Served
  <2>2. PrefixRead(p)' /\ HasSchema(p)'
    BY <1>0, <1>7, <1>p, <2>1 DEF TellCaller, PrefixRead, HasSchema, Served, Records
  <2> QED BY <1>0, <1>7, <2>1, <2>2, OutsideKeeps DEF TellCaller, Inside, Records
<1> QED BY <1>1, <1>2, <1>3, <1>4, <1>5, <1>6, <1>7

(* A write inside the transaction leaves the file as it was.                *)
LEMMA FileStays ==
    ASSUME IInv, db' = db
    PROVE  db' \in Stores /\ FileIsWhole' /\ db.receipts \subseteq db'.receipts
BY DEF IInv, Types, FileIsWhole, Whole

(* Giving a transaction up, by an error or by dying, leaves the file as it  *)
(* was.                                                                     *)
LEMMA GivingUpKeeps ==
    ASSUME IInv, NEW p \in Processes, NEW r \in Records,
           proc' = [proc EXCEPT ![p] = r], Rollback(p),
           r.at \notin Inside, PrefixRead(p)', HasSchema(p)'
    PROVE  IInv'
<1>1. proc'[p] = r
  BY DEF IInv, Types
<1>2. CASE lock = p
  <2>1. db' = db /\ lock' = Nobody /\ work' = Empty
    BY <1>2 DEF Rollback
  <2>2. work' \in Stores
    BY <2>1 DEF Empty, Stores
  <2>3. MigrationUnderWay(p)' /\ UnitUnderWay(p)'
    BY <1>1 DEF MigrationUnderWay, UnitUnderWay, At, Inside
  <2> QED BY <1>2, <2>1, <2>2, <2>3, FileStays, HolderKeeps DEF Parts
<1>3. CASE lock # p
  <2>1. UNCHANGED <<db, lock, work>>
    BY <1>3 DEF Rollback
  <2>2. proc[p].at \notin Inside
    BY <1>3 DEF IInv, LockIsHeld
  <2> QED BY <2>1, <2>2, OutsideKeeps
<1> QED BY <1>2, <1>3

(* The steps that leave a transaction without a commit.                     *)
LEMMA GivingUpSteps ==
    ASSUME IInv, NEW p \in Processes,
           FailMigration(p) \/ ExitUncommitted(p) \/ Restart(p)
    PROVE  IInv'
<1> USE DEF At, Goto
<1>0. proc[p] \in Records /\ db \in Stores /\ proc \in [Processes -> Records]
  BY DEF IInv, Types
<1>p. PrefixRead(p) /\ HasSchema(p)
  BY DEF IInv
<1>d. Rollback(p) => db' = db
  BY DEF Rollback
<1>1. CASE FailMigration(p)
  <2> DEFINE r == [proc[p] EXCEPT !.at = "failed"]
  <2>1. r \in Records /\ proc' = [proc EXCEPT ![p] = r] /\ proc'[p] = r
    BY <1>0, <1>1 DEF FailMigration, Records, Places
  <2>2. PrefixRead(p)' /\ HasSchema(p)'
    BY <1>0, <1>1, <1>d, <1>p, <2>1 DEF FailMigration, PrefixRead, HasSchema, Served, Records
  <2> QED BY <1>0, <1>1, <2>1, <2>2, GivingUpKeeps DEF FailMigration, Inside, Records
<1>2. CASE ExitUncommitted(p)
  <2> DEFINE r == [proc[p] EXCEPT !.at = "ready"]
  <2>1. r \in Records /\ proc' = [proc EXCEPT ![p] = r] /\ proc'[p] = r
    BY <1>0, <1>2 DEF ExitUncommitted, Records, Places, Served
  <2>2. PrefixRead(p)' /\ HasSchema(p)'
    BY <1>0, <1>2, <1>d, <1>p, <2>1 DEF ExitUncommitted, PrefixRead, HasSchema, Served, Records
  <2> QED BY <1>0, <1>2, <2>1, <2>2, GivingUpKeeps DEF ExitUncommitted, Inside, Records
<1>3. CASE Restart(p)
  <2>1. Fresh \in Records /\ proc' = [proc EXCEPT ![p] = Fresh] /\ proc'[p] = Fresh
    BY <1>0, <1>3, ProcessesAssumption DEF Restart, Fresh, Records, Places
  <2>2. \E k \in 0..Latest : {} = 1..k
    <3>1. 0 \in 0..Latest /\ {} = 1..0
      BY ProcessesAssumption
    <3> QED BY <3>1
  <2>3. PrefixRead(p)' /\ HasSchema(p)'
    BY <2>1, <2>2 DEF PrefixRead, HasSchema, Served, Fresh
  <2> QED BY <1>3, <2>1, <2>3, GivingUpKeeps DEF Restart, Inside, Fresh
<1> QED BY <1>1, <1>2, <1>3

-----------------------------------------------------------------------------
(* The steps of a migration (migrations.py _apply).                         *)
LEMMA MigrationSteps ==
    ASSUME IInv, NEW p \in Processes,
           BeginMigration(p) \/ RunStatement(p) \/ RecordReceipt(p)
    PROVE  IInv'
<1> USE DEF At, Goto
<1>0. /\ proc[p] \in Records /\ proc \in [Processes -> Records]
      /\ db \in Stores /\ work \in Stores /\ Types
  BY DEF IInv, Types
<1>p. PrefixRead(p) /\ HasSchema(p) /\ MigrationUnderWay(p)
  BY DEF IInv
<1>s. Statements \in Nat \ {0}
  BY ProcessesAssumption
<1>1. CASE BeginMigration(p)
  <2> DEFINE r == [proc[p] EXCEPT !.at = "migrate", !.step = 0]
  <2>a. r \in Records
    <3>1. 0 \in 0..Statements
      BY <1>s
    <3> QED BY <1>0, <3>1 DEF Records, Places, Inside
  <2>b. proc' = [proc EXCEPT ![p].at = "migrate", ![p].step = 0]
    BY <1>1 DEF BeginMigration
  <2>1. r \in Records /\ proc' = [proc EXCEPT ![p] = r] /\ proc'[p] = r
    BY <1>0, <2>a, <2>b
  <2>2. db' = db /\ lock = Nobody /\ lock' = p /\ work' = db
    BY <1>1 DEF BeginMigration, Begin
  <2>3. Pending(p)' = Pending(p) /\ Pending(p) # {}
    BY <1>0, <1>1, <2>1 DEF BeginMigration, Pending, Records
  <2>4. NextVersion(p)' = NextVersion(p)
    BY <2>3 DEF NextVersion
  <2>5. NextVersion(p) \in Versions
    BY <1>0, <1>p, <2>3, NextFollows
  <2>6. db = [db EXCEPT !.ran[NextVersion(p)] = @ + 0]
    BY <1>0, <2>5 DEF Stores
  <2>7. MigrationUnderWay(p)'
    BY <1>0, <2>1, <2>2, <2>3, <2>4, <2>6 DEF MigrationUnderWay, Records
  <2>8. PrefixRead(p)' /\ HasSchema(p)' /\ UnitUnderWay(p)'
    BY <1>0, <1>1, <1>p, <2>1, <2>2
       DEF BeginMigration, PrefixRead, HasSchema, UnitUnderWay, Served, Records
  <2>9. r.at \in Inside
    BY <1>0 DEF Records, Inside
  <2>10. Parts(p)'
    BY <2>7, <2>8 DEF Parts
  <2>11. lock' = IF r.at \in Inside THEN p ELSE Nobody
    BY <2>2, <2>9
  <2> HIDE DEF r
  <2>12. db' \in Stores /\ FileIsWhole' /\ db.receipts \subseteq db'.receipts
    BY <2>2, FileStays
  <2> QED BY <1>0, <2>1, <2>2, <2>10, <2>11, <2>12, HolderKeeps
<1>l. proc[p].at = "migrate" => lock = p
  BY DEF IInv, LockIsHeld, Inside
<1>2. CASE RunStatement(p)
  <2> DEFINE r == [proc[p] EXCEPT !.step = @ + 1]
             v == NextVersion(p)
  <2>1. r \in Records /\ proc' = [proc EXCEPT ![p] = r] /\ proc'[p] = r
    BY <1>0, <1>2, <1>s DEF RunStatement, Records
  <2>2. /\ db' = db /\ lock = p /\ lock' = p
        /\ work' = [work EXCEPT !.ran[v] = @ + 1]
    BY <1>2, <1>l DEF RunStatement, Write
  <2>3. Pending(p)' = Pending(p) /\ Pending(p) # {}
    BY <1>0, <1>2, <1>p, <2>1 DEF RunStatement, MigrationUnderWay, Pending, Records
  <2>4. NextVersion(p)' = v
    BY <2>3 DEF NextVersion
  <2>5. v \in Versions
    BY <1>0, <1>p, <2>3, NextFollows
  <2>6. work = [db EXCEPT !.ran[v] = @ + proc[p].step]
    BY <1>2, <1>p DEF RunStatement, MigrationUnderWay
  <2>7. work' = [db EXCEPT !.ran[v] = @ + (proc[p].step + 1)] /\ work' \in Stores
    <3> HIDE DEF v
    <3>1. db.ran \in [Versions -> Nat] /\ proc[p].step \in Nat
      BY <1>0, <1>s DEF Stores, Records
    <3>2. work.ran = [db.ran EXCEPT ![v] = @ + proc[p].step]
      BY <1>0, <2>6 DEF Stores
    <3>3. [work.ran EXCEPT ![v] = @ + 1] = [db.ran EXCEPT ![v] = @ + (proc[p].step + 1)]
      BY <2>5, <3>1, <3>2
    <3>4. work.receipts = db.receipts /\ work.left = db.left /\ work.right = db.right
      BY <1>0, <2>6 DEF Stores
    <3> DEFINE new == [db.ran EXCEPT ![v] = @ + (proc[p].step + 1)]
    <3>5. work' = [work EXCEPT !.ran = new]
      BY <2>2, <3>3
    <3>6. new \in [Versions -> Nat]
      BY <2>5, <3>1
    <3> HIDE DEF new
    <3>7. work' = [db EXCEPT !.ran = new] /\ work' \in Stores
      BY <1>0, <3>4, <3>5, <3>6 DEF Stores
    <3> QED BY <3>7 DEF new
  <2>8. MigrationUnderWay(p)'
    BY <1>0, <1>2, <2>1, <2>2, <2>3, <2>4, <2>7 DEF MigrationUnderWay, Records, RunStatement
  <2>9. PrefixRead(p)' /\ HasSchema(p)' /\ UnitUnderWay(p)'
    BY <1>0, <1>2, <1>p, <2>1, <2>2
       DEF RunStatement, PrefixRead, HasSchema, UnitUnderWay, Served, Records
  <2>10. r.at \in Inside
    BY <1>0, <1>2 DEF RunStatement, Records, Inside
  <2>11. Parts(p)'
    BY <2>8, <2>9 DEF Parts
  <2>12. lock' = IF r.at \in Inside THEN p ELSE Nobody
    BY <2>2, <2>10
  <2> HIDE DEF r
  <2>13. db' \in Stores /\ FileIsWhole' /\ db.receipts \subseteq db'.receipts
    BY <2>2, FileStays
  <2> QED BY <2>1, <2>2, <2>7, <2>11, <2>12, <2>13, HolderKeeps
<1>3. CASE RecordReceipt(p)
  <2> DEFINE r == [proc[p] EXCEPT !.at = "commit"]
             v == NextVersion(p)
  <2>1. r \in Records /\ proc' = [proc EXCEPT ![p] = r] /\ proc'[p] = r
    BY <1>0, <1>3 DEF RecordReceipt, Records, Places, Inside
  <2>2. /\ db' = db /\ lock = p /\ lock' = p
        /\ work' = [work EXCEPT !.receipts = @ \cup {v}] /\ v \notin work.receipts
    BY <1>3, <1>l DEF RecordReceipt, Write, ReceiptIsNew
  <2>3. Pending(p)' = Pending(p) /\ Pending(p) # {}
    BY <1>0, <1>3, <1>p, <2>1 DEF RecordReceipt, MigrationUnderWay, Pending, Records
  <2>4. NextVersion(p)' = v
    BY <2>3 DEF NextVersion
  <2>5. v \in Versions
    BY <1>0, <1>p, <2>3, NextFollows
  <2>6. work = [db EXCEPT !.ran[v] = @ + Statements]
    BY <1>3, <1>p DEF RecordReceipt, MigrationUnderWay
  <2>7. /\ work' = [db EXCEPT !.ran[v] = @ + Statements, !.receipts = @ \cup {v}]
        /\ work' \in Stores /\ v \notin db.receipts
    BY <1>0, <1>s, <2>2, <2>5, <2>6 DEF Stores
  <2>8. MigrationUnderWay(p)'
    BY <1>0, <2>1, <2>2, <2>3, <2>4, <2>7 DEF MigrationUnderWay, Records
  <2>9. PrefixRead(p)' /\ HasSchema(p)' /\ UnitUnderWay(p)'
    BY <1>0, <1>3, <1>p, <2>1, <2>2
       DEF RecordReceipt, PrefixRead, HasSchema, UnitUnderWay, Served, Records
  <2>10. r.at \in Inside
    BY <1>0 DEF Records, Inside
  <2>11. Parts(p)'
    BY <2>8, <2>9 DEF Parts
  <2>12. lock' = IF r.at \in Inside THEN p ELSE Nobody
    BY <2>2, <2>10
  <2> HIDE DEF r
  <2>13. db' \in Stores /\ FileIsWhole' /\ db.receipts \subseteq db'.receipts
    BY <2>2, FileStays
  <2> QED BY <2>1, <2>2, <2>7, <2>11, <2>12, <2>13, HolderKeeps
<1> QED BY <1>1, <1>2, <1>3

(* The commit of a migration: nobody else can have recorded another one     *)
(* since this process read the receipts, or its own would not have been new.*)
LEMMA CommitMigrationStep ==
    ASSUME IInv, NEW p \in Processes, CommitMigration(p)
    PROVE  IInv'
<1> DEFINE v == NextVersion(p)
           r == [proc[p] EXCEPT !.at = "apply", !.applied = @ \cup {v}]
<1>0. /\ proc[p] \in Records /\ proc \in [Processes -> Records]
      /\ db \in Stores /\ work \in Stores /\ Types
  BY DEF IInv, Types
<1>a. proc[p].at = "commit"
  BY DEF CommitMigration, At
<1>p. PrefixRead(p) /\ HasSchema(p) /\ MigrationUnderWay(p)
  BY DEF IInv
<1>1. /\ lock = p /\ lock' = Nobody /\ db' = work /\ work' = Empty
      /\ proc' = [proc EXCEPT ![p].at = "apply", ![p].applied = @ \cup {v}]
  BY <1>a DEF CommitMigration, CommitWork, IInv, LockIsHeld, Inside
<1>2. /\ Pending(p) # {} /\ v \notin db.receipts
      /\ work = [db EXCEPT !.ran[v] = @ + Statements, !.receipts = @ \cup {v}]
  BY <1>a, <1>p DEF MigrationUnderWay, At
<1>3. PICK k \in 0..Latest : /\ proc[p].applied = 1..k /\ k < Known[p]
                             /\ v = k + 1 /\ k + 1 \in Versions
  BY <1>0, <1>2, <1>p, NextFollows
<1>4. Latest \in Nat /\ Known[p] \in 1..Latest /\ Statements \in Nat \ {0}
  BY ProcessesAssumption DEF Versions
<1>5. db.receipts = 1..k
  <2>1. PICK last \in 0..Latest : db.receipts = 1..last
    BY DEF IInv, FileIsWhole, Whole
  <2>2. k <= last
    BY <1>3, <1>4, <1>p, <2>1 DEF PrefixRead
  <2>3. ~(k + 1 <= last)
    BY <1>2, <1>3, <1>4, <2>1
  <2> QED BY <1>4, <2>1, <2>2, <2>3
<1> HIDE DEF v
<1>6. db'.receipts = 1..(k + 1)
  <2>1. db'.receipts = 1..k \cup {k + 1}
    BY <1>0, <1>1, <1>2, <1>3, <1>5 DEF Stores
  <2> QED BY <1>4, <2>1
<1>7. db'.ran = [db.ran EXCEPT ![v] = @ + Statements]
  BY <1>0, <1>1, <1>2 DEF Stores
<1>8. db'.left = db.left /\ db'.right = db.right
  BY <1>0, <1>1, <1>2 DEF Stores
<1>9. FileIsWhole'
  <2>1. ASSUME NEW w \in Versions
        PROVE  db'.ran[w] = IF w \in db'.receipts THEN Statements ELSE 0
    <3>1. db.ran[w] = IF w \in db.receipts THEN Statements ELSE 0
      BY DEF IInv, FileIsWhole, Whole
    <3>2. CASE w = v
      BY <1>0, <1>2, <1>3, <1>4, <1>6, <1>7, <3>1, <3>2 DEF Stores, Versions
    <3>3. CASE w # v
      <4>1. w \in db'.receipts <=> w \in db.receipts
        BY <1>3, <1>4, <1>5, <1>6, <3>3 DEF Versions
      <4> QED BY <1>0, <1>7, <3>1, <3>3, <4>1 DEF Stores
    <3> QED BY <3>2, <3>3
  <2>2. k + 1 \in 0..Latest
    BY <1>3, <1>4
  <2> QED BY <1>1, <1>6, <1>8, <2>1, <2>2 DEF IInv, FileIsWhole, Whole
<1>10. r \in Records /\ proc' = [proc EXCEPT ![p] = r] /\ proc'[p] = r
  <2>1. v \in Versions
    BY <1>3
  <2>2. r \in Records
    BY <1>0, <2>1 DEF Records, Places
  <2> QED BY <1>0, <1>1, <2>2
<1>11. r.at = "apply" /\ r.applied = 1..(k + 1)
  <2>1. r.at = "apply" /\ r.applied = 1..k \cup {k + 1}
    BY <1>0, <1>3 DEF Records
  <2> QED BY <1>4, <2>1
<1> HIDE DEF r
<1>12. Parts(p)'
  <2>1. k + 1 \in 0..Latest /\ 1..(k + 1) \subseteq 1..Known[p]
    BY <1>3, <1>4
  <2>2. PrefixRead(p)'
    BY <1>6, <1>10, <1>11, <2>1 DEF PrefixRead, At
  <2>3. MigrationUnderWay(p)' /\ UnitUnderWay(p)' /\ HasSchema(p)'
    BY <1>10, <1>11 DEF MigrationUnderWay, UnitUnderWay, HasSchema, Served, At
  <2> QED BY <2>2, <2>3 DEF Parts
<1>13. db' \in Stores /\ work' \in Stores
  BY <1>0, <1>1 DEF Stores, Empty
<1>14. db.receipts \subseteq db'.receipts
  BY <1>0, <1>1, <1>2 DEF Stores
<1>15. lock' = IF r.at \in Inside THEN p ELSE Nobody
  BY <1>1, <1>11 DEF Inside
<1> QED BY <1>1, <1>9, <1>10, <1>12, <1>13, <1>14, <1>15, HolderKeeps

-----------------------------------------------------------------------------
(* The steps of a unit of work (uow.py).                                    *)
LEMMA UnitSteps ==
    ASSUME IInv, NEW p \in Processes,
           Enter(p) \/ WriteLeft(p) \/ WriteRight(p) \/ CommitUnit(p)
    PROVE  IInv'
<1> USE DEF At, Goto
<1>0. /\ proc[p] \in Records /\ proc \in [Processes -> Records]
      /\ db \in Stores /\ work \in Stores
  BY DEF IInv, Types
<1>p. PrefixRead(p) /\ HasSchema(p) /\ UnitUnderWay(p)
  BY DEF IInv
<1>w. db.left = db.right
  BY DEF IInv, FileIsWhole, Whole
<1>1. CASE Enter(p)
  <2> DEFINE r == [proc[p] EXCEPT !.at = "body", !.tries = 0]
  <2>1. r \in Records /\ r.at = "body" /\ r.applied = proc[p].applied
    BY <1>0 DEF Records, Places, Inside
  <2>a. proc' = [proc EXCEPT ![p].at = "body", ![p].tries = 0] /\ proc[p].at = "ready"
    BY <1>1 DEF Enter
  <2>2. proc' = [proc EXCEPT ![p] = r] /\ proc'[p] = r
    BY <1>0, <2>a
  <2> HIDE DEF r
  <2>3. db' = db /\ lock = Nobody /\ lock' = p /\ work' = db
    BY <1>1 DEF Enter, Begin
  <2>4. Parts(p)'
    BY <1>p, <2>1, <2>2, <2>3, <2>a
       DEF Parts, PrefixRead, HasSchema, MigrationUnderWay, UnitUnderWay, Served
  <2>5. lock' = IF r.at \in Inside THEN p ELSE Nobody
    BY <2>1, <2>3 DEF Inside
  <2> QED BY <1>0, <2>1, <2>2, <2>3, <2>4, <2>5, FileStays, HolderKeeps
<1>l. proc[p].at \in Inside => lock = p
  BY DEF IInv, LockIsHeld
<1>2. CASE WriteLeft(p)
  <2> DEFINE r == [proc[p] EXCEPT !.at = "body2"]
  <2>1. r \in Records /\ r.at = "body2" /\ r.applied = proc[p].applied
    BY <1>0 DEF Records, Places, Inside
  <2>2. proc' = [proc EXCEPT ![p] = r] /\ proc'[p] = r /\ proc[p].at = "body"
    BY <1>0, <1>2 DEF WriteLeft
  <2> HIDE DEF r
  <2>3. db' = db /\ lock = p /\ lock' = p
    BY <1>2, <1>l, <2>2 DEF WriteLeft, Write, Inside
  <2>4. work' = [db EXCEPT !.left = @ + 1] /\ work' \in Stores
    <3>1. work = db /\ work' = [work EXCEPT !.left = work.left + 1]
      BY <1>2, <1>p DEF WriteLeft, Write, UnitUnderWay
    <3> QED BY <1>0, <3>1 DEF Stores
  <2>5. Parts(p)'
    BY <1>p, <2>1, <2>2, <2>3, <2>4
       DEF Parts, PrefixRead, HasSchema, MigrationUnderWay, UnitUnderWay, Served
  <2>6. lock' = IF r.at \in Inside THEN p ELSE Nobody
    BY <2>1, <2>3 DEF Inside
  <2> QED BY <2>1, <2>2, <2>3, <2>4, <2>5, <2>6, FileStays, HolderKeeps
<1>3. CASE WriteRight(p)
  <2> DEFINE r == [proc[p] EXCEPT !.at = "unit"]
  <2>1. r \in Records /\ r.at = "unit" /\ r.applied = proc[p].applied
    BY <1>0 DEF Records, Places, Inside
  <2>2. proc' = [proc EXCEPT ![p] = r] /\ proc'[p] = r /\ proc[p].at = "body2"
    BY <1>0, <1>3 DEF WriteRight
  <2> HIDE DEF r
  <2>3. db' = db /\ lock = p /\ lock' = p
    BY <1>3, <1>l, <2>2 DEF WriteRight, Write, Inside
  <2>4. work' = [db EXCEPT !.left = @ + 1, !.right = db.left + 1] /\ work' \in Stores
    <3>1. work = [db EXCEPT !.left = @ + 1] /\ work' = [work EXCEPT !.right = work.left]
      BY <1>3, <1>p DEF WriteRight, Write, UnitUnderWay
    <3>2. work.left = db.left + 1
      BY <1>0, <3>1 DEF Stores
    <3> QED BY <1>0, <3>1, <3>2 DEF Stores
  <2>5. Parts(p)'
    BY <1>p, <2>1, <2>2, <2>3, <2>4
       DEF Parts, PrefixRead, HasSchema, MigrationUnderWay, UnitUnderWay, Served
  <2>6. lock' = IF r.at \in Inside THEN p ELSE Nobody
    BY <2>1, <2>3 DEF Inside
  <2> QED BY <2>1, <2>2, <2>3, <2>4, <2>5, <2>6, FileStays, HolderKeeps
<1>4. CASE CommitUnit(p)
  <2> DEFINE r == [proc[p] EXCEPT !.at = "committed", !.unit = work.left]
  <2>1. r \in Records /\ r.at = "committed" /\ r.applied = proc[p].applied
    BY <1>0 DEF Records, Stores, Places, Served
  <2>2. proc' = [proc EXCEPT ![p] = r] /\ proc'[p] = r /\ proc[p].at = "unit"
    BY <1>0, <1>4 DEF CommitUnit
  <2> HIDE DEF r
  <2>3. db' = work /\ lock = p /\ lock' = Nobody /\ work' = Empty
    BY <1>4, <1>l, <2>2 DEF CommitUnit, CommitWork, Inside
  <2>4. work = [db EXCEPT !.left = @ + 1, !.right = db.left + 1]
    BY <1>p, <2>2 DEF UnitUnderWay
  <2>5. /\ db'.ran = db.ran /\ db'.receipts = db.receipts
        /\ db'.left = db.left + 1 /\ db'.right = db.left + 1
    BY <1>0, <2>3, <2>4 DEF Stores
  <2>6. FileIsWhole'
    BY <1>w, <2>3, <2>5 DEF IInv, FileIsWhole, Whole
  <2>7. Parts(p)'
    BY <1>p, <2>1, <2>2, <2>5
       DEF Parts, PrefixRead, HasSchema, MigrationUnderWay, UnitUnderWay, Served
  <2>8. lock' = IF r.at \in Inside THEN p ELSE Nobody
    BY <2>1, <2>3 DEF Inside
  <2>9. db' \in Stores /\ work' \in Stores
    BY <1>0, <2>3 DEF Stores, Empty
  <2> QED BY <2>1, <2>2, <2>3, <2>5, <2>6, <2>7, <2>8, <2>9, HolderKeeps
<1> QED BY <1>1, <1>2, <1>3, <1>4

-----------------------------------------------------------------------------
LEMMA StepKeeps == IInv /\ [Next]_vars => IInv'
<1> SUFFICES ASSUME IInv, [Next]_vars PROVE IInv'
  OBVIOUS
<1>1. CASE UNCHANGED vars
  <2>1. UNCHANGED <<db, lock, work, proc>>
    BY <1>1 DEF vars
  <2>2. Types' /\ LockIsHeld' /\ FileIsWhole'
    BY <2>1 DEF IInv, Types, LockIsHeld, FileIsWhole, Whole
  <2>3. ASSUME NEW p \in Processes PROVE Parts(p)'
    BY <2>1, OthersKeep DEF IInv, Parts
  <2> QED BY <2>2, <2>3 DEF IInv, Parts
<1>2. ASSUME NEW p \in Processes,
             \/ QuickCheckFails(p) \/ ReadApplied(p) \/ RefuseUnversioned(p)
             \/ BusyMigration(p) \/ FinishBootstrap(p) \/ BusyUnit(p) \/ TellCaller(p)
      PROVE  IInv'
  BY <1>2, OutsideSteps
<1>3. ASSUME NEW p \in Processes, FailMigration(p) \/ ExitUncommitted(p) \/ Restart(p)
      PROVE  IInv'
  BY <1>3, GivingUpSteps
<1>4. ASSUME NEW p \in Processes, BeginMigration(p) \/ RunStatement(p) \/ RecordReceipt(p)
      PROVE  IInv'
  BY <1>4, MigrationSteps
<1>5. ASSUME NEW p \in Processes, CommitMigration(p) PROVE IInv'
  BY <1>5, CommitMigrationStep
<1>6. ASSUME NEW p \in Processes,
             Enter(p) \/ WriteLeft(p) \/ WriteRight(p) \/ CommitUnit(p)
      PROVE  IInv'
  BY <1>6, UnitSteps
<1> QED BY <1>1, <1>2, <1>3, <1>4, <1>5, <1>6 DEF Next

LEMMA InvariantHolds == Spec => []IInv
BY InitHolds, StepKeeps, PTL DEF Spec

(* A process that serves finds every migration its program knows            *)
(* (migrations.py bootstrap).                                               *)
THEOREM TheReadyHaveTheirSchema == Spec => []ReadyHasItsSchema
<1>1. IInv => ReadyHasItsSchema
  BY DEF IInv, HasSchema, Served, ReadyHasItsSchema, At
<1> QED BY <1>1, InvariantHolds, PTL

(* The bound on the units counts the one under way, and the unit of a       *)
(* process that is about to tell its caller is one of them.                 *)
UnitCounts ==
    /\ db.left \in 0..MaxUnits
    /\ told \subseteq 1..MaxUnits /\ lost \subseteq 1..MaxUnits
    /\ \A p \in Processes :
         /\ proc[p].at \in {"body", "body2", "unit"} => db.left < MaxUnits
         /\ proc[p].at = "committed" => proc[p].unit \in 1..MaxUnits
    /\ UnitsAreCounted

LEMMA UnitCountsInit == Init => UnitCounts
<1> SUFFICES ASSUME Init PROVE UnitCounts
  OBVIOUS
<1>1. /\ db.left = 0 /\ told = {} /\ lost = {} /\ MaxUnits \in Nat
      /\ \A p \in Processes : proc[p].at = "start"
  BY ProcessesAssumption DEF Init, Fresh, Empty
<1>2. UnitsAreCounted
  BY <1>1 DEF UnitsAreCounted, BeingTold, At
<1> QED
  BY <1>1, <1>2 DEF UnitCounts

(* A step that commits and tells nothing.                                   *)
LEMMA CountsStay ==
    ASSUME UnitCounts, NEW p \in Processes, db'.left = db.left, UNCHANGED <<told, lost>>,
           \A q \in Processes \ {p} : proc'[q] = proc[q],
           proc[p].at # "committed", proc'[p].at # "committed",
           proc'[p].at \in {"body", "body2", "unit"} => db.left < MaxUnits
    PROVE  UnitCounts'
<1>1. \A q \in Processes : At(q, "committed")' <=> At(q, "committed")
  BY DEF At
<1>2. \A q \in Processes : At(q, "committed") => proc'[q].unit = proc[q].unit
  BY DEF At
<1>3. \A n : BeingTold(n)' <=> BeingTold(n)
  BY <1>1, <1>2 DEF BeingTold
<1>4. UnitsAreCounted'
  BY <1>1, <1>2, <1>3 DEF UnitCounts, UnitsAreCounted
<1> QED
  BY <1>4 DEF UnitCounts

(* A process that was committed tells, or dies.                             *)
LEMMA CountsMove ==
    ASSUME UnitCounts, NEW p \in Processes, db'.left = db.left,
           \A q \in Processes \ {p} : proc'[q] = proc[q],
           proc[p].at = "committed", proc'[p].at \notin {"committed", "body", "body2", "unit"},
           \/ told' = told \cup {proc[p].unit} /\ lost' = lost
           \/ lost' = lost \cup {proc[p].unit} /\ told' = told
    PROVE  UnitCounts'
<1>1. /\ At(p, "committed") /\ ~At(p, "committed")' /\ proc[p].unit \in 1..MaxUnits
      /\ \A q \in Processes \ {p} : /\ At(q, "committed")' <=> At(q, "committed")
                                    /\ proc'[q].unit = proc[q].unit
                                    /\ At(q, "committed") => proc[q].unit # proc[p].unit
  BY DEF At, UnitCounts, UnitsAreCounted
<1>2. \A n : BeingTold(n) <=> n = proc[p].unit \/ BeingTold(n)'
  BY <1>1 DEF BeingTold
<1>3. told' \cup lost' = told \cup lost \cup {proc[p].unit} /\ proc[p].unit \notin told \cup lost
  BY <1>1 DEF UnitCounts, UnitsAreCounted
<1>4. \A n \in 1..MaxUnits :
         n \in 1..(db'.left) <=> n \in told' \/ n \in lost' \/ BeingTold(n)'
  BY <1>2, <1>3 DEF UnitCounts, UnitsAreCounted
<1>5. told' \cap lost' = {}
  BY <1>3 DEF UnitCounts, UnitsAreCounted
<1>6. \A q \in Processes :
         At(q, "committed")' => q # p /\ At(q, "committed") /\ proc'[q].unit = proc[q].unit
  BY <1>1
<1>7. \A q \in Processes : At(q, "committed")' => proc'[q].unit \notin told' \cup lost'
  BY <1>1, <1>3, <1>6 DEF UnitCounts, UnitsAreCounted
<1>8. \A q, r \in Processes :
         At(q, "committed")' /\ At(r, "committed")' /\ proc'[r].unit = proc'[q].unit => q = r
  BY <1>6 DEF UnitCounts, UnitsAreCounted
<1>9. UnitsAreCounted'
  BY <1>4, <1>5, <1>7, <1>8 DEF UnitsAreCounted
<1> QED
  BY <1>1, <1>3, <1>9 DEF UnitCounts

(* A commit adds the next unit.                                             *)
LEMMA CountsGrow ==
    ASSUME IInv, UnitCounts, NEW p \in Processes, CommitUnit(p)
    PROVE  UnitCounts'
<1>0. /\ proc \in [Processes -> Records] /\ db \in Stores /\ work \in Stores /\ MaxUnits \in Nat
  BY ProcessesAssumption DEF IInv, Types
<1>1. /\ proc[p].at = "unit" /\ lock = p /\ db' = work /\ UNCHANGED <<told, lost>>
      /\ proc' = [proc EXCEPT ![p].at = "committed", ![p].unit = work.left]
  BY DEF CommitUnit, CommitWork, At, units, IInv, LockIsHeld, Inside
<1>2. work.left = db.left + 1 /\ db.left \in Nat /\ db.left < MaxUnits
  BY <1>0, <1>1 DEF IInv, UnitUnderWay, At, Stores, UnitCounts
<1>3. /\ proc'[p].at = "committed" /\ proc'[p].unit = db.left + 1
      /\ \A q \in Processes \ {p} : proc'[q] = proc[q]
  BY <1>0, <1>1, <1>2 DEF Records
<1>4. \A q \in Processes \ {p} : proc'[q].at \notin {"body", "body2", "unit"}
  BY <1>1, <1>3 DEF IInv, LockIsHeld, Inside
<1>5. ~At(p, "committed") /\ At(p, "committed")'
      /\ \A q \in Processes \ {p} : At(q, "committed")' <=> At(q, "committed")
  BY <1>1, <1>3 DEF At
<1>6. \A n : BeingTold(n)' <=> n = db.left + 1 \/ BeingTold(n)
  BY <1>3, <1>5 DEF BeingTold
<1>7. db.left + 1 \in 1..MaxUnits /\ db.left + 1 \notin 1..db.left /\ db'.left = db.left + 1
  BY <1>0, <1>1, <1>2
<1>8. db.left + 1 \notin told \cup lost /\ ~BeingTold(db.left + 1)
  BY <1>7 DEF UnitCounts, UnitsAreCounted
<1>9. \A n \in 1..MaxUnits : n \in 1..(db'.left) <=> n = db.left + 1 \/ n \in 1..db.left
  BY <1>0, <1>2, <1>7
<1>10. \A n \in 1..MaxUnits :
          n \in 1..(db'.left) <=> n \in told' \/ n \in lost' \/ BeingTold(n)'
  BY <1>1, <1>6, <1>9 DEF UnitCounts, UnitsAreCounted
<1>11. \A q \in Processes : At(q, "committed") => proc[q].unit # db.left + 1
  BY <1>8 DEF BeingTold
<1>12. \A q, r \in Processes :
          At(q, "committed")' =>
             /\ proc'[q].unit \notin told' \cup lost'
             /\ At(r, "committed")' /\ proc'[r].unit = proc'[q].unit => q = r
  <2>1. ASSUME NEW q \in Processes, At(q, "committed")'
        PROVE  \/ q = p /\ proc'[q].unit = db.left + 1
               \/ q # p /\ At(q, "committed") /\ proc'[q].unit = proc[q].unit
                        /\ proc[q].unit # db.left + 1
    BY <1>3, <1>5, <1>11, <2>1
  <2>2. \A q \in Processes : At(q, "committed")' => proc'[q].unit \notin told \cup lost
    BY <1>8, <2>1 DEF UnitCounts, UnitsAreCounted
  <2>3. \A q, r \in Processes :
           At(q, "committed")' /\ At(r, "committed")' /\ proc'[r].unit = proc'[q].unit => q = r
    BY <2>1 DEF UnitCounts, UnitsAreCounted
  <2> QED BY <1>1, <2>2, <2>3
<1>13. told' \cap lost' = {}
  BY <1>1 DEF UnitCounts, UnitsAreCounted
<1>14. UnitsAreCounted'
  BY <1>10, <1>12, <1>13, Zenon DEF UnitsAreCounted
<1>15. db'.left \in 0..MaxUnits /\ told' \subseteq 1..MaxUnits /\ lost' \subseteq 1..MaxUnits
  BY <1>0, <1>1, <1>7 DEF UnitCounts
<1>16. ASSUME NEW q \in Processes
       PROVE  /\ proc'[q].at \notin {"body", "body2", "unit"}
              /\ proc'[q].at = "committed" => proc'[q].unit \in 1..MaxUnits
  BY <1>3, <1>4, <1>7 DEF UnitCounts
<1> QED
  BY <1>14, <1>15, <1>16 DEF UnitCounts

LEMMA UnitCountsStep == IInv /\ UnitCounts /\ [Next]_vars => UnitCounts'
<1> SUFFICES ASSUME IInv, UnitCounts, [Next]_vars PROVE UnitCounts'
  OBVIOUS
<1> USE DEF At, Goto
<1>0. /\ MaxUnits \in Nat /\ proc \in [Processes -> Records] /\ db \in Stores /\ work \in Stores
  BY ProcessesAssumption DEF IInv, Types
<1>1. ASSUME NEW p \in Processes, CommitUnit(p) PROVE UnitCounts'
  BY <1>1, CountsGrow
<1>2. ASSUME NEW p \in Processes, TellCaller(p) PROVE UnitCounts'
  <2>1. /\ proc[p].at = "committed" /\ proc' = [proc EXCEPT ![p].at = "ready"] /\ db' = db
        /\ told' = told \cup {proc[p].unit} /\ lost' = lost
    BY <1>2 DEF TellCaller
  <2>2. proc'[p].at = "ready" /\ \A q \in Processes \ {p} : proc'[q] = proc[q]
    BY <1>0, <2>1 DEF Records
  <2> QED BY <2>1, <2>2, CountsMove
<1>3. ASSUME NEW p \in Processes, Restart(p) PROVE UnitCounts'
  <2>1. /\ db' = db /\ told' = told /\ proc' = [proc EXCEPT ![p] = Fresh]
        /\ lost' = IF proc[p].at = "committed" THEN lost \cup {proc[p].unit} ELSE lost
    BY <1>3 DEF Restart, Rollback
  <2>2. proc'[p].at = "start" /\ \A q \in Processes \ {p} : proc'[q] = proc[q]
    BY <1>0, <2>1 DEF Fresh
  <2> QED BY <2>1, <2>2, CountsMove, CountsStay
<1>4. ASSUME NEW p \in Processes, Enter(p) \/ WriteLeft(p) \/ WriteRight(p) PROVE UnitCounts'
  <2>1. /\ db' = db /\ UNCHANGED <<told, lost>> /\ proc[p].at \in {"ready", "body", "body2"}
        /\ \A q \in Processes \ {p} : proc'[q] = proc[q]
        /\ proc'[p].at \in {"body", "body2", "unit"}
    BY <1>0, <1>4 DEF Enter, Begin, WriteLeft, WriteRight, Write, units, Records
  <2>2. db.left < MaxUnits
    BY <1>4 DEF Enter, WriteLeft, WriteRight, UnitCounts
  <2> QED BY <2>1, <2>2, CountsStay
<1>5. ASSUME NEW p \in Processes,
             \/ QuickCheckFails(p) \/ ReadApplied(p) \/ RefuseUnversioned(p)
             \/ BeginMigration(p) \/ BusyMigration(p) \/ RunStatement(p) \/ FailMigration(p)
             \/ RecordReceipt(p) \/ CommitMigration(p) \/ FinishBootstrap(p)
             \/ BusyUnit(p) \/ ExitUncommitted(p)
      PROVE  UnitCounts'
  <2>1. UNCHANGED <<told, lost>> /\ proc[p].at # "committed"
    BY <1>5 DEF QuickCheckFails, ReadApplied, RefuseUnversioned, BeginMigration, BusyMigration,
                RunStatement, FailMigration, RecordReceipt, CommitMigration, FinishBootstrap,
                BusyUnit, ExitUncommitted, units
  <2>2. /\ proc'[p].at \notin {"body", "body2", "unit", "committed"}
        /\ \A q \in Processes \ {p} : proc'[q] = proc[q]
    <3>1. CASE QuickCheckFails(p) \/ RefuseUnversioned(p) \/ BusyMigration(p) \/ FailMigration(p)
               \/ RecordReceipt(p) \/ FinishBootstrap(p) \/ ExitUncommitted(p)
      BY <1>0, <3>1 DEF QuickCheckFails, RefuseUnversioned, BusyMigration, FailMigration,
                        RecordReceipt, FinishBootstrap, ExitUncommitted, Records
    <3>2. CASE ReadApplied(p) \/ BeginMigration(p) \/ CommitMigration(p)
      BY <1>0, <3>2 DEF ReadApplied, BeginMigration, CommitMigration, Records
    <3>3. CASE RunStatement(p) \/ BusyUnit(p)
      BY <1>0, <3>3 DEF RunStatement, BusyUnit, Records
    <3> QED BY <1>5, <3>1, <3>2, <3>3
  <2>3. db'.left = db.left
    <3>1. CASE CommitMigration(p)
      <4>1. work.left = db.left
        BY <1>0, <3>1 DEF CommitMigration, IInv, MigrationUnderWay, Stores
      <4> QED BY <3>1, <4>1 DEF CommitMigration, CommitWork
    <3>2. CASE ~CommitMigration(p)
      BY <1>5, <3>2 DEF QuickCheckFails, ReadApplied, RefuseUnversioned, BeginMigration, Begin,
                        BusyMigration, RunStatement, Write, FailMigration, Rollback, RecordReceipt,
                        FinishBootstrap, BusyUnit, ExitUncommitted
    <3> QED BY <3>1, <3>2
  <2> QED BY <2>1, <2>2, <2>3, CountsStay
<1>6. CASE UNCHANGED vars
  BY <1>6 DEF vars, UnitCounts, UnitsAreCounted, BeingTold
<1> QED BY <1>1, <1>2, <1>3, <1>4, <1>5, <1>6 DEF Next

LEMMA UnitCountsHold == Spec => []UnitCounts
BY UnitCountsInit, UnitCountsStep, InvariantHolds, PTL DEF Spec

(* Whatever crashes, fails or starts at the same time, the file holds whole *)
(* migrations, without a gap and each with its receipt, and every unit      *)
(* whose caller was told so counts on its own; what else it counts is being *)
(* told, or its process died first (migrations.py _apply, uow.py).          *)
THEOREM TheStoreIsWhole == Spec => []StoreIsWhole
<1>1. IInv /\ UnitCounts => StoreIsWhole
  BY DEF IInv, FileIsWhole, UnitCounts, StoreIsWhole
<1> QED BY <1>1, InvariantHolds, UnitCountsHold, PTL

LEMMA DatabaseTyped == IInv /\ UnitCounts => TypeOK
BY DEF IInv, Types, Stores, Records, FileIsWhole, UnitCounts, TypeOK

LEMMA DatabaseHeld == IInv /\ UnitCounts => DatabaseIsWhole
BY DEF IInv, FileIsWhole, UnitCounts, StoreIsWhole, HasSchema, Served, ReadyHasItsSchema, DatabaseIsWhole, At

(* The file and its processes have their types, and no more units commit    *)
(* than the bound allows.                                                   *)
THEOREM TypeCorrect == Spec => []TypeOK
BY DatabaseTyped, InvariantHolds, UnitCountsHold, PTL

-----------------------------------------------------------------------------
(* Sequences, on which the queues, the scripts and the steps are built.     *)
LEMMA SequenceFacts ==
    ASSUME NEW S, NEW s \in Seq(S), s # <<>>
    PROVE  /\ Len(s) \in Nat \ {0} /\ Head(s) \in S /\ Tail(s) \in Seq(S)
           /\ Len(Tail(s)) = Len(s) - 1 /\ (Len(s) # 1 => Len(s) > 1 /\ Tail(s) # <<>>)
<1>1. Len(s) \in Nat \ {0} /\ Head(s) \in S /\ Tail(s) \in Seq(S)
  OBVIOUS
<1>2. Len(Tail(s)) = Len(s) - 1
  OBVIOUS
<1>3. Tail(s) = <<>> => Len(Tail(s)) = Len(<<>>)
  BY Zenon
<1>4. Len(<<>>) = 0
  OBVIOUS
<1> QED
  BY <1>1, <1>2, <1>3, <1>4

-----------------------------------------------------------------------------
(* The settings (ServiceSettings).  No operation begins with a step that    *)
(* writes the row or has adapters in hand.                                  *)
SafeHead(step) == step \notin {"write", "start", "assign", "close"}

(* The steps of every operation are chained and write what it may write.    *)
LEMMA SsSteps ==
    ASSUME NEW op \in SS!SlotOps \cup SS!TaskOps
    PROVE  /\ SS!Steps(op) \in Seq(SS!StepNames) /\ SS!Steps(op) # <<>>
           /\ SafeHead(Head(SS!Steps(op))) /\ SS!Chained(SS!Steps(op))
           /\ SS!WritesFit(op, SS!Steps(op))
<1> DEFINE Good(o) ==
              /\ SS!Steps(o) \in Seq(SS!StepNames) /\ SS!Steps(o) # <<>>
              /\ SafeHead(Head(SS!Steps(o))) /\ SS!Chained(SS!Steps(o))
              /\ SS!WritesFit(o, SS!Steps(o))
<1>1. Good("save")
  <2> DEFINE s == SS!SaveSettings
  <2>1. /\ Len(s) = 8 /\ s \in Seq(SS!StepNames) /\ s # <<>>
        /\ s[1] = "current" /\ s[2] = "value" /\ s[3] = "write" /\ s[4] = "readAi"
        /\ s[5] = "writeAi" /\ s[6] = "build" /\ s[7] = "assign" /\ s[8] = "close"
    BY DEF SS!SaveSettings, SS!StepNames
  <2>2. SS!Steps("save") = s
    BY DEF SS!Steps
  <2>3. Head(s) = s[1]
    BY <2>1
  <2> HIDE DEF s
  <2>4. SS!Chained(s)
    BY <2>1 DEF SS!Chained, SS!Follows
  <2>5. SS!WritesFit("save", s)
    BY <2>1 DEF SS!WritesFit, SS!RowOps
  <2> QED BY <2>1, <2>2, <2>3, <2>4, <2>5 DEF SafeHead
<1>2. Good("completeFirstRun")
  <2> DEFINE s == SS!MarkStarted
  <2>1. /\ Len(s) = 3 /\ s \in Seq(SS!StepNames) /\ s # <<>>
        /\ s[1] = "allow" /\ s[2] = "value" /\ s[3] = "write"
    BY DEF SS!MarkStarted, SS!StepNames
  <2>2. SS!Steps("completeFirstRun") = s
    BY DEF SS!Steps
  <2>3. Head(s) = s[1]
    BY <2>1
  <2> HIDE DEF s
  <2>4. SS!Chained(s)
    BY <2>1 DEF SS!Chained, SS!Follows
  <2>5. SS!WritesFit("completeFirstRun", s)
    BY <2>1 DEF SS!WritesFit, SS!RowOps
  <2> QED BY <2>1, <2>2, <2>3, <2>4, <2>5 DEF SafeHead
<1>3. Good("reset")
  <2> DEFINE s == SS!ResetLocalData
  <2>1. /\ Len(s) = 5 /\ s \in Seq(SS!StepNames) /\ s # <<>>
        /\ s[1] = "refuseWhileActive" /\ s[2] = "erase" /\ s[3] = "build" /\ s[4] = "assign"
        /\ s[5] = "close"
    BY DEF SS!ResetLocalData, SS!StepNames
  <2>2. SS!Steps("reset") = s
    BY DEF SS!Steps
  <2>3. Head(s) = s[1]
    BY <2>1
  <2> HIDE DEF s
  <2>4. SS!Chained(s)
    BY <2>1 DEF SS!Chained, SS!Follows
  <2>5. SS!WritesFit("reset", s)
    BY <2>1 DEF SS!WritesFit, SS!RowOps
  <2> QED BY <2>1, <2>2, <2>3, <2>4, <2>5 DEF SafeHead
<1>4. Good("activate")
  <2> DEFINE s == SS!ActivateProvider
  <2>1. /\ Len(s) = 6 /\ s \in Seq(SS!StepNames) /\ s # <<>>
        /\ s[1] = "allow" /\ s[2] = "value" /\ s[3] = "write" /\ s[4] = "build"
        /\ s[5] = "assign" /\ s[6] = "close"
    BY DEF SS!ActivateProvider, SS!StepNames
  <2>2. SS!Steps("activate") = s
    BY DEF SS!Steps
  <2>3. Head(s) = s[1]
    BY <2>1
  <2> HIDE DEF s
  <2>4. SS!Chained(s)
    BY <2>1 DEF SS!Chained, SS!Follows
  <2>5. SS!WritesFit("activate", s)
    BY <2>1 DEF SS!WritesFit, SS!RowOps
  <2> QED BY <2>1, <2>2, <2>3, <2>4, <2>5 DEF SafeHead
<1>5. Good("authorize")
  <2> DEFINE s == SS!AuthorizeLongbridge
  <2>1. /\ Len(s) = 1 /\ s \in Seq(SS!StepNames) /\ s # <<>>
        /\ s[1] = "work"
    BY DEF SS!AuthorizeLongbridge, SS!StepNames
  <2>2. SS!Steps("authorize") = s
    BY DEF SS!Steps
  <2>3. Head(s) = s[1]
    BY <2>1
  <2> HIDE DEF s
  <2>4. SS!Chained(s)
    BY <2>1 DEF SS!Chained, SS!Follows
  <2>5. SS!WritesFit("authorize", s)
    BY <2>1 DEF SS!WritesFit, SS!RowOps
  <2> QED BY <2>1, <2>2, <2>3, <2>4, <2>5 DEF SafeHead
<1>6. Good("qualityFutu")
  <2> DEFINE s == SS!QualityFutu
  <2>1. /\ Len(s) = 4 /\ s \in Seq(SS!StepNames) /\ s # <<>>
        /\ s[1] = "reserve" /\ s[2] = "work" /\ s[3] = "value" /\ s[4] = "write"
    BY DEF SS!QualityFutu, SS!StepNames
  <2>2. SS!Steps("qualityFutu") = s
    BY DEF SS!Steps
  <2>3. Head(s) = s[1]
    BY <2>1
  <2> HIDE DEF s
  <2>4. SS!Chained(s)
    BY <2>1 DEF SS!Chained, SS!Follows
  <2>5. SS!WritesFit("qualityFutu", s)
    BY <2>1 DEF SS!WritesFit, SS!RowOps
  <2> QED BY <2>1, <2>2, <2>3, <2>4, <2>5 DEF SafeHead
<1>7. Good("qualityLongbridge")
  <2> DEFINE s == SS!QualityLongbridge
  <2>1. /\ Len(s) = 11 /\ s \in Seq(SS!StepNames) /\ s # <<>>
        /\ s[1] = "current" /\ s[2] = "reserve" /\ s[3] = "work" /\ s[4] = "value"
        /\ s[5] = "write" /\ s[6] = "readAi" /\ s[7] = "writeAi" /\ s[8] = "dropToken"
        /\ s[9] = "build" /\ s[10] = "assign" /\ s[11] = "close"
    BY DEF SS!QualityLongbridge, SS!StepNames
  <2>2. SS!Steps("qualityLongbridge") = s
    BY DEF SS!Steps
  <2>3. Head(s) = s[1]
    BY <2>1
  <2> HIDE DEF s
  <2>4. SS!Chained(s)
    BY <2>1 DEF SS!Chained, SS!Follows
  <2>5. SS!WritesFit("qualityLongbridge", s)
    BY <2>1 DEF SS!WritesFit, SS!RowOps
  <2> QED BY <2>1, <2>2, <2>3, <2>4, <2>5 DEF SafeHead
<1>8. Good("configureAi")
  <2> DEFINE s == SS!ConfigureAi
  <2>1. /\ Len(s) = 13 /\ s \in Seq(SS!StepNames) /\ s # <<>>
        /\ s[1] = "current" /\ s[2] = "reserve" /\ s[3] = "work" /\ s[4] = "value"
        /\ s[5] = "write" /\ s[6] = "readAi" /\ s[7] = "writeAi" /\ s[8] = "build"
        /\ s[9] = "assign" /\ s[10] = "close" /\ s[11] = "allow" /\ s[12] = "value"
        /\ s[13] = "start"
    BY DEF SS!ConfigureAi, SS!StepNames
  <2>2. SS!Steps("configureAi") = s
    BY DEF SS!Steps
  <2>3. Head(s) = s[1]
    BY <2>1
  <2> HIDE DEF s
  <2>4. SS!Chained(s)
    BY <2>1 DEF SS!Chained, SS!Follows
  <2>5. SS!WritesFit("configureAi", s)
    BY <2>1 DEF SS!WritesFit, SS!RowOps
  <2> QED BY <2>1, <2>2, <2>3, <2>4, <2>5 DEF SafeHead
<1>9. Good("probe")
  <2> DEFINE s == SS!ProbeOnly
  <2>1. /\ Len(s) = 1 /\ s \in Seq(SS!StepNames) /\ s # <<>>
        /\ s[1] = "work"
    BY DEF SS!ProbeOnly, SS!StepNames
  <2>2. SS!Steps("probe") = s
    BY DEF SS!Steps
  <2>3. Head(s) = s[1]
    BY <2>1
  <2> HIDE DEF s
  <2>4. SS!Chained(s)
    BY <2>1 DEF SS!Chained, SS!Follows
  <2>5. SS!WritesFit("probe", s)
    BY <2>1 DEF SS!WritesFit, SS!RowOps
  <2> QED BY <2>1, <2>2, <2>3, <2>4, <2>5 DEF SafeHead
<1> HIDE DEF Good
<1>10. \A o \in SS!SlotOps \cup SS!TaskOps : Good(o)
  BY <1>1, <1>2, <1>3, <1>4, <1>5, <1>6, <1>7, <1>8, <1>9 DEF SS!SlotOps, SS!TaskOps
<1> QED BY <1>10 DEF Good

(* So are those that are left after a step.                                 *)
LEMMA SsTail ==
    ASSUME NEW op, NEW s \in Seq(SS!StepNames), s # <<>>, SS!Chained(s), SS!WritesFit(op, s)
    PROVE  /\ Tail(s) \in Seq(SS!StepNames) /\ SS!Chained(Tail(s)) /\ SS!WritesFit(op, Tail(s))
           /\ Tail(s) # <<>> => SS!Follows(Head(s), Head(Tail(s)))
           /\ Head(s) = "write" => op \in SS!RowOps /\ (op = "qualityFutu" => Tail(s) = <<>>)
           /\ Head(s) = "erase" => op = "reset"
<1> DEFINE r == Tail(s)
<1>1. Len(s) \in Nat \ {0} /\ r \in Seq(SS!StepNames) /\ Len(r) = Len(s) - 1
      /\ (Len(s) = 1 => r = <<>>)
  <2>1. Len(s) \in Nat \ {0} /\ r \in Seq(SS!StepNames) /\ Len(r) = Len(s) - 1
    BY SequenceFacts
  <2> HIDE DEF r
  <2>2. r # <<>> => Len(r) \in Nat \ {0}
    BY <2>1, SequenceFacts
  <2> QED BY <2>1, <2>2
<1>2. \A i \in 1..Len(r) : r[i] = s[i + 1]
  OBVIOUS
<1>3. Head(s) = s[1]
  OBVIOUS
<1> HIDE DEF r
<1>4. \A i \in 1..Len(r) : i + 1 \in 1..Len(s) /\ (i + 1 = Len(s) => i = Len(r))
  BY <1>1
<1>5. SS!Chained(r)
  <2> SUFFICES ASSUME NEW i \in 2..Len(r) PROVE SS!Follows(r[i - 1], r[i])
    BY DEF SS!Chained
  <2>1. i + 1 \in 2..Len(s) /\ (i + 1) - 1 = i /\ (i - 1) + 1 = i
        /\ i \in 1..Len(r) /\ i - 1 \in 1..Len(r)
    BY <1>1
  <2>2. r[i] = s[i + 1] /\ r[i - 1] = s[i]
    BY <1>2, <2>1
  <2>3. SS!Follows(s[(i + 1) - 1], s[i + 1])
    BY <2>1 DEF SS!Chained
  <2> QED BY <2>1, <2>2, <2>3
<1>6. ASSUME r # <<>> PROVE SS!Follows(Head(s), Head(r))
  <2>1. Len(r) \in Nat \ {0} /\ Head(r) = r[1]
    BY <1>1, <1>6
  <2>2. 2 \in 2..Len(s) /\ 1 \in 1..Len(r)
    BY <1>1, <2>1
  <2>3. SS!Follows(s[2 - 1], s[2])
    BY <2>2 DEF SS!Chained
  <2>4. r[1] = s[2]
    BY <1>2, <2>2
  <2> QED BY <1>3, <2>1, <2>3, <2>4
<1>7. SS!WritesFit(op, r)
  BY <1>2, <1>4 DEF SS!WritesFit
<1>8. ASSUME Head(s) = "write" PROVE op \in SS!RowOps /\ (op = "qualityFutu" => r = <<>>)
  <2>1. 1 \in 1..Len(s)
    BY <1>1
  <2>2. op \in SS!RowOps /\ (op = "qualityFutu" => 1 = Len(s))
    BY <1>3, <1>8, <2>1 DEF SS!WritesFit
  <2> QED BY <1>1, <2>2
<1>9. ASSUME Head(s) = "erase" PROVE op = "reset"
  <2>1. 1 \in 1..Len(s)
    BY <1>1
  <2> QED BY <1>3, <1>9, <2>1 DEF SS!WritesFit
<1> QED BY <1>1, <1>5, <1>6, <1>7, <1>8, <1>9 DEF r

(* A thread that goes on, or gives up, has the steps of its operation left. *)
LEMMA SsGoes ==
    ASSUME SS!TypeOK, SS!StepsInv, NEW t \in SS!Threads, NEW to \in SS!Jobs,
           v5' = [v5 EXCEPT ![t] = to], v5[t].todo # <<>>,
           to.op = v5[t].op, to.arg = v5[t].arg,
           to.todo = Tail(v5[t].todo) \/ to.todo = <<>>
    PROVE  /\ v5' \in [SS!Threads -> SS!Jobs]
           /\ \A u \in SS!Threads : v5'[u].arg \in SS!Args(v5'[u].op)
           /\ SS!StepsInv'
           /\ v5'[t] = to /\ \A u \in SS!Threads \ {t} : v5'[u] = v5[u]
           /\ to.todo # <<>> => SS!Follows(Head(v5[t].todo), Head(to.todo))
<1>1. v5 \in [SS!Threads -> SS!Jobs] /\ v5[t] \in SS!Jobs
  BY DEF SS!TypeOK
<1>2. v5' \in [SS!Threads -> SS!Jobs] /\ v5'[t] = to
      /\ \A u \in SS!Threads \ {t} : v5'[u] = v5[u]
  BY <1>1
<1>3. \A u \in SS!Threads : v5'[u].arg \in SS!Args(v5'[u].op)
  BY <1>2 DEF SS!TypeOK
<1>4. v5[t].todo \in Seq(SS!StepNames)
  BY <1>1 DEF SS!Jobs
<1>5. SS!Chained(v5[t].todo) /\ SS!WritesFit(v5[t].op, v5[t].todo) /\ v5[t].op # SS!None
  BY DEF SS!StepsInv
<1>6. /\ SS!Chained(to.todo) /\ SS!WritesFit(to.op, to.todo)
      /\ to.todo # <<>> => SS!Follows(Head(v5[t].todo), Head(to.todo))
  <2>1. CASE to.todo = <<>>
    <3>1. Len(<<>>) = 0
      OBVIOUS
    <3>2. SS!Chained(<<>>)
      BY <3>1 DEF SS!Chained
    <3>3. SS!WritesFit(to.op, <<>>)
      BY <3>1 DEF SS!WritesFit
    <3> QED BY <2>1, <3>2, <3>3
  <2>2. CASE to.todo = Tail(v5[t].todo)
    BY <1>4, <1>5, <2>2, SsTail
  <2> QED BY <2>1, <2>2
<1>7. \A u \in SS!Threads : /\ v5'[u].op = v5[u].op
                            /\ v5'[u].op = SS!None => v5'[u].todo = <<>>
                            /\ SS!Chained(v5'[u].todo) /\ SS!WritesFit(v5'[u].op, v5'[u].todo)
  BY <1>2, <1>5, <1>6 DEF SS!StepsInv
<1>8. SS!StepsInv'
  <2>1. /\ v5'["qt"].op \in SS!SlotOps \cup {SS!None}
        /\ v5'["task"].op \in SS!TaskOps \cup {SS!None}
    BY <1>7 DEF SS!StepsInv, SS!Threads
  <2> QED BY <1>7, <2>1 DEF SS!StepsInv
<1> QED BY <1>2, <1>3, <1>6, <1>8

(* A thread at rest has nothing to do.                                      *)
LEMMA SsResting ==
    /\ SS!Resting \in SS!Jobs /\ SS!Resting.op = SS!None /\ SS!Resting.todo = <<>>
    /\ SS!Resting.arg = SS!None /\ SS!Resting.current = SS!DefaultRow
    /\ SS!DefaultRow \in SS!Rows /\ SS!DefaultRow.mode = "longbridge" /\ ~SS!DefaultRow.futu
<1>1. SS!DefaultRow \in SS!Rows /\ SS!DefaultRow.mode = "longbridge" /\ ~SS!DefaultRow.futu
  BY DEF SS!DefaultRow, SS!Rows, SS!None
<1>2. <<>> \in Seq(SS!StepNames)
  OBVIOUS
<1>3. 0 \in 0..MaxRevision /\ 0 \in 0..MaxBuilds
  BY ServicesAssumption
<1> HIDE DEF SS!DefaultRow
<1>4. SS!Resting \in SS!Jobs
  BY <1>1, <1>2, <1>3 DEF SS!Resting, SS!Jobs, SS!None
<1> QED BY <1>1, <1>4 DEF SS!Resting

(* A thread that begins has all the steps of its operation before it.       *)
LEMMA SsBegins ==
    ASSUME SS!TypeOK, SS!StepsInv, NEW t \in SS!Threads, NEW op, NEW arg \in SS!Args(op),
           op \in IF t = "qt" THEN SS!SlotOps ELSE SS!TaskOps,
           SS!Begin(t, op, arg)
    PROVE  /\ v5' \in [SS!Threads -> SS!Jobs]
           /\ \A u \in SS!Threads : v5'[u].arg \in SS!Args(v5'[u].op)
           /\ SS!StepsInv'
           /\ v5[t].op = SS!None /\ v5[t].todo = <<>>
           /\ \A u \in SS!Threads \ {t} : v5'[u] = v5[u]
           /\ v5'[t].op = op /\ v5'[t].arg = arg /\ v5'[t].current = SS!DefaultRow
           /\ v5'[t].todo # <<>> /\ SafeHead(Head(v5'[t].todo))
<1> DEFINE todo == SS!Steps(op)
           to == [SS!Resting EXCEPT !.op = op, !.arg = arg, !.todo = todo]
<1>1. op \in SS!SlotOps \cup SS!TaskOps
  OBVIOUS
<1>2. /\ todo \in Seq(SS!StepNames) /\ todo # <<>> /\ SafeHead(Head(todo))
      /\ SS!Chained(todo) /\ SS!WritesFit(op, todo)
  BY <1>1, SsSteps
<1>3. arg \in Clients \cup Models \cup {SS!None, "longbridge", "futu"}
  BY DEF SS!Args
<1>4. v5' = [v5 EXCEPT ![t] = to] /\ v5[t].op = SS!None
  BY DEF SS!Begin
<1> HIDE DEF todo
<1>5. /\ to \in SS!Jobs /\ to.op = op /\ to.arg = arg /\ to.todo = todo
      /\ to.current = SS!DefaultRow
  BY <1>1, <1>2, <1>3, SsResting DEF SS!Jobs
<1> HIDE DEF to
<1>6. v5 \in [SS!Threads -> SS!Jobs]
  BY DEF SS!TypeOK
<1>7. v5' \in [SS!Threads -> SS!Jobs] /\ v5'[t] = to
      /\ \A u \in SS!Threads \ {t} : v5'[u] = v5[u]
  BY <1>4, <1>5, <1>6
<1>8. \A u \in SS!Threads : v5'[u].arg \in SS!Args(v5'[u].op)
  BY <1>5, <1>7 DEF SS!TypeOK
<1>9. op # SS!None
  BY <1>1 DEF SS!SlotOps, SS!TaskOps, SS!None
<1>10. \A u \in SS!Threads : /\ v5'[u].op = SS!None => v5'[u].todo = <<>>
                             /\ SS!Chained(v5'[u].todo) /\ SS!WritesFit(v5'[u].op, v5'[u].todo)
  <2>1. ASSUME NEW u \in SS!Threads, u = t
        PROVE  /\ v5'[u].op = SS!None => v5'[u].todo = <<>>
               /\ SS!Chained(v5'[u].todo) /\ SS!WritesFit(v5'[u].op, v5'[u].todo)
    BY <1>2, <1>5, <1>7, <1>9, <2>1
  <2>2. ASSUME NEW u \in SS!Threads, u # t
        PROVE  /\ v5'[u].op = SS!None => v5'[u].todo = <<>>
               /\ SS!Chained(v5'[u].todo) /\ SS!WritesFit(v5'[u].op, v5'[u].todo)
    BY <1>7, <2>2 DEF SS!StepsInv
  <2> QED BY <2>1, <2>2
<1>11. SS!StepsInv'
  <2>1. /\ v5'["qt"].op \in SS!SlotOps \cup {SS!None}
        /\ v5'["task"].op \in SS!TaskOps \cup {SS!None}
    BY <1>5, <1>7 DEF SS!StepsInv, SS!Threads
  <2> QED BY <1>10, <2>1 DEF SS!StepsInv
<1>12. v5[t].todo = <<>>
  BY <1>4 DEF SS!StepsInv
<1> QED BY <1>2, <1>4, <1>5, <1>7, <1>8, <1>11, <1>12

(* A thread that rests keeps the invariant of the steps.                    *)
LEMMA SsRests ==
    ASSUME SS!TypeOK, SS!StepsInv, NEW t \in SS!Threads,
           v5' = [v5 EXCEPT ![t] = SS!Resting]
    PROVE  /\ v5' \in [SS!Threads -> SS!Jobs]
           /\ \A u \in SS!Threads : v5'[u].arg \in SS!Args(v5'[u].op)
           /\ SS!StepsInv'
           /\ v5'[t] = SS!Resting /\ \A u \in SS!Threads \ {t} : v5'[u] = v5[u]
<1>1. v5' \in [SS!Threads -> SS!Jobs] /\ v5'[t] = SS!Resting
      /\ \A u \in SS!Threads \ {t} : v5'[u] = v5[u]
  BY SsResting DEF SS!TypeOK
<1>2. SS!None \in SS!Args(SS!None)
  BY DEF SS!Args, SS!None
<1>3. \A u \in SS!Threads : v5'[u].arg \in SS!Args(v5'[u].op)
  BY <1>1, <1>2, SsResting DEF SS!TypeOK
<1>4. Len(<<>>) = 0
  OBVIOUS
<1>5. SS!Chained(<<>>) /\ SS!WritesFit(SS!None, <<>>)
  BY <1>4 DEF SS!Chained, SS!WritesFit
<1>6. \A u \in SS!Threads : /\ v5'[u].op = SS!None => v5'[u].todo = <<>>
                            /\ SS!Chained(v5'[u].todo) /\ SS!WritesFit(v5'[u].op, v5'[u].todo)
  BY <1>1, <1>5, SsResting DEF SS!StepsInv
<1>7. SS!StepsInv'
  <2>1. /\ v5'["qt"].op \in SS!SlotOps \cup {SS!None}
        /\ v5'["task"].op \in SS!TaskOps \cup {SS!None}
    BY <1>1, SsResting DEF SS!StepsInv, SS!Threads
  <2> QED BY <1>6, <2>1 DEF SS!StepsInv
<1> QED BY <1>1, <1>3, <1>7

(* The settings begin with their invariant.                                 *)
LEMMA SsInit == SS!Init => SS!PartInv
<1> SUFFICES ASSUME SS!Init PROVE SS!PartInv
  OBVIOUS
<1>1. v1 \in SS!Rows /\ v1.mode = "longbridge" /\ v3 \subseteq Clients /\ v5 \in [SS!Threads -> SS!Jobs]
      /\ \A t \in SS!Threads : v5[t] = SS!Resting
  BY SsResting DEF SS!Init
<1>2. v2 \in [rev : 0..MaxRevision, model : Models \cup {SS!None}]
  BY ServicesAssumption DEF SS!Init, SS!NoAi
<1>3. /\ v4 \in [used : 1..MaxBuilds, open : SUBSET (1..MaxBuilds), made : 1..MaxBuilds]
      /\ v4.used = 1 /\ v4.open = {1} /\ v4.made = 1
  <2>1. 1 \in 1..MaxBuilds
    BY ServicesAssumption
  <2> QED BY <2>1 DEF SS!Init
<1>4. /\ v6 \in [provider : {"longbridge", "futu"}, checks : {"pending", "checking", "passed", "failed"},
                 pending : Clients \cup {SS!None}, reset : BOOLEAN, erasedUnder : BOOLEAN,
                 stuck : BOOLEAN]
  BY DEF SS!Init, SS!CleanPage
<1>5. SS!None \in SS!Args(SS!None)
  BY DEF SS!Args, SS!None
<1>6. SS!TypeOK
  BY <1>1, <1>2, <1>3, <1>4, <1>5, SsResting DEF SS!TypeOK
<1>7. Len(<<>>) = 0
  OBVIOUS
<1>8. SS!Chained(<<>>) /\ SS!WritesFit(SS!None, <<>>)
  BY <1>7 DEF SS!Chained, SS!WritesFit
<1>9. SS!StepsInv
  BY <1>1, <1>8, SsResting DEF SS!StepsInv, SS!Threads
<1>10. \A t \in SS!Threads : \A step : ~SS!At(t, step)
  BY <1>1, SsResting DEF SS!At
<1>11. SS!AdaptersInv /\ SS!UsedIsOpen
  BY <1>3, <1>10 DEF SS!AdaptersInv, SS!UsedIsOpen
<1>12. SS!RowInv /\ SS!ActiveIsChecked
  <2>1. \A t \in SS!Threads : ~SS!Writes(t)
    BY <1>10 DEF SS!Writes
  <2>2. v5["task"].op = SS!None
    BY <1>1, SsResting DEF SS!Threads
  <2> QED BY <1>1, <2>1, <2>2, SsResting DEF SS!RowInv, SS!ActiveIsChecked, SS!Threads, SS!None
<1> QED BY <1>6, <1>9, <1>11, <1>12 DEF SS!PartInv

(* A slot leaves the rows and the adapters alone; it starts an operation or *)
(* ends one, and touches the task only while no slot runs.                  *)
SlotMove ==
    \/ v5' = v5
    \/ \E t \in SS!Threads, op \in SS!SlotOps \cup SS!TaskOps : \E arg \in SS!Args(op) :
          /\ op \in IF t = "qt" THEN SS!SlotOps ELSE SS!TaskOps
          /\ SS!Begin(t, op, arg)
          /\ t = "task" => v5["qt"].op = SS!None
          /\ op = "activate" /\ arg = "futu" => v1.futu
    \/ \E t \in SS!Threads :
          /\ v5' = [v5 EXCEPT ![t] = SS!Resting]
          /\ t = "task" => v5["qt"].op = SS!None

Pages == [provider : {"longbridge", "futu"}, checks : {"pending", "checking", "passed", "failed"},
          pending : Clients \cup {SS!None}, reset : BOOLEAN, erasedUnder : BOOLEAN, stuck : BOOLEAN]

(* A thread that begins makes a move of the slots.                          *)
LEMMA SsBeginMoves ==
    ASSUME NEW t \in SS!Threads, NEW op, NEW arg \in SS!Args(op),
           op \in IF t = "qt" THEN SS!SlotOps ELSE SS!TaskOps,
           SS!Begin(t, op, arg),
           t = "task" => v5["qt"].op = SS!None,
           op = "activate" /\ arg = "futu" => v1.futu
    PROVE  SlotMove
<1>1. op \in SS!SlotOps \cup SS!TaskOps
  OBVIOUS
<1> QED BY <1>1, Zenon DEF SlotMove

(* What the slots of the page do changes only threads and the page.         *)
LEMMA SsSlotMoves ==
    ASSUME SS!PartInv, SS!SlotNext
    PROVE  /\ UNCHANGED <<v1, v2, v3, v4>> /\ SlotMove
           /\ v6' \in Pages /\ v6'.erasedUnder = v6.erasedUnder
<1> USE DEF SS!Slot, SS!Busy
<1>1. v6 \in Pages /\ v1 \in SS!Rows /\ v5 \in [SS!Threads -> SS!Jobs]
      /\ \A t \in SS!Threads : v5[t].arg \in SS!Args(v5[t].op)
  BY DEF SS!PartInv, SS!TypeOK, Pages
<1>2. UNCHANGED <<v1, v2, v3, v4>>
  BY DEF SS!SlotNext
<1>3. "qt" \in SS!Threads /\ "task" \in SS!Threads /\ "task" # "qt"
  BY DEF SS!Threads
<1>4. CASE SS!SaveAi \/ SS!SelectAiModel \/ SS!SaveNetwork \/ SS!SetDeveloperMode
  <2>1. PICK m \in Models \cup {SS!None} : SS!Begin("qt", "save", m) /\ v6' = v6
    BY <1>4 DEF SS!SaveAi, SS!SelectAiModel, SS!SaveNetwork, SS!SetDeveloperMode
  <2>2. m \in SS!Args("save") /\ "save" \in SS!SlotOps
    BY DEF SS!Args, SS!SlotOps
  <2>3. SlotMove
    BY <1>3, <2>1, <2>2, SsBeginMoves
  <2> QED BY <1>1, <1>2, <2>1, <2>3
<1>5. CASE SS!CompleteFirstRun \/ SS!ConfirmReset
  <2>1. PICK op \in {"completeFirstRun", "reset"} : SS!Begin("qt", op, SS!None) /\ v6' = v6
    BY <1>5 DEF SS!CompleteFirstRun, SS!ConfirmReset
  <2>2. SS!None \in SS!Args(op) /\ op \in SS!SlotOps
    BY DEF SS!Args, SS!SlotOps
  <2>3. SlotMove
    BY <1>3, <2>1, <2>2, SsBeginMoves
  <2> QED BY <1>1, <1>2, <2>1, <2>3
<1>6. CASE SS!RequestReset \/ SS!CancelReset
  <2>1. v5' = v5 /\ (v6' = [v6 EXCEPT !.reset = TRUE] \/ v6' = [v6 EXCEPT !.reset = FALSE])
    BY <1>6 DEF SS!RequestReset, SS!CancelReset
  <2>2. v6' \in Pages /\ v6'.erasedUnder = v6.erasedUnder
    BY <1>1, <2>1 DEF Pages
  <2> QED BY <1>2, <2>1, <2>2 DEF SlotMove
<1>7. ASSUME NEW p \in {"longbridge", "futu"}, SS!SelectProvider(p)
      PROVE  SlotMove /\ v6' \in Pages /\ v6'.erasedUnder = v6.erasedUnder
  <2>1. PICK c \in {"passed", "pending"} :
           v5' = v5 /\ v6' = [v6 EXCEPT !.provider = p, !.checks = c]
    BY <1>7 DEF SS!SelectProvider
  <2>2. v6' \in Pages /\ v6'.erasedUnder = v6.erasedUnder
    BY <1>1, <2>1 DEF Pages
  <2> QED BY <2>1, <2>2 DEF SlotMove
<1>8. CASE SS!AuthorizeProvider
  <2>1. PICK c \in Clients : SS!Begin("task", "authorize", c) /\ v6' = v6 /\ v5["qt"].op = SS!None
    BY <1>8 DEF SS!AuthorizeProvider
  <2>2. c \in SS!Args("authorize") /\ "authorize" \in SS!TaskOps
    BY DEF SS!Args, SS!TaskOps
  <2>3. SlotMove
    BY <1>3, <2>1, <2>2, SsBeginMoves
  <2> QED BY <1>1, <1>2, <2>1, <2>3
<1>9. CASE SS!QualityProvider
  <2>1. PICK op \in {"qualityFutu", "qualityLongbridge"}, arg \in Clients \cup {SS!None} :
           /\ SS!Begin("task", op, arg) /\ v6' = [v6 EXCEPT !.checks = "checking"]
           /\ v5["qt"].op = SS!None /\ (op = "qualityFutu" => arg = SS!None)
    <3>1. v6.pending \in Clients \cup {SS!None} /\ v1.client \in Clients \cup {SS!None}
      BY <1>1 DEF Pages, SS!Rows
    <3> QED BY <1>9, <3>1 DEF SS!QualityProvider
  <2>2. arg \in SS!Args(op) /\ op \in SS!TaskOps
    BY <2>1 DEF SS!Args, SS!TaskOps
  <2>3. SlotMove
    BY <1>3, <2>1, <2>2, SsBeginMoves
  <2>4. v6' \in Pages /\ v6'.erasedUnder = v6.erasedUnder
    BY <1>1, <2>1 DEF Pages
  <2> QED BY <1>2, <2>3, <2>4
<1>10. CASE SS!ActivateSelectedProvider
  <2>1. /\ SS!Begin("task", "activate", v6.provider) /\ v6' = v6 /\ v5["qt"].op = SS!None
        /\ v6.provider = "futu" => v1.futu
    BY <1>10 DEF SS!ActivateSelectedProvider
  <2>2. v6.provider \in SS!Args("activate") /\ "activate" \in SS!TaskOps
    BY <1>1 DEF SS!Args, SS!TaskOps, Pages
  <2>3. PICK arg \in SS!Args("activate") : arg = v6.provider
    BY <2>2
  <2>4. SlotMove
    BY <1>3, <2>1, <2>2, <2>3, SsBeginMoves
  <2> QED BY <1>1, <1>2, <2>1, <2>4
<1>11. CASE SS!AutoConfigureAi
  <2>1. PICK m \in Models : SS!Begin("task", "configureAi", m) /\ v6' = v6 /\ v5["qt"].op = SS!None
    BY <1>11 DEF SS!AutoConfigureAi
  <2>2. m \in SS!Args("configureAi") /\ "configureAi" \in SS!TaskOps
    BY DEF SS!Args, SS!TaskOps
  <2>3. SlotMove
    BY <1>3, <2>1, <2>2, SsBeginMoves
  <2> QED BY <1>1, <1>2, <2>1, <2>3
<1>12. CASE SS!QualityYahoo
  <2>1. SS!Begin("task", "probe", SS!None) /\ v6' = v6 /\ v5["qt"].op = SS!None
    BY <1>12 DEF SS!QualityYahoo
  <2>2. SS!None \in SS!Args("probe") /\ "probe" \in SS!TaskOps
    BY DEF SS!Args, SS!TaskOps
  <2>3. SlotMove
    BY <1>3, <2>1, <2>2, SsBeginMoves
  <2> QED BY <1>1, <1>2, <2>1, <2>3
<1>13. ASSUME NEW ops, SS!Returned(ops) PROVE SlotMove
  BY <1>3, <1>13 DEF SS!Returned, SlotMove
<1>14. CASE SS!ProviderFinished
  <2>1. v6' = [v6 EXCEPT !.pending = SS!None, !.checks = "passed"]
        \/ v6' = [v6 EXCEPT !.checks = "failed"]
    BY <1>14 DEF SS!ProviderFinished
  <2>2. v6' \in Pages /\ v6'.erasedUnder = v6.erasedUnder
    BY <1>1, <2>1 DEF Pages
  <2> QED BY <1>2, <1>13, <1>14, <2>2 DEF SS!ProviderFinished
<1>15. CASE SS!AuthorizationFinished
  <2>1. v5["task"].op = "authorize" /\ v5["task"].arg \in Clients
    BY <1>1, <1>3, <1>15 DEF SS!AuthorizationFinished, SS!Returned, SS!Args
  <2>2. v6' = [v6 EXCEPT !.pending = v5["task"].arg] \/ v6' = v6
    BY <1>15 DEF SS!AuthorizationFinished
  <2>3. v6' \in Pages /\ v6'.erasedUnder = v6.erasedUnder
    BY <1>1, <2>1, <2>2 DEF Pages
  <2> QED BY <1>2, <1>13, <1>15, <2>3 DEF SS!AuthorizationFinished
<1>16. CASE SS!ProviderActivationFinished \/ SS!AiSetupFinished \/ SS!ProbeFinished
  BY <1>1, <1>2, <1>13, <1>16
  DEF SS!ProviderActivationFinished, SS!AiSetupFinished, SS!ProbeFinished
<1>17. CASE SS!SlotReturns
  <2>1. v6' = [SS!CleanPage EXCEPT !.erasedUnder = v6.erasedUnder, !.stuck = v6.stuck] \/ v6' = v6
    BY <1>17 DEF SS!SlotReturns
  <2>2. SS!CleanPage \in Pages
    BY DEF SS!CleanPage, Pages
  <2>3. v6' \in Pages /\ v6'.erasedUnder = v6.erasedUnder
    BY <1>1, <2>1, <2>2 DEF Pages
  <2>4. SlotMove
    BY <1>3, <1>17 DEF SS!SlotReturns, SlotMove
  <2> QED BY <1>2, <2>3, <2>4
<1> QED
  BY <1>2, <1>4, <1>5, <1>6, <1>7, <1>8, <1>9, <1>10, <1>11, <1>12, <1>14, <1>15, <1>16, <1>17
  DEF SS!SlotNext

(* What a slot leaves of the threads, whatever it starts or ends.           *)
SlotKept ==
    /\ \A u \in SS!Threads, step \in {"write", "start", "assign", "close"} :
          v5'[u].todo # <<>> /\ Head(v5'[u].todo) = step => v5'[u] = v5[u]
    /\ \A u \in SS!Threads : \/ v5'[u].op = v5[u].op /\ v5'[u].current = v5[u].current
                             \/ v5'[u].current = SS!DefaultRow
    /\ v5'["task"].op = "activate" /\ v5'["task"].arg = "futu" =>
          v1.futu \/ v5'["task"] = v5["task"]
    /\ v5'["task"] = v5["task"] \/ v5["qt"].op = SS!None

(* The moves of the slots keep the invariant of the steps.                  *)
LEMMA SsSlotThreads ==
    ASSUME SS!TypeOK, SS!StepsInv, SlotMove
    PROVE  /\ v5' \in [SS!Threads -> SS!Jobs]
           /\ \A u \in SS!Threads : v5'[u].arg \in SS!Args(v5'[u].op)
           /\ SS!StepsInv' /\ SlotKept
<1> DEFINE Goal == /\ v5' \in [SS!Threads -> SS!Jobs]
                   /\ \A u \in SS!Threads : v5'[u].arg \in SS!Args(v5'[u].op)
                   /\ SS!StepsInv' /\ SlotKept
<1> SUFFICES Goal
  OBVIOUS
<1>0. "qt" \in SS!Threads /\ "task" \in SS!Threads /\ "task" # "qt"
      /\ \A t \in SS!Threads : t \in {"qt", "task"}
  BY DEF SS!Threads
<1>1. CASE v5' = v5
  <2>1. SS!StepsInv'
    BY <1>1 DEF SS!StepsInv
  <2> QED BY <1>1, <2>1 DEF SS!TypeOK, SlotKept
<1>2. ASSUME NEW t \in SS!Threads, NEW op \in SS!SlotOps \cup SS!TaskOps, NEW arg \in SS!Args(op),
             op \in IF t = "qt" THEN SS!SlotOps ELSE SS!TaskOps,
             SS!Begin(t, op, arg), t = "task" => v5["qt"].op = SS!None,
             op = "activate" /\ arg = "futu" => v1.futu
      PROVE  Goal
  <2>1. /\ v5' \in [SS!Threads -> SS!Jobs]
        /\ \A u \in SS!Threads : v5'[u].arg \in SS!Args(v5'[u].op)
        /\ SS!StepsInv'
        /\ \A u \in SS!Threads \ {t} : v5'[u] = v5[u]
        /\ v5'[t].op = op /\ v5'[t].arg = arg /\ v5'[t].current = SS!DefaultRow
        /\ v5'[t].todo # <<>> /\ SafeHead(Head(v5'[t].todo))
    BY <1>2, SsBegins
  <2>2. SlotKept
    BY <1>0, <1>2, <2>1 DEF SlotKept, SafeHead
  <2> QED BY <2>1, <2>2
<1>3. ASSUME NEW t \in SS!Threads, v5' = [v5 EXCEPT ![t] = SS!Resting],
             t = "task" => v5["qt"].op = SS!None
      PROVE  Goal
  <2>1. /\ v5' \in [SS!Threads -> SS!Jobs]
        /\ \A u \in SS!Threads : v5'[u].arg \in SS!Args(v5'[u].op)
        /\ SS!StepsInv'
        /\ v5'[t] = SS!Resting /\ \A u \in SS!Threads \ {t} : v5'[u] = v5[u]
    BY <1>3, SsRests
  <2>2. v5'[t].current = SS!DefaultRow /\ v5'[t].todo = <<>> /\ v5'[t].op = SS!None
    BY <2>1, SsResting
  <2>3. SlotKept
    BY <1>0, <1>3, <2>1, <2>2 DEF SlotKept, SS!None
  <2> QED BY <2>1, <2>3
<1> HIDE DEF Goal
<1> QED BY <1>1, <1>2, <1>3, Zenon DEF SlotMove

(* The slots of the page keep the invariant (settings_bridge.py).           *)
LEMMA SsSlotKeeps == ASSUME SS!PartInv, SS!SlotNext PROVE SS!PartInv'
<1>1. /\ UNCHANGED <<v1, v2, v3, v4>> /\ SlotMove
      /\ v6' \in Pages /\ v6'.erasedUnder = v6.erasedUnder
  BY SsSlotMoves
<1>2. SS!TypeOK /\ SS!StepsInv
  BY DEF SS!PartInv
<1>3. /\ v5' \in [SS!Threads -> SS!Jobs]
      /\ \A u \in SS!Threads : v5'[u].arg \in SS!Args(v5'[u].op)
      /\ SS!StepsInv' /\ SlotKept
  BY <1>1, <1>2, SsSlotThreads
<1>4. SS!TypeOK'
  BY <1>1, <1>2, <1>3 DEF SS!TypeOK, Pages
<1>5. \A u \in SS!Threads, step \in {"write", "start", "assign", "close"} :
         v5'[u].todo # <<>> /\ Head(v5'[u].todo) = step => v5'[u] = v5[u]
  BY <1>3 DEF SlotKept
<1>6. SS!AdaptersInv' /\ SS!UsedIsOpen'
  BY <1>1, <1>5 DEF SS!PartInv, SS!AdaptersInv, SS!UsedIsOpen, SS!At
<1>7. SS!RowInv'
  <2> SUFFICES ASSUME ~v6.erasedUnder
               PROVE  SS!RowInv'
    BY <1>1 DEF SS!RowInv
  <2>1. \A u \in SS!Threads : SS!Writes(u)' => SS!Writes(u) /\ v5'[u] = v5[u]
    BY <1>5 DEF SS!Writes, SS!At
  <2>2. "qt" \in SS!Threads /\ "task" \in SS!Threads
    BY DEF SS!Threads
  <2>3. SS!Writes("task")' => v5'["task"].value.futu = v1.futu
    BY <2>1, <2>2 DEF SS!PartInv, SS!RowInv
  <2>4. SS!Writes("qt")' => v5'["qt"].value.futu = v1.futu \/ SS!Lagging'
    <3> SUFFICES ASSUME SS!Writes("qt")' PROVE v5'["qt"].value.futu = v1.futu \/ SS!Lagging'
      OBVIOUS
    <3>1. SS!Writes("qt") /\ v5'["qt"] = v5["qt"]
      BY <2>1, <2>2
    <3>2. v5["qt"].op # SS!None
      BY <2>2, <3>1 DEF SS!PartInv, SS!StepsInv, SS!Writes, SS!At
    <3>3. v5'["task"] = v5["task"]
      BY <1>3, <3>2 DEF SlotKept
    <3>4. v5["qt"].value.futu = v1.futu \/ SS!Lagging
      BY <3>1 DEF SS!PartInv, SS!RowInv
    <3> QED BY <1>1, <3>1, <3>3, <3>4 DEF SS!Lagging
  <2>5. \A t \in SS!Threads :
           /\ SS!Writes(t)' /\ v5'[t].value.mode = "futu" => v5'[t].value.futu
           /\ v5'[t].op \in {"save", "configureAi"} /\ v5'[t].current.mode = "futu" =>
                 v1.futu /\ (SS!Writes(t)' => v5'[t].value.futu)
    <3> TAKE t \in SS!Threads
    <3>1. SS!Writes(t)' /\ v5'[t].value.mode = "futu" => v5'[t].value.futu
      BY <2>1 DEF SS!PartInv, SS!RowInv
    <3>2. ASSUME v5'[t].op \in {"save", "configureAi"}, v5'[t].current.mode = "futu"
          PROVE  v1.futu /\ (SS!Writes(t)' => v5'[t].value.futu)
      <4>1. v5'[t].current # SS!DefaultRow
        BY <3>2, SsResting
      <4>2. v5'[t].op = v5[t].op /\ v5'[t].current = v5[t].current
        BY <1>3, <4>1 DEF SlotKept
      <4> QED BY <2>1, <3>2, <4>2 DEF SS!PartInv, SS!RowInv
    <3> QED BY <3>1, <3>2
  <2>6. v5'["task"].op = "activate" /\ v5'["task"].arg = "futu" => v1.futu
    BY <1>3 DEF SS!PartInv, SS!RowInv, SlotKept
  <2> QED BY <1>1, <2>3, <2>4, <2>5, <2>6 DEF SS!RowInv
<1>8. SS!ActiveIsChecked'
  BY <1>1 DEF SS!PartInv, SS!ActiveIsChecked
<1> QED BY <1>3, <1>4, <1>6, <1>7, <1>8 DEF SS!PartInv

(* A step of a thread: what is left to do shrinks, the operation stays.     *)
Moved(t, to) ==
    /\ v5' = [v5 EXCEPT ![t] = to] /\ v5[t].todo # <<>>
    /\ to.op = v5[t].op /\ to.arg = v5[t].arg
    /\ to.todo = Tail(v5[t].todo) \/ to.todo = <<>>

RestTyped ==
    /\ v1' \in SS!Rows /\ v2' \in [rev : 0..MaxRevision, model : Models \cup {SS!None}]
    /\ v3' \subseteq Clients

(* What a thread carries to its next step.                                  *)
LEMMA SsWent ==
    ASSUME SS!PartInv, NEW t \in SS!Threads, v5[t].todo # <<>>
    PROVE  /\ v5[t] \in SS!Jobs /\ v5[t].arg \in SS!Args(v5[t].op)
           /\ v5[t].todo \in Seq(SS!StepNames)
           /\ SS!Went(t) \in SS!Jobs /\ SS!Went(t).op = v5[t].op /\ SS!Went(t).arg = v5[t].arg
           /\ SS!Went(t).todo = Tail(v5[t].todo) /\ SS!Went(t).current = v5[t].current
           /\ SS!Went(t).value = v5[t].value /\ SS!Went(t).built = v5[t].built
           /\ SS!Went(t).previous = v5[t].previous /\ SS!Went(t).reserved = v5[t].reserved
<1>1. v5[t] \in SS!Jobs /\ v5[t].arg \in SS!Args(v5[t].op)
  BY DEF SS!PartInv, SS!TypeOK
<1>2. v5[t].todo \in Seq(SS!StepNames)
  BY <1>1 DEF SS!Jobs
<1>3. Tail(v5[t].todo) \in Seq(SS!StepNames)
  BY <1>2, SsTail, SequenceFacts
<1> DEFINE tail == Tail(v5[t].todo)
<1> HIDE DEF tail
<1>4. SS!Went(t) = [v5[t] EXCEPT !.todo = tail]
  BY DEF SS!Went, tail
<1>5. tail \in Seq(SS!StepNames)
  BY <1>3 DEF tail
<1>6. [v5[t] EXCEPT !.todo = tail] \in SS!Jobs
  BY <1>1, <1>5 DEF SS!Jobs
<1>7. /\ [v5[t] EXCEPT !.todo = tail].op = v5[t].op /\ [v5[t] EXCEPT !.todo = tail].arg = v5[t].arg
      /\ [v5[t] EXCEPT !.todo = tail].todo = tail
      /\ [v5[t] EXCEPT !.todo = tail].current = v5[t].current
      /\ [v5[t] EXCEPT !.todo = tail].value = v5[t].value
      /\ [v5[t] EXCEPT !.todo = tail].built = v5[t].built
      /\ [v5[t] EXCEPT !.todo = tail].previous = v5[t].previous
      /\ [v5[t] EXCEPT !.todo = tail].reserved = v5[t].reserved
  BY <1>1 DEF SS!Jobs
<1> QED BY <1>1, <1>2, <1>4, <1>6, <1>7 DEF tail

(* A thread that fails gives its steps up.                                  *)
LEMMA SsFailed ==
    ASSUME SS!PartInv, NEW t \in SS!Threads, v5[t].todo # <<>>, SS!Fails(t)
    PROVE  \E to \in SS!Jobs : Moved(t, to) /\ to.todo = <<>> /\ to.current = v5[t].current
<1> DEFINE to == [v5[t] EXCEPT !.todo = <<>>, !.ok = FALSE, !.reserved = FALSE]
<1>1. v5[t] \in SS!Jobs
  BY SsWent
<1>2. <<>> \in Seq(SS!StepNames)
  OBVIOUS
<1>3. /\ to \in SS!Jobs /\ to.op = v5[t].op /\ to.arg = v5[t].arg /\ to.todo = <<>>
      /\ to.current = v5[t].current
  BY <1>1, <1>2 DEF SS!Jobs
<1>4. v5' = [v5 EXCEPT ![t] = to]
  BY DEF SS!Fails, SS!Goes
<1> HIDE DEF to
<1> QED BY <1>3, <1>4 DEF Moved

(* The steps that write neither the settings row nor the adapters.          *)
Quiet(t, to) ==
    /\ Moved(t, to) /\ RestTyped /\ v1' = v1 /\ v4' = v4
    /\ Head(v5[t].todo) \notin {"build", "assign", "close"}
    /\ to.current \in {v5[t].current, v1, SS!DefaultRow}
    /\ Head(v5[t].todo) = "value" /\ to.todo # <<>> => to.value = v1

(* The steps that leave the settings and the adapters alone.                *)
LEMMA SsQuietSteps ==
    ASSUME SS!PartInv, NEW t \in SS!Threads,
           \/ SS!ReadCurrent(t) \/ SS!Reserve(t) \/ SS!WorkFails(t) \/ SS!WorkPasses(t)
           \/ SS!Allow(t) \/ SS!ReadValue(t) \/ SS!ReadAi(t) \/ SS!WriteAi(t) \/ SS!DropToken(t)
           \/ SS!RefuseWhileActive(t)
    PROVE  \E to \in SS!Jobs : Quiet(t, to)
<1> DEFINE w == SS!Went(t)
<1>1. v1 \in SS!Rows /\ v2 \in [rev : 0..MaxRevision, model : Models \cup {SS!None}]
      /\ v3 \subseteq Clients
  BY DEF SS!PartInv, SS!TypeOK
<1>2. v5[t].todo # <<>>
  BY DEF SS!ReadCurrent, SS!Reserve, SS!WorkFails, SS!WorkPasses, SS!Allow, SS!ReadValue, SS!ReadAi,
         SS!WriteAi, SS!DropToken, SS!RefuseWhileActive, SS!At
<1>3. /\ w \in SS!Jobs /\ w.op = v5[t].op /\ w.arg = v5[t].arg /\ w.todo = Tail(v5[t].todo)
      /\ w.current = v5[t].current /\ v5[t].arg \in SS!Args(v5[t].op)
  BY <1>2, SsWent
<1> HIDE DEF w
<1>4. RestTyped <=> /\ v1' \in SS!Rows /\ v3' \subseteq Clients
                  /\ v2' \in [rev : 0..MaxRevision, model : Models \cup {SS!None}]
  BY DEF RestTyped
<1>5. CASE SS!ReadCurrent(t)
  <2> DEFINE to == [w EXCEPT !.current = v1, !.model = v2.model]
  <2>1. /\ v5' = [v5 EXCEPT ![t] = to] /\ UNCHANGED <<v1, v2, v3, v4>>
        /\ Head(v5[t].todo) = "current"
    BY <1>5 DEF SS!ReadCurrent, SS!Goes, SS!At, w
  <2>2. /\ to \in SS!Jobs /\ to.op = w.op /\ to.arg = w.arg /\ to.todo = w.todo /\ to.current = v1
    BY <1>1, <1>3 DEF SS!Jobs
  <2> HIDE DEF to
  <2> QED BY <1>1, <1>2, <1>3, <1>4, <2>1, <2>2 DEF Quiet, Moved
<1>6. CASE SS!Reserve(t)
  <2>1. PICK seen \in BOOLEAN : SS!Goes(t, [w EXCEPT !.reserved = seen])
    BY <1>6 DEF SS!Reserve, w
  <2> DEFINE to == [w EXCEPT !.reserved = seen]
  <2>2. /\ v5' = [v5 EXCEPT ![t] = to] /\ UNCHANGED <<v1, v2, v3, v4>>
        /\ Head(v5[t].todo) = "reserve"
    BY <1>6, <2>1 DEF SS!Reserve, SS!Goes, SS!At
  <2>3. /\ to \in SS!Jobs /\ to.op = w.op /\ to.arg = w.arg /\ to.todo = w.todo
        /\ to.current = w.current
    BY <1>3 DEF SS!Jobs
  <2> HIDE DEF to
  <2> QED BY <1>1, <1>2, <1>3, <1>4, <2>2, <2>3 DEF Quiet, Moved
<1>7. CASE SS!WorkFails(t)
  <2>1. SS!Fails(t) /\ UNCHANGED <<v1, v2, v4>> /\ Head(v5[t].todo) = "work" /\ v3' \subseteq v3
    BY <1>7 DEF SS!WorkFails, SS!At
  <2>2. PICK to \in SS!Jobs : Moved(t, to) /\ to.todo = <<>> /\ to.current = v5[t].current
    BY <1>2, <2>1, SsFailed
  <2> QED BY <1>1, <1>4, <2>1, <2>2 DEF Quiet
<1>8. CASE SS!WorkPasses(t)
  <2>1. /\ v5' = [v5 EXCEPT ![t] = w] /\ UNCHANGED <<v1, v2, v4>> /\ Head(v5[t].todo) = "work"
    BY <1>8 DEF SS!WorkPasses, SS!Goes, SS!At, w
  <2>2. v3' \subseteq Clients
    <3>1. v5[t].op = "authorize" => v5[t].arg \in Clients
      BY <1>3 DEF SS!Args
    <3> QED BY <1>1, <1>8, <3>1 DEF SS!WorkPasses
  <2> QED BY <1>1, <1>2, <1>3, <1>4, <2>1, <2>2 DEF Quiet, Moved
<1>9. CASE SS!Allow(t)
  <2>1. /\ UNCHANGED <<v1, v2, v3, v4>> /\ Head(v5[t].todo) = "allow"
        /\ SS!Goes(t, w) \/ SS!Fails(t)
    BY <1>9 DEF SS!Allow, SS!At, w
  <2>2. CASE SS!Goes(t, w)
    BY <1>1, <1>2, <1>3, <1>4, <2>1, <2>2 DEF Quiet, Moved, SS!Goes
  <2>3. CASE SS!Fails(t)
    <3>1. PICK to \in SS!Jobs : Moved(t, to) /\ to.todo = <<>> /\ to.current = v5[t].current
      BY <1>2, <2>3, SsFailed
    <3> QED BY <1>1, <1>4, <2>1, <3>1 DEF Quiet
  <2> QED BY <2>1, <2>2, <2>3
<1>10. CASE SS!ReadValue(t)
  <2> DEFINE to == [w EXCEPT !.value = v1]
  <2>1. /\ v5' = [v5 EXCEPT ![t] = to] /\ UNCHANGED <<v1, v2, v3, v4>> /\ Head(v5[t].todo) = "value"
    BY <1>10 DEF SS!ReadValue, SS!Goes, SS!At, w
  <2>2. /\ to \in SS!Jobs /\ to.op = w.op /\ to.arg = w.arg /\ to.todo = w.todo
        /\ to.current = w.current /\ to.value = v1
    BY <1>1, <1>3 DEF SS!Jobs
  <2> HIDE DEF to
  <2> QED BY <1>1, <1>2, <1>3, <1>4, <2>1, <2>2 DEF Quiet, Moved
<1>11. CASE SS!ReadAi(t)
  <2> DEFINE to == [w EXCEPT !.seen = v2.rev]
  <2>1. /\ v5' = [v5 EXCEPT ![t] = to] /\ UNCHANGED <<v1, v2, v3, v4>> /\ Head(v5[t].todo) = "readAi"
    BY <1>11 DEF SS!ReadAi, SS!Goes, SS!At, w
  <2>2. v2.rev \in 0..MaxRevision
    BY <1>1
  <2>3. /\ to \in SS!Jobs /\ to.op = w.op /\ to.arg = w.arg /\ to.todo = w.todo
        /\ to.current = w.current
    BY <1>3, <2>2 DEF SS!Jobs
  <2> HIDE DEF to
  <2> QED BY <1>1, <1>2, <1>3, <1>4, <2>1, <2>3 DEF Quiet, Moved
<1>12. CASE SS!WriteAi(t)
  <2> DEFINE to == [w EXCEPT !.seen = 0, !.model = SS!None]
             model == IF v5[t].op = "configureAi" \/ (v5[t].op = "save" /\ v5[t].arg # SS!None)
                      THEN v5[t].arg ELSE v5[t].model
  <2>1. /\ UNCHANGED <<v1, v3, v4>> /\ Head(v5[t].todo) = "writeAi"
        /\ \/ v5' = [v5 EXCEPT ![t] = to] /\ v2' = v2
           \/ SS!Fails(t) /\ v2' = v2
           \/ /\ v5' = [v5 EXCEPT ![t] = to] /\ v2.rev < MaxRevision
              /\ v2' = [rev |-> v2.rev + 1, model |-> model]
    BY <1>12 DEF SS!WriteAi, SS!Goes, SS!At, w
  <2>2. 0 \in 0..MaxRevision
    BY ServicesAssumption
  <2>3. /\ to \in SS!Jobs /\ to.op = w.op /\ to.arg = w.arg /\ to.todo = w.todo
        /\ to.current = w.current
    BY <1>3, <2>2 DEF SS!Jobs
  <2>4. model \in Models \cup {SS!None}
    <3>1. v5[t].op \in {"save", "configureAi"} => v5[t].arg \in Models \cup {SS!None}
      BY <1>3 DEF SS!Args
    <3>2. v5[t].model \in Models \cup {SS!None}
      <4>1. v5[t] \in SS!Jobs
        BY <1>2, SsWent
      <4> QED BY <4>1 DEF SS!Jobs
    <3> QED BY <3>1, <3>2
  <2>5. v2.rev < MaxRevision => v2.rev + 1 \in 0..MaxRevision
    <3>1. v2.rev \in 0..MaxRevision
      BY <1>1
    <3> QED BY <3>1, ServicesAssumption
  <2> HIDE DEF to, model
  <2>6. CASE SS!Fails(t) /\ v2' = v2
    <3>1. PICK x \in SS!Jobs : Moved(t, x) /\ x.todo = <<>> /\ x.current = v5[t].current
      BY <1>2, <2>6, SsFailed
    <3> QED BY <1>1, <1>4, <2>1, <2>6, <3>1 DEF Quiet
  <2>7. CASE /\ v5' = [v5 EXCEPT ![t] = to]
             /\ v2' = v2 \/ (v2.rev < MaxRevision /\ v2' = [rev |-> v2.rev + 1, model |-> model])
    <3> DEFINE rev == v2.rev + 1
    <3>1. v2' = v2 \/ (v2.rev < MaxRevision /\ v2' = [rev |-> rev, model |-> model])
      BY <2>7
    <3>2. v2.rev < MaxRevision => rev \in 0..MaxRevision
      BY <2>5
    <3> HIDE DEF rev
    <3>3. v2' \in [rev : 0..MaxRevision, model : Models \cup {SS!None}]
      BY <1>1, <2>4, <3>1, <3>2
    <3> QED BY <1>1, <1>2, <1>3, <1>4, <2>1, <2>3, <2>7, <3>3 DEF Quiet, Moved
  <2> QED BY <2>1, <2>6, <2>7
<1>13. CASE SS!DropToken(t)
  <2> DEFINE to == [w EXCEPT !.current = SS!DefaultRow]
  <2>1. /\ v5' = [v5 EXCEPT ![t] = to] /\ UNCHANGED <<v1, v2, v4>>
        /\ Head(v5[t].todo) = "dropToken" /\ v3' \subseteq v3
    BY <1>13 DEF SS!DropToken, SS!Goes, SS!At, w
  <2>2. /\ to \in SS!Jobs /\ to.op = w.op /\ to.arg = w.arg /\ to.todo = w.todo
        /\ to.current = SS!DefaultRow
    BY <1>3, SsResting DEF SS!Jobs
  <2> HIDE DEF to
  <2> QED BY <1>1, <1>2, <1>3, <1>4, <2>1, <2>2 DEF Quiet, Moved
<1>14. CASE SS!RefuseWhileActive(t)
  <2>1. /\ UNCHANGED <<v1, v2, v3, v4>> /\ Head(v5[t].todo) = "refuseWhileActive"
        /\ SS!Goes(t, w) \/ SS!Fails(t)
    BY <1>14 DEF SS!RefuseWhileActive, SS!At, w
  <2>2. CASE SS!Goes(t, w)
    BY <1>1, <1>2, <1>3, <1>4, <2>1, <2>2 DEF Quiet, Moved, SS!Goes
  <2>3. CASE SS!Fails(t)
    <3>1. PICK to \in SS!Jobs : Moved(t, to) /\ to.todo = <<>> /\ to.current = v5[t].current
      BY <1>2, <2>3, SsFailed
    <3> QED BY <1>1, <1>4, <2>1, <3>1 DEF Quiet
  <2> QED BY <2>1, <2>2, <2>3
<1> QED BY <1>5, <1>6, <1>7, <1>8, <1>9, <1>10, <1>11, <1>12, <1>13, <1>14

(* What the steps of a thread do to the page.                               *)
LEMMA SsPage ==
    ASSUME SS!PartInv, NEW t \in SS!Threads, SS!StepNext(t)
    PROVE  /\ v6' \in Pages
           /\ v6'.erasedUnder = (v6.erasedUnder \/ (SS!At(t, "erase") /\ SS!Busy))
<1>1. v6 \in Pages
  BY DEF SS!PartInv, SS!TypeOK, Pages
<1> DEFINE erased == v6.erasedUnder \/ (SS!At(t, "erase") /\ SS!Busy)
           stuck == v6.stuck \/ SS!LeavesOperation(t)
<1>2. v6' = [v6 EXCEPT !.erasedUnder = erased, !.stuck = stuck]
  BY DEF SS!StepNext
<1>3. erased \in BOOLEAN /\ stuck \in BOOLEAN
  OBVIOUS
<1>4. erased = (v6.erasedUnder \/ (SS!At(t, "erase") /\ SS!Busy))
  OBVIOUS
<1> HIDE DEF erased, stuck
<1>5. v6' \in Pages
  BY <1>1, <1>2, <1>3 DEF Pages
<1>6. v6'.erasedUnder = erased
  BY <1>1, <1>2 DEF Pages
<1> QED BY <1>4, <1>5, <1>6

(* The steps that write the settings row: as it was read, or with the check *)
(* of OpenD that just passed.                                               *)
Wrote(t, to) ==
    /\ Moved(t, to) /\ RestTyped /\ v4' = v4
    /\ Head(v5[t].todo) \in {"write", "start"} /\ to.current = v5[t].current
    /\ \/ v1'.futu = v5[t].value.futu
       \/ v1'.futu /\ v5[t].op = "qualityFutu" /\ to.todo = <<>>
    /\ ~v6.erasedUnder => (v1'.mode = "futu" => v1'.futu)

Wiped(t, to) ==
    /\ Moved(t, to) /\ RestTyped /\ v4' = v4 /\ Head(v5[t].todo) = "erase"
    /\ v1' = SS!DefaultRow

(* What is about to be written is checked, unless a reset came between.     *)
LEMMA SsWrites ==
    ASSUME SS!PartInv, NEW t \in SS!Threads, SS!Writes(t), ~v6.erasedUnder
    PROVE  /\ v5[t].value.mode = "futu" => v5[t].value.futu
           /\ v5[t].op \in {"save", "configureAi"} /\ v5[t].current.mode = "futu" =>
                 v5[t].value.futu
           /\ t = "task" /\ v5[t].op = "activate" /\ v5[t].arg = "futu" => v5[t].value.futu
BY DEF SS!PartInv, SS!RowInv

(* The steps that may write the settings.                                   *)
LEMMA SsRowSteps ==
    ASSUME SS!PartInv, NEW t \in SS!Threads,
           SS!WriteRow(t) \/ SS!WriteStarted(t) \/ SS!WorkerTimesOut(t) \/ SS!Erase(t)
    PROVE  \E to \in SS!Jobs : Quiet(t, to) \/ Wrote(t, to) \/ Wiped(t, to)
<1> DEFINE w == SS!Went(t)
           th == v5[t]
<1>1. v1 \in SS!Rows /\ v2 \in [rev : 0..MaxRevision, model : Models \cup {SS!None}]
      /\ v3 \subseteq Clients
  BY DEF SS!PartInv, SS!TypeOK
<1>2. v5[t].todo # <<>>
  BY DEF SS!WriteRow, SS!WriteStarted, SS!WorkerTimesOut, SS!Erase, SS!At
<1>3. /\ w \in SS!Jobs /\ w.op = v5[t].op /\ w.arg = v5[t].arg /\ w.todo = Tail(v5[t].todo)
      /\ w.current = v5[t].current /\ v5[t].arg \in SS!Args(v5[t].op)
  BY <1>2, SsWent
<1>4. th \in SS!Jobs /\ th.value \in SS!Rows /\ th.current \in SS!Rows
      /\ th.todo \in Seq(SS!StepNames)
  BY <1>2, SsWent DEF SS!Jobs
<1>5. /\ Head(th.todo) = "write" => th.op \in SS!RowOps /\ (th.op = "qualityFutu" => w.todo = <<>>)
      /\ th.op = "activate" => t = "task"
  <2>1. SS!Chained(th.todo) /\ SS!WritesFit(th.op, th.todo)
    BY DEF SS!PartInv, SS!StepsInv
  <2>2. Head(th.todo) = "write" => th.op \in SS!RowOps /\ (th.op = "qualityFutu" => w.todo = <<>>)
    BY <1>2, <1>3, <1>4, <2>1, SsTail
  <2>3. th.op = "activate" => t = "task"
    BY DEF SS!PartInv, SS!StepsInv, SS!Threads, SS!SlotOps, SS!None
  <2> QED BY <2>2, <2>3
<1> HIDE DEF w
<1>6. RestTyped <=> /\ v1' \in SS!Rows /\ v3' \subseteq Clients
                  /\ v2' \in [rev : 0..MaxRevision, model : Models \cup {SS!None}]
  BY DEF RestTyped
<1>7. CASE SS!WriteRow(t)
  <2> DEFINE kept == th.reserved /\ th.op # "qualityFutu"
             to == [w EXCEPT !.value = SS!DefaultRow, !.reserved = kept]
  <2>1. /\ v5' = [v5 EXCEPT ![t] = to] /\ UNCHANGED <<v2, v3, v4>> /\ Head(th.todo) = "write"
        /\ v1' = SS!Written(th) /\ SS!Writes(t)
    <3>1. w.reserved = th.reserved
      BY <1>2, SsWent DEF w
    <3> QED BY <1>7, <3>1 DEF SS!WriteRow, SS!Goes, SS!At, SS!Writes, w
  <2>2. kept \in BOOLEAN
    OBVIOUS
  <2> HIDE DEF kept
  <2>3. /\ to \in SS!Jobs /\ to.op = w.op /\ to.arg = w.arg /\ to.todo = w.todo
        /\ to.current = w.current
    BY <1>3, <2>2, SsResting DEF SS!Jobs
  <2> HIDE DEF to, th
  <2>4. th.op \in SS!RowOps
    BY <1>5, <2>1
  <2>5. ~v6.erasedUnder =>
           /\ th.value.mode = "futu" => th.value.futu
           /\ th.op \in {"save", "configureAi"} /\ th.current.mode = "futu" => th.value.futu
           /\ th.op = "activate" /\ th.arg = "futu" => th.value.futu
    BY <1>5, <2>1, SsWrites DEF th
  <2>6. /\ v1' \in SS!Rows
        /\ v1'.futu = th.value.futu \/ (v1'.futu /\ th.op = "qualityFutu" /\ to.todo = <<>>)
        /\ ~v6.erasedUnder => (v1'.mode = "futu" => v1'.futu)
    <3>1. CASE th.op \in {"save", "configureAi"}
      <4>1. v1' = [th.value EXCEPT !.mode = th.current.mode, !.client = th.current.client]
        BY <2>1, <3>1 DEF SS!Written
      <4> QED BY <1>4, <2>5, <3>1, <4>1 DEF SS!Rows
    <3>2. CASE th.op = "qualityLongbridge"
      <4>1. th.arg \in Clients \cup {SS!None}
        BY <1>3, <3>2 DEF SS!Args, th
      <4>2. v1' = [th.value EXCEPT !.mode = "longbridge", !.client = th.arg]
        BY <2>1, <3>2 DEF SS!Written
      <4> QED BY <1>4, <4>1, <4>2 DEF SS!Rows
    <3>3. CASE th.op = "qualityFutu"
      <4>1. v1' = [th.value EXCEPT !.futu = TRUE]
        BY <2>1, <3>3 DEF SS!Written
      <4>2. to.todo = <<>>
        BY <1>5, <2>1, <2>3, <3>3
      <4> QED BY <1>4, <3>3, <4>1, <4>2 DEF SS!Rows
    <3>4. CASE th.op = "activate"
      <4>1. th.arg \in {"longbridge", "futu"}
        BY <1>3, <3>4 DEF SS!Args, th
      <4>2. v1' = [th.value EXCEPT !.mode = th.arg]
        BY <2>1, <3>4 DEF SS!Written
      <4> QED BY <1>4, <2>5, <3>4, <4>1, <4>2 DEF SS!Rows
    <3>5. CASE th.op = "completeFirstRun"
      <4>1. v1' = [th.value EXCEPT !.started = TRUE]
        BY <2>1, <3>5 DEF SS!Written
      <4> QED BY <1>4, <2>5, <4>1 DEF SS!Rows
    <3> QED BY <2>4, <3>1, <3>2, <3>3, <3>4, <3>5 DEF SS!RowOps
  <2>7. RestTyped
    BY <1>1, <1>6, <2>1, <2>6
  <2>8. Wrote(t, to)
    BY <1>2, <1>3, <2>1, <2>3, <2>6, <2>7 DEF Wrote, Moved, th
  <2> QED BY <2>3, <2>8
<1>8. CASE SS!WriteStarted(t)
  <2> DEFINE to == [w EXCEPT !.reserved = FALSE]
  <2>1. /\ v5' = [v5 EXCEPT ![t] = to] /\ UNCHANGED <<v2, v3, v4>> /\ Head(th.todo) = "start"
        /\ v1' = [th.value EXCEPT !.started = TRUE] /\ SS!Writes(t)
    BY <1>8 DEF SS!WriteStarted, SS!Goes, SS!At, SS!Writes, w
  <2>2. /\ to \in SS!Jobs /\ to.op = w.op /\ to.arg = w.arg /\ to.todo = w.todo
        /\ to.current = w.current
    BY <1>3 DEF SS!Jobs
  <2> HIDE DEF to
  <2>3. ~v6.erasedUnder => (th.value.mode = "futu" => th.value.futu)
    BY <2>1, SsWrites
  <2>4. /\ v1' \in SS!Rows /\ v1'.futu = th.value.futu /\ v1'.mode = th.value.mode
    BY <1>4, <2>1 DEF SS!Rows
  <2>5. RestTyped
    BY <1>1, <1>6, <2>1, <2>4
  <2>6. Wrote(t, to)
    BY <1>2, <1>3, <2>1, <2>2, <2>3, <2>4, <2>5 DEF Wrote, Moved
  <2> QED BY <2>2, <2>6
<1>9. CASE SS!WorkerTimesOut(t)
  <2>1. /\ UNCHANGED <<v2, v3, v4>> /\ Head(th.todo) = "write" /\ th.op = "qualityFutu"
        /\ SS!Fails(t)
        /\ v1' = v1 \/ v1' = [th.value EXCEPT !.futu = TRUE]
    BY <1>9 DEF SS!WorkerTimesOut, SS!At
  <2>2. PICK to \in SS!Jobs : Moved(t, to) /\ to.todo = <<>> /\ to.current = th.current
    BY <1>2, <2>1, SsFailed
  <2>3. CASE v1' = v1
    BY <1>1, <1>6, <2>1, <2>2, <2>3 DEF Quiet
  <2>4. CASE v1' = [th.value EXCEPT !.futu = TRUE]
    <3>1. v1' \in SS!Rows /\ v1'.futu
      BY <1>4, <2>4 DEF SS!Rows
    <3>2. RestTyped
      BY <1>1, <1>6, <2>1, <3>1
    <3> QED BY <2>1, <2>2, <3>1, <3>2 DEF Wrote
  <2> QED BY <2>1, <2>3, <2>4
<1>10. CASE SS!Erase(t)
  <2>1. /\ v5' = [v5 EXCEPT ![t] = w] /\ v4' = v4 /\ v1' = SS!DefaultRow /\ v2' = SS!NoAi
        /\ Head(th.todo) = "erase" /\ v3' \subseteq v3
    BY <1>10 DEF SS!Erase, SS!Goes, SS!At, w
  <2>2. SS!NoAi \in [rev : 0..MaxRevision, model : Models \cup {SS!None}]
    BY ServicesAssumption DEF SS!NoAi
  <2>3. RestTyped
    BY <1>1, <1>6, <2>1, <2>2, SsResting
  <2> QED BY <1>2, <1>3, <2>1, <2>3 DEF Wiped, Moved
<1> QED BY <1>7, <1>8, <1>9, <1>10

(* A thread that moves to its next step keeps the invariant of the steps.   *)
LEMMA SsMoved ==
    ASSUME SS!PartInv, NEW t \in SS!Threads, NEW to \in SS!Jobs, Moved(t, to)
    PROVE  /\ v5' \in [SS!Threads -> SS!Jobs]
           /\ \A u \in SS!Threads : v5'[u].arg \in SS!Args(v5'[u].op)
           /\ SS!StepsInv'
           /\ v5'[t] = to /\ \A u \in SS!Threads \ {t} : v5'[u] = v5[u]
           /\ SS!Writes(t)' => Head(v5[t].todo) = "value" /\ to.todo # <<>>
           /\ SS!At(t, "assign")' => Head(v5[t].todo) = "build"
           /\ SS!At(t, "close")' => Head(v5[t].todo) = "assign"
<1>1. /\ v5' \in [SS!Threads -> SS!Jobs]
      /\ \A u \in SS!Threads : v5'[u].arg \in SS!Args(v5'[u].op)
      /\ SS!StepsInv'
      /\ v5'[t] = to /\ \A u \in SS!Threads \ {t} : v5'[u] = v5[u]
      /\ to.todo # <<>> => SS!Follows(Head(v5[t].todo), Head(to.todo))
  BY SsGoes DEF SS!PartInv, Moved
<1>2. /\ SS!Writes(t)' => to.todo # <<>> /\ Head(to.todo) \in {"write", "start"}
      /\ SS!At(t, "assign")' => to.todo # <<>> /\ Head(to.todo) = "assign"
      /\ SS!At(t, "close")' => to.todo # <<>> /\ Head(to.todo) = "close"
  BY <1>1 DEF SS!Writes, SS!At
<1> QED BY <1>1, <1>2 DEF SS!Follows

(* The row and the threads after a step that does not write the row.        *)
LEMMA SsRowKept ==
    ASSUME SS!PartInv, NEW t \in SS!Threads, NEW to \in SS!Jobs, Moved(t, to),
           v1' = v1, v6.erasedUnder => v6'.erasedUnder,
           to.current \in {v5[t].current, v1, SS!DefaultRow},
           Head(v5[t].todo) = "value" /\ to.todo # <<>> => to.value = v1
    PROVE  SS!RowInv' /\ SS!ActiveIsChecked'
<1>1. /\ v5'[t] = to /\ (\A u \in SS!Threads \ {t} : v5'[u] = v5[u])
      /\ SS!Writes(t)' => Head(v5[t].todo) = "value" /\ to.todo # <<>>
  BY SsMoved
<1>2. "qt" \in SS!Threads /\ "task" \in SS!Threads /\ "qt" # "task"
  BY DEF SS!Threads
<1>3. \A u \in SS!Threads \ {t} : SS!Writes(u)' => SS!Writes(u)
  BY <1>1 DEF SS!Writes, SS!At
<1>4. SS!Writes(t)' => v5'[t].value = v1
  BY <1>1
<1>5. /\ \A u \in SS!Threads : v5'[u].op = v5[u].op /\ v5'[u].arg = v5[u].arg
      /\ \A u \in SS!Threads : v5[u].todo = <<>> => v5'[u] = v5[u]
  BY <1>1 DEF Moved
<1>6. SS!Lagging => SS!Lagging'
  BY <1>2, <1>5 DEF SS!Lagging
<1>7. SS!ActiveIsChecked'
  BY DEF SS!PartInv, SS!ActiveIsChecked
<1>8. SS!RowInv'
  <2> SUFFICES ASSUME ~v6'.erasedUnder PROVE SS!RowInv'
    BY DEF SS!RowInv
  <2>1. ~v6.erasedUnder
    OBVIOUS
  <2>2. v1.mode = "futu" => v1.futu
    BY <2>1 DEF SS!PartInv, SS!ActiveIsChecked
  <2>3. SS!Writes("task")' => v5'["task"].value.futu = v1.futu
    BY <1>1, <1>2, <1>3, <1>4, <2>1 DEF SS!PartInv, SS!RowInv
  <2>4. SS!Writes("qt")' => v5'["qt"].value.futu = v1.futu \/ SS!Lagging'
    BY <1>1, <1>2, <1>3, <1>4, <1>6, <2>1 DEF SS!PartInv, SS!RowInv
  <2>5. ASSUME NEW u \in SS!Threads
        PROVE  /\ SS!Writes(u)' /\ v5'[u].value.mode = "futu" => v5'[u].value.futu
               /\ v5'[u].op \in {"save", "configureAi"} /\ v5'[u].current.mode = "futu" =>
                     v1.futu /\ (SS!Writes(u)' => v5'[u].value.futu)
    <3>1. CASE u # t
      BY <1>1, <1>3, <2>1, <3>1 DEF SS!PartInv, SS!RowInv
    <3>2. CASE u = t
      <4>1. SS!Writes(u)' /\ v5'[u].value.mode = "futu" => v5'[u].value.futu
        BY <1>4, <2>2, <3>2
      <4>2. ASSUME v5'[u].op \in {"save", "configureAi"}, v5'[u].current.mode = "futu"
            PROVE  v1.futu
        <5>1. CASE to.current = v5[t].current
          BY <1>1, <1>5, <2>1, <3>2, <4>2, <5>1 DEF SS!PartInv, SS!RowInv
        <5>2. CASE to.current = v1
          BY <1>1, <2>2, <3>2, <4>2, <5>2
        <5>3. CASE to.current = SS!DefaultRow
          BY <1>1, <3>2, <4>2, <5>3, SsResting
        <5> QED BY <5>1, <5>2, <5>3
      <4> QED BY <1>4, <3>2, <4>1, <4>2
    <3> QED BY <3>1, <3>2
  <2>6. v5'["task"].op = "activate" /\ v5'["task"].arg = "futu" => v1.futu
    BY <1>2, <1>5, <2>1 DEF SS!PartInv, SS!RowInv
  <2> QED BY <2>3, <2>4, <2>5, <2>6 DEF SS!RowInv
<1> QED BY <1>7, <1>8

(* A step that writes the settings keeps them checked.                      *)
LEMMA SsRowWritten ==
    ASSUME SS!PartInv, NEW t \in SS!Threads, NEW to \in SS!Jobs, Wrote(t, to),
           v6.erasedUnder => v6'.erasedUnder
    PROVE  SS!RowInv' /\ SS!ActiveIsChecked'
<1> SUFFICES ASSUME ~v6'.erasedUnder PROVE SS!RowInv' /\ SS!ActiveIsChecked'
  BY DEF SS!RowInv, SS!ActiveIsChecked
<1>0. ~v6.erasedUnder
  OBVIOUS
<1>1. /\ v5'[t] = to /\ (\A u \in SS!Threads \ {t} : v5'[u] = v5[u]) /\ ~SS!Writes(t)'
  BY SsMoved DEF Wrote
<1>2. "qt" \in SS!Threads /\ "task" \in SS!Threads /\ "qt" # "task"
      /\ \A u \in SS!Threads : u = "qt" \/ u = "task"
  BY DEF SS!Threads
<1>3. \A u \in SS!Threads \ {t} : SS!Writes(u)' => SS!Writes(u)
  BY <1>1 DEF SS!Writes, SS!At
<1>4. /\ \A u \in SS!Threads : v5'[u].op = v5[u].op /\ v5'[u].arg = v5[u].arg
      /\ \A u \in SS!Threads : v5'[u].current = v5[u].current
  BY <1>1 DEF Wrote, Moved
<1>5. SS!Writes(t) /\ v5[t].todo # <<>>
  BY DEF Wrote, Moved, SS!Writes, SS!At
<1>6. SS!ActiveIsChecked'
  BY <1>0 DEF Wrote, SS!ActiveIsChecked
<1>7. v1 \in SS!Rows /\ v1' \in SS!Rows /\ v5[t].value \in SS!Rows
  <2>1. v5[t] \in SS!Jobs
    BY <1>5, SsWent
  <2> QED BY <2>1 DEF Wrote, RestTyped, SS!PartInv, SS!TypeOK, SS!Jobs
<1>8. v1.futu \in BOOLEAN /\ v1'.futu \in BOOLEAN
  BY <1>7 DEF SS!Rows
<1>9. t = "task" => v1'.futu = v1.futu \/ SS!Lagging'
  <2> SUFFICES ASSUME t = "task" PROVE v1'.futu = v1.futu \/ SS!Lagging'
    OBVIOUS
  <2>1. v5[t].value.futu = v1.futu
    BY <1>0, <1>5 DEF SS!PartInv, SS!RowInv
  <2>2. CASE v1'.futu /\ v5[t].op = "qualityFutu" /\ to.todo = <<>>
    BY <1>1, <1>4, <2>2 DEF SS!Lagging
  <2> QED BY <2>1, <2>2 DEF Wrote
<1>10. t = "qt" => v1'.futu = v1.futu \/ SS!Lagging
  <2> SUFFICES ASSUME t = "qt" PROVE v1'.futu = v1.futu \/ SS!Lagging
    OBVIOUS
  <2>1. v5[t].value.futu = v1.futu \/ SS!Lagging
    BY <1>0, <1>5 DEF SS!PartInv, SS!RowInv
  <2>2. v5[t].op # "qualityFutu"
    BY DEF SS!PartInv, SS!StepsInv, SS!SlotOps, SS!None
  <2> QED BY <2>1, <2>2 DEF Wrote
<1>11. SS!Lagging => t = "qt" /\ v5["task"].todo = <<>> /\ v5["task"].op = "qualityFutu"
  BY <1>2, <1>5 DEF SS!Lagging
<1>12. SS!Writes("task")' => v5'["task"].value.futu = v1'.futu
  <2> SUFFICES ASSUME SS!Writes("task")' PROVE v5'["task"].value.futu = v1'.futu
    OBVIOUS
  <2>1. t = "qt" /\ SS!Writes("task") /\ v5'["task"] = v5["task"]
    BY <1>1, <1>2, <1>3
  <2>2. v5["task"].todo # <<>>
    BY <2>1 DEF SS!Writes, SS!At
  <2>3. v1'.futu = v1.futu
    BY <1>10, <2>1, <2>2 DEF SS!Lagging
  <2>4. v5["task"].value.futu = v1.futu
    BY <1>0, <2>1 DEF SS!PartInv, SS!RowInv
  <2> QED BY <2>1, <2>3, <2>4
<1>13. SS!Writes("qt")' => v5'["qt"].value.futu = v1'.futu \/ SS!Lagging'
  <2> SUFFICES ASSUME SS!Writes("qt")' PROVE v5'["qt"].value.futu = v1'.futu \/ SS!Lagging'
    OBVIOUS
  <2>1. t = "task" /\ SS!Writes("qt") /\ v5'["qt"] = v5["qt"]
    BY <1>1, <1>2, <1>3
  <2>2. v5["qt"].value.futu = v1.futu
    BY <1>0, <1>11, <2>1, <1>2 DEF SS!PartInv, SS!RowInv
  <2> QED BY <1>9, <2>1, <2>2
<1>14. ASSUME NEW u \in SS!Threads
       PROVE  /\ SS!Writes(u)' /\ v5'[u].value.mode = "futu" => v5'[u].value.futu
              /\ v5'[u].op \in {"save", "configureAi"} /\ v5'[u].current.mode = "futu" =>
                    v1'.futu /\ (SS!Writes(u)' => v5'[u].value.futu)
  <2>1. CASE u # t
    <3>1. SS!Writes(u)' => SS!Writes(u)
      BY <1>3, <2>1
    <3>2. v5'[u] = v5[u]
      BY <1>1, <2>1
    <3>3. /\ SS!Writes(u) /\ v5[u].value.mode = "futu" => v5[u].value.futu
          /\ v5[u].op \in {"save", "configureAi"} /\ v5[u].current.mode = "futu" =>
                v1.futu /\ (SS!Writes(u) => v5[u].value.futu)
      BY <1>0 DEF SS!PartInv, SS!RowInv
    <3>4. v5[u].op \in {"save", "configureAi"} /\ v1.futu => v1'.futu
      <4>1. CASE t = "task"
        BY <1>9, <4>1 DEF SS!Lagging
      <4>2. CASE t = "qt"
        BY <1>2, <1>10, <1>11, <2>1, <4>2
      <4> QED BY <1>2, <4>1, <4>2
    <3> QED BY <3>1, <3>2, <3>3, <3>4
  <2>2. CASE u = t
    <3>1. v5[t].op \in {"save", "configureAi"} /\ v5[t].current.mode = "futu" =>
             v5[t].value.futu
      BY <1>0, <1>5, SsWrites
    <3>2. v5[t].op \in {"save", "configureAi"} => v1'.futu = v5[t].value.futu
      BY DEF Wrote
    <3> QED BY <1>1, <1>4, <2>2, <3>1, <3>2
  <2> QED BY <2>1, <2>2
<1>15. v5'["task"].op = "activate" /\ v5'["task"].arg = "futu" => v1'.futu
  <2> SUFFICES ASSUME v5["task"].op = "activate", v5["task"].arg = "futu" PROVE v1'.futu
    BY <1>2, <1>4
  <2>1. v1.futu
    BY <1>0 DEF SS!PartInv, SS!RowInv
  <2>2. CASE t = "task"
    BY <1>9, <2>1, <2>2 DEF SS!Lagging
  <2>3. CASE t = "qt"
    BY <1>10, <1>11, <2>1, <2>3
  <2> QED BY <1>2, <2>2, <2>3
<1>16. SS!RowInv'
  BY <1>12, <1>13, <1>14, <1>15 DEF SS!RowInv
<1> QED BY <1>6, <1>16

(* A reset keeps them checked.                                              *)
LEMMA SsRowWiped ==
    ASSUME SS!PartInv, NEW t \in SS!Threads, NEW to \in SS!Jobs, Wiped(t, to),
           v6'.erasedUnder = (v6.erasedUnder \/ (SS!At(t, "erase") /\ SS!Busy))
    PROVE  SS!RowInv' /\ SS!ActiveIsChecked'
<1>1. /\ v5'[t] = to /\ (\A u \in SS!Threads \ {t} : v5'[u] = v5[u]) /\ ~SS!Writes(t)'
      /\ to.op = v5[t].op /\ v5[t].todo # <<>> /\ SS!At(t, "erase")
  BY SsMoved DEF Wiped, Moved, SS!At
<1>2. "qt" \in SS!Threads /\ "task" \in SS!Threads /\ "qt" # "task"
      /\ \A u \in SS!Threads : u = "qt" \/ u = "task"
  BY DEF SS!Threads
<1>3. v1'.mode = "longbridge"
  BY SsResting DEF Wiped
<1>4. SS!ActiveIsChecked'
  BY <1>3 DEF SS!ActiveIsChecked
<1>5. SS!RowInv'
  <2> SUFFICES ASSUME ~v6'.erasedUnder PROVE SS!RowInv'
    BY DEF SS!RowInv
  <2>1. v5["task"].op = SS!None
    BY <1>1 DEF SS!Busy
  <2>2. v5["task"].todo = <<>>
    BY <1>2, <2>1 DEF SS!PartInv, SS!StepsInv
  <2>3. t = "qt" /\ v5'["task"] = v5["task"]
    BY <1>1, <1>2, <2>2
  <2>4. v5[t].op = "reset"
    <3>1. v5[t].todo \in Seq(SS!StepNames) /\ SS!Chained(v5[t].todo)
          /\ SS!WritesFit(v5[t].op, v5[t].todo)
      BY <1>1, SsWent DEF SS!PartInv, SS!StepsInv
    <3> QED BY <1>1, <3>1, SsTail DEF Wiped
  <2>5. ~SS!Writes("task")'
    BY <2>2, <2>3 DEF SS!Writes, SS!At
  <2>6. \A u \in SS!Threads : ~SS!Writes(u)'
    BY <1>1, <1>2, <2>3, <2>5
  <2>7. \A u \in SS!Threads : v5'[u].op \in {"reset", SS!None}
    BY <1>1, <1>2, <2>1, <2>3, <2>4
  <2>8. \A u \in SS!Threads : v5'[u].op \notin {"save", "configureAi", "activate"}
    BY <2>7 DEF SS!None
  <2> QED BY <1>2, <2>6, <2>8 DEF SS!RowInv
<1> QED BY <1>4, <1>5

(* The adapters after a step that leaves them alone.                        *)
LEMMA SsAdaptersKept ==
    ASSUME SS!PartInv, NEW t \in SS!Threads, NEW to \in SS!Jobs, Moved(t, to), v4' = v4,
           Head(v5[t].todo) \notin {"build", "assign", "close"}
    PROVE  SS!AdaptersInv' /\ SS!UsedIsOpen'
<1>1. /\ (\A u \in SS!Threads \ {t} : v5'[u] = v5[u])
      /\ ~SS!At(t, "assign")' /\ ~SS!At(t, "close")'
  BY SsMoved
<1>2. \A u \in SS!Threads : /\ SS!At(u, "assign")' => SS!At(u, "assign") /\ v5'[u] = v5[u]
                            /\ SS!At(u, "close")' => SS!At(u, "close") /\ v5'[u] = v5[u]
  BY <1>1 DEF SS!At
<1> QED BY <1>2 DEF SS!PartInv, SS!AdaptersInv, SS!UsedIsOpen

(* A builder that raises changes no adapter.                                *)
LEMMA SsNotBuilt ==
    ASSUME SS!PartInv, NEW t \in SS!Threads, SS!BuildFails(t)
    PROVE  /\ \E to \in SS!Jobs : Moved(t, to) /\ to.current = v5[t].current
           /\ RestTyped /\ v1' = v1 /\ Head(v5[t].todo) = "build"
           /\ v4' \in [used : 1..MaxBuilds, open : SUBSET (1..MaxBuilds), made : 1..MaxBuilds]
           /\ SS!AdaptersInv' /\ SS!UsedIsOpen'
<1>1. /\ v5[t].todo # <<>> /\ Head(v5[t].todo) = "build" /\ SS!Fails(t)
      /\ UNCHANGED <<v1, v2, v3>> /\ v4.made < MaxBuilds
      /\ v4' = [v4 EXCEPT !.made = v4.made + 1]
  BY DEF SS!BuildFails, SS!At
<1>2. PICK to \in SS!Jobs : Moved(t, to) /\ to.todo = <<>> /\ to.current = v5[t].current
  BY <1>1, SsFailed
<1>3. v5'[t] = to /\ \A u \in SS!Threads \ {t} : v5'[u] = v5[u]
  BY <1>1, <1>2, SsMoved
<1>4. ~SS!At(t, "assign")' /\ ~SS!At(t, "close")'
  BY <1>2, <1>3 DEF SS!At
<1>5. \A u \in SS!Threads : /\ SS!At(u, "assign")' => SS!At(u, "assign") /\ v5'[u] = v5[u]
                            /\ SS!At(u, "close")' => SS!At(u, "close") /\ v5'[u] = v5[u]
  BY <1>3, <1>4 DEF SS!At
<1> DEFINE tried == v4.made + 1
<1>6. v4 \in [used : 1..MaxBuilds, open : SUBSET (1..MaxBuilds), made : 1..MaxBuilds]
  BY DEF SS!PartInv, SS!TypeOK
<1>7. v4.made \in 1..MaxBuilds /\ v4.used \in 1..MaxBuilds /\ v4.open \subseteq 1..MaxBuilds
  BY <1>6
<1>8. tried \in 1..MaxBuilds /\ tried > v4.made
  BY <1>1, <1>7, ServicesAssumption
<1> HIDE DEF tried
<1>9. v4' = [v4 EXCEPT !.made = tried]
  BY <1>1 DEF tried
<1>10. /\ v4' \in [used : 1..MaxBuilds, open : SUBSET (1..MaxBuilds), made : 1..MaxBuilds]
       /\ v4'.used = v4.used /\ v4'.open = v4.open /\ v4'.made = tried
  BY <1>6, <1>8, <1>9
<1>11. \A x \in 0..MaxBuilds : x <= v4.made => x <= tried
  BY <1>7, <1>8, ServicesAssumption
<1>12. \A u \in SS!Threads : v5[u].built \in 0..MaxBuilds /\ v5[u].previous \in 0..MaxBuilds
  <2> TAKE u \in SS!Threads
  <2>1. v5[u] \in SS!Jobs
    BY DEF SS!PartInv, SS!TypeOK
  <2> QED BY <2>1 DEF SS!Jobs
<1>13. \A x \in 1..MaxBuilds : x \in 0..MaxBuilds
  BY ServicesAssumption
<1>14. SS!AdaptersInv
  BY DEF SS!PartInv
<1>15. v4'.used <= v4'.made /\ \A id \in v4'.open : id <= v4'.made
  BY <1>7, <1>10, <1>11, <1>13, <1>14 DEF SS!AdaptersInv
<1>16. SS!AdaptersInv'
  BY <1>5, <1>10, <1>11, <1>12, <1>14, <1>15 DEF SS!AdaptersInv
<1>17. SS!UsedIsOpen'
  BY <1>10 DEF SS!PartInv, SS!UsedIsOpen
<1>18. RestTyped
  BY <1>1 DEF RestTyped, SS!PartInv, SS!TypeOK
<1> QED BY <1>1, <1>2, <1>10, <1>16, <1>17, <1>18

(* A builder keeps every adapter in use open (composition.py _build).       *)
LEMMA SsBuilt ==
    ASSUME SS!PartInv, NEW t \in SS!Threads, SS!Build(t)
    PROVE  /\ \E to \in SS!Jobs : Moved(t, to) /\ to.current = v5[t].current
           /\ RestTyped /\ v1' = v1 /\ Head(v5[t].todo) = "build"
           /\ v4' \in [used : 1..MaxBuilds, open : SUBSET (1..MaxBuilds), made : 1..MaxBuilds]
           /\ SS!AdaptersInv' /\ SS!UsedIsOpen'
<1> DEFINE w == SS!Went(t)
           id == v4.made + 1
           to == [w EXCEPT !.built = id, !.previous = v4.used]
<1>1. v4 \in [used : 1..MaxBuilds, open : SUBSET (1..MaxBuilds), made : 1..MaxBuilds]
  BY DEF SS!PartInv, SS!TypeOK
<1>2. v4.made \in 1..MaxBuilds /\ v4.used \in 1..MaxBuilds /\ v4.open \subseteq 1..MaxBuilds
  BY <1>1
<1>3. v4.made < MaxBuilds /\ v5[t].todo # <<>> /\ Head(v5[t].todo) = "build"
      /\ UNCHANGED <<v1, v2, v3>>
  BY DEF SS!Build, SS!At
<1>4. id \in 1..MaxBuilds /\ id > v4.made /\ id \in 0..MaxBuilds /\ v4.used \in 0..MaxBuilds
  BY <1>2, <1>3, ServicesAssumption
<1>5. /\ w \in SS!Jobs /\ w.op = v5[t].op /\ w.arg = v5[t].arg /\ w.todo = Tail(v5[t].todo)
      /\ w.current = v5[t].current
  BY <1>3, SsWent
<1>6. v5' = [v5 EXCEPT ![t] = to]
      /\ v4' = [v4 EXCEPT !.made = id, !.open = v4.open \cup {id}]
  BY DEF SS!Build, SS!Goes
<1> HIDE DEF w, id
<1>7. /\ to \in SS!Jobs /\ to.op = w.op /\ to.arg = w.arg /\ to.todo = w.todo
      /\ to.current = w.current /\ to.built = id /\ to.previous = v4.used
  BY <1>4, <1>5 DEF SS!Jobs
<1> HIDE DEF to
<1>8. Moved(t, to)
  BY <1>3, <1>5, <1>6, <1>7 DEF Moved
<1>9. /\ v4'.used = v4.used /\ v4'.made = id /\ v4'.open = v4.open \cup {id}
      /\ v4' \in [used : 1..MaxBuilds, open : SUBSET (1..MaxBuilds), made : 1..MaxBuilds]
  <2> DEFINE open == v4.open \cup {id}
  <2>1. open \in SUBSET (1..MaxBuilds)
    BY <1>2, <1>4
  <2> HIDE DEF open
  <2>2. v4' = [v4 EXCEPT !.made = id, !.open = open]
    BY <1>6 DEF open
  <2>3. v4' \in [used : 1..MaxBuilds, open : SUBSET (1..MaxBuilds), made : 1..MaxBuilds]
        /\ v4'.used = v4.used /\ v4'.made = id /\ v4'.open = open
    BY <1>1, <1>4, <2>1, <2>2
  <2> QED BY <2>3 DEF open
<1>10. RestTyped
  BY <1>3 DEF RestTyped, SS!PartInv, SS!TypeOK
<1>11. /\ v5'[t] = to /\ (\A u \in SS!Threads \ {t} : v5'[u] = v5[u])
       /\ ~SS!At(t, "close")'
  BY <1>3, <1>7, <1>8, SsMoved
<1>12. \A u \in SS!Threads \ {t} : /\ SS!At(u, "assign")' <=> SS!At(u, "assign")
                                   /\ SS!At(u, "close")' <=> SS!At(u, "close")
  BY <1>11 DEF SS!At
<1>13. v4.used <= v4.made /\ (\A x \in v4.open : x <= v4.made) /\ v4.used \in v4.open
  BY DEF SS!PartInv, SS!AdaptersInv, SS!UsedIsOpen
<1>14. \A x \in v4.open : x \in Nat /\ x # id
  BY <1>2, <1>4, <1>13
<1>15. \A u \in SS!Threads \ {t} : SS!At(u, "assign") \/ SS!At(u, "close") =>
          /\ v5[u].built <= v4.made /\ v5[u].previous <= v4.made
          /\ v5[u].built \in Nat /\ v5[u].previous \in Nat
  <2> TAKE u \in SS!Threads \ {t}
  <2>1. v5[u] \in SS!Jobs
    BY DEF SS!PartInv, SS!TypeOK
  <2>2. v5[u].built \in 0..MaxBuilds /\ v5[u].previous \in 0..MaxBuilds
    BY <2>1 DEF SS!Jobs
  <2>3. v5[u].built \in Nat /\ v5[u].previous \in Nat
    BY <2>2, ServicesAssumption
  <2> QED BY <2>3 DEF SS!PartInv, SS!AdaptersInv
<1>16. \A u \in SS!Threads \ {t} : SS!At(u, "assign") \/ SS!At(u, "close") =>
          v5[u].built # id /\ v5[u].previous # id /\ v5[u].built < id /\ v5[u].previous < id
  BY <1>2, <1>4, <1>15
<1>17. SS!UsedIsOpen'
  BY <1>9, <1>13 DEF SS!UsedIsOpen
<1>18. v4.used # id /\ v4.used < id
  BY <1>2, <1>4, <1>13
<1>19. \A u \in SS!Threads :
          /\ SS!At(u, "assign")' =>
                /\ v5'[u].built \in v4'.open /\ v5'[u].built # v4'.used
                /\ \A x \in SS!Threads : SS!At(x, "assign")' \/ SS!At(x, "close")' =>
                      /\ v5'[x].previous # v5'[u].built
                      /\ x # u => v5'[x].built # v5'[u].built
          /\ SS!At(u, "close")' => v5'[u].previous # v4'.used
          /\ SS!At(u, "assign")' \/ SS!At(u, "close")' =>
                v5'[u].built <= v4'.made /\ v5'[u].previous <= v4'.made
  <2> TAKE u \in SS!Threads
  <2>1. CASE u = t
    <3>1. v5'[u].built = id /\ v5'[u].previous = v4.used
      BY <1>7, <1>11, <2>1
    <3>2. \A x \in SS!Threads : SS!At(x, "assign")' \/ SS!At(x, "close")' =>
             /\ v5'[x].previous # id /\ (x # u => v5'[x].built # id)
      BY <1>11, <1>12, <1>16, <1>18, <2>1, <3>1
    <3>3. id <= v4'.made /\ v4.used <= v4'.made
      BY <1>2, <1>4, <1>9, <1>18
    <3> QED BY <1>9, <1>11, <1>18, <2>1, <3>1, <3>2, <3>3
  <2>2. CASE u # t
    <3>1. v5'[u] = v5[u] /\ (SS!At(u, "assign")' <=> SS!At(u, "assign"))
          /\ (SS!At(u, "close")' <=> SS!At(u, "close"))
      BY <1>11, <1>12, <2>2
    <3>2. /\ SS!At(u, "assign") =>
                /\ v5[u].built \in v4.open /\ v5[u].built # v4.used
                /\ \A x \in SS!Threads : SS!At(x, "assign") \/ SS!At(x, "close") =>
                      /\ v5[x].previous # v5[u].built
                      /\ x # u => v5[x].built # v5[u].built
          /\ SS!At(u, "close") => v5[u].previous # v4.used
      BY DEF SS!PartInv, SS!AdaptersInv
    <3>3. SS!At(u, "assign") =>
             \A x \in SS!Threads : SS!At(x, "assign")' \/ SS!At(x, "close")' =>
                /\ v5'[x].previous # v5[u].built
                /\ x # u => v5'[x].built # v5[u].built
      <4> SUFFICES ASSUME SS!At(u, "assign"), NEW x \in SS!Threads,
                          SS!At(x, "assign")' \/ SS!At(x, "close")'
                   PROVE  /\ v5'[x].previous # v5[u].built
                          /\ x # u => v5'[x].built # v5[u].built
        OBVIOUS
      <4>1. CASE x = t
        BY <1>7, <1>11, <1>16, <2>2, <3>2, <4>1
      <4>2. CASE x # t
        BY <1>11, <1>12, <3>2, <4>2
      <4> QED BY <4>1, <4>2
    <3>4. SS!At(u, "assign") \/ SS!At(u, "close") =>
             v5[u].built <= id /\ v5[u].previous <= id
      BY <1>15, <1>16, <2>2, <1>4, <1>2
    <3> QED BY <1>9, <3>1, <3>2, <3>3, <3>4
  <2> QED BY <2>1, <2>2
<1>20. SS!AdaptersInv'
  <2>1. v4'.used <= v4'.made /\ \A x \in v4'.open : x <= v4'.made
    BY <1>2, <1>4, <1>9, <1>13, <1>14, <1>18
  <2> QED BY <1>19, <2>1 DEF SS!AdaptersInv
<1> QED BY <1>3, <1>5, <1>7, <1>8, <1>9, <1>10, <1>17, <1>20

(* So does the step that puts the new adapter in use.                       *)
LEMMA SsAssigned ==
    ASSUME SS!PartInv, NEW t \in SS!Threads, SS!Assign(t)
    PROVE  /\ \E to \in SS!Jobs : Moved(t, to) /\ to.current = v5[t].current
           /\ RestTyped /\ v1' = v1 /\ Head(v5[t].todo) = "assign"
           /\ v4' \in [used : 1..MaxBuilds, open : SUBSET (1..MaxBuilds), made : 1..MaxBuilds]
           /\ SS!AdaptersInv' /\ SS!UsedIsOpen'
<1> DEFINE w == SS!Went(t)
           built == v5[t].built
<1>1. v4 \in [used : 1..MaxBuilds, open : SUBSET (1..MaxBuilds), made : 1..MaxBuilds]
  BY DEF SS!PartInv, SS!TypeOK
<1>2. /\ v5[t].todo # <<>> /\ Head(v5[t].todo) = "assign" /\ SS!At(t, "assign")
      /\ UNCHANGED <<v1, v2, v3>> /\ v4' = [v4 EXCEPT !.used = built]
      /\ v5' = [v5 EXCEPT ![t] = w]
  BY DEF SS!Assign, SS!At, SS!Goes
<1>3. /\ w \in SS!Jobs /\ w.op = v5[t].op /\ w.arg = v5[t].arg /\ w.todo = Tail(v5[t].todo)
      /\ w.current = v5[t].current /\ w.built = built /\ w.previous = v5[t].previous
  BY <1>2, SsWent
<1> HIDE DEF w, built
<1>4. Moved(t, w)
  BY <1>2, <1>3 DEF Moved
<1>5. /\ built \in v4.open /\ built # v4.used /\ built <= v4.made /\ v5[t].previous <= v4.made
      /\ \A u \in SS!Threads : SS!At(u, "assign") \/ SS!At(u, "close") =>
            /\ v5[u].previous # built /\ (u # t => v5[u].built # built)
            /\ v5[u].built <= v4.made /\ v5[u].previous <= v4.made
  BY <1>2 DEF SS!PartInv, SS!AdaptersInv, built
<1>6. /\ v4'.used = built /\ v4'.made = v4.made /\ v4'.open = v4.open
      /\ v4' \in [used : 1..MaxBuilds, open : SUBSET (1..MaxBuilds), made : 1..MaxBuilds]
  <2>1. built \in 1..MaxBuilds
    BY <1>1, <1>5
  <2> QED BY <1>1, <1>2, <2>1
<1>7. /\ v5'[t] = w /\ (\A u \in SS!Threads \ {t} : v5'[u] = v5[u]) /\ ~SS!At(t, "assign")'
  BY <1>2, <1>3, <1>4, SsMoved
<1>8. /\ \A u \in SS!Threads : SS!At(u, "assign")' => u # t /\ SS!At(u, "assign")
      /\ \A u \in SS!Threads : SS!At(u, "assign")' \/ SS!At(u, "close")' =>
            SS!At(u, "assign") \/ SS!At(u, "close")
      /\ \A u \in SS!Threads : v5'[u].built = v5[u].built /\ v5'[u].previous = v5[u].previous
  BY <1>2, <1>3, <1>7 DEF SS!At, built
<1>9. RestTyped
  BY <1>2 DEF RestTyped, SS!PartInv, SS!TypeOK
<1>10. SS!UsedIsOpen'
  BY <1>5, <1>6 DEF SS!UsedIsOpen
<1>11. SS!AdaptersInv'
  <2>1. v4'.used <= v4'.made /\ \A x \in v4'.open : x <= v4'.made
    BY <1>5, <1>6 DEF SS!PartInv, SS!AdaptersInv
  <2>2. ASSUME NEW u \in SS!Threads, SS!At(u, "assign")'
        PROVE  /\ v5'[u].built \in v4'.open /\ v5'[u].built # v4'.used
               /\ \A x \in SS!Threads : SS!At(x, "assign")' \/ SS!At(x, "close")' =>
                     /\ v5'[x].previous # v5'[u].built
                     /\ x # u => v5'[x].built # v5'[u].built
    <3>1. u # t /\ SS!At(u, "assign")
      BY <1>8, <2>2
    <3>2. v5[u].built \in v4.open /\ v5[u].built # built
      BY <1>5, <3>1 DEF SS!PartInv, SS!AdaptersInv
    <3>3. \A x \in SS!Threads : SS!At(x, "assign") \/ SS!At(x, "close") =>
             v5[x].previous # v5[u].built /\ (x # u => v5[x].built # v5[u].built)
      BY <3>1 DEF SS!PartInv, SS!AdaptersInv
    <3> QED BY <1>6, <1>8, <3>2, <3>3
  <2>3. ASSUME NEW u \in SS!Threads, SS!At(u, "assign")' \/ SS!At(u, "close")'
        PROVE  v5'[u].previous # v4'.used /\ v5'[u].built <= v4'.made /\ v5'[u].previous <= v4'.made
    BY <1>5, <1>6, <1>8, <2>3
  <2> QED BY <2>1, <2>2, <2>3 DEF SS!AdaptersInv
<1> QED BY <1>2, <1>3, <1>4, <1>6, <1>9, <1>10, <1>11

(* And the one that closes the adapter before it.                           *)
LEMMA SsClosed ==
    ASSUME SS!PartInv, NEW t \in SS!Threads, SS!Close(t)
    PROVE  /\ \E to \in SS!Jobs : Moved(t, to) /\ to.current = v5[t].current
           /\ RestTyped /\ v1' = v1 /\ Head(v5[t].todo) = "close"
           /\ v4' \in [used : 1..MaxBuilds, open : SUBSET (1..MaxBuilds), made : 1..MaxBuilds]
           /\ SS!AdaptersInv' /\ SS!UsedIsOpen'
<1> DEFINE w == SS!Went(t)
           previous == v5[t].previous
           kept == w.reserved /\ v5[t].op = "configureAi"
           to == [w EXCEPT !.built = 0, !.previous = 0, !.reserved = kept]
           open == v4.open \ {previous}
<1>1. v4 \in [used : 1..MaxBuilds, open : SUBSET (1..MaxBuilds), made : 1..MaxBuilds]
  BY DEF SS!PartInv, SS!TypeOK
<1>2. /\ v5[t].todo # <<>> /\ Head(v5[t].todo) = "close" /\ SS!At(t, "close")
      /\ UNCHANGED <<v1, v2, v3>> /\ v4' = [v4 EXCEPT !.open = open]
      /\ v5' = [v5 EXCEPT ![t] = to]
  BY DEF SS!Close, SS!CloseProvider, SS!At, SS!Goes
<1>3. /\ w \in SS!Jobs /\ w.op = v5[t].op /\ w.arg = v5[t].arg /\ w.todo = Tail(v5[t].todo)
      /\ w.current = v5[t].current
  BY <1>2, SsWent
<1>4. kept \in BOOLEAN /\ 0 \in 0..MaxBuilds
  BY ServicesAssumption
<1>5. open \in SUBSET (1..MaxBuilds) /\ open \subseteq v4.open
  BY <1>1
<1> HIDE DEF w, kept
<1>6. /\ to \in SS!Jobs /\ to.op = w.op /\ to.arg = w.arg /\ to.todo = w.todo
      /\ to.current = w.current
  BY <1>3, <1>4 DEF SS!Jobs
<1> HIDE DEF to
<1>7. Moved(t, to)
  BY <1>2, <1>3, <1>6 DEF Moved
<1>8. previous # v4.used /\ (\A u \in SS!Threads : SS!At(u, "assign") => v5[u].built # previous)
  BY <1>2 DEF SS!PartInv, SS!AdaptersInv
<1>9. /\ v4'.used = v4.used /\ v4'.made = v4.made /\ v4'.open = open
      /\ v4' \in [used : 1..MaxBuilds, open : SUBSET (1..MaxBuilds), made : 1..MaxBuilds]
  <2> HIDE DEF open
  <2> QED BY <1>1, <1>2, <1>5
<1>10. /\ (\A u \in SS!Threads \ {t} : v5'[u] = v5[u])
       /\ ~SS!At(t, "assign")' /\ ~SS!At(t, "close")'
  BY <1>2, <1>6, <1>7, SsMoved
<1>11. \A u \in SS!Threads : /\ SS!At(u, "assign")' => SS!At(u, "assign") /\ v5'[u] = v5[u]
                             /\ SS!At(u, "close")' => SS!At(u, "close") /\ v5'[u] = v5[u]
  BY <1>10 DEF SS!At
<1>12. RestTyped
  BY <1>2 DEF RestTyped, SS!PartInv, SS!TypeOK
<1>13. SS!UsedIsOpen'
  BY <1>8, <1>9 DEF SS!PartInv, SS!UsedIsOpen
<1>14. SS!AdaptersInv'
  BY <1>5, <1>8, <1>9, <1>11 DEF SS!PartInv, SS!AdaptersInv
<1> QED BY <1>2, <1>3, <1>6, <1>7, <1>9, <1>12, <1>13, <1>14

(* Every step of a thread keeps the invariant.                              *)
LEMMA SsStepKeeps ==
    ASSUME SS!PartInv, NEW t \in SS!Threads, SS!StepNext(t) PROVE SS!PartInv'
<1>1. /\ v6' \in Pages
      /\ v6'.erasedUnder = (v6.erasedUnder \/ (SS!At(t, "erase") /\ SS!Busy))
      /\ v6.erasedUnder => v6'.erasedUnder
  BY SsPage
<1>2. v4 \in [used : 1..MaxBuilds, open : SUBSET (1..MaxBuilds), made : 1..MaxBuilds]
  BY DEF SS!PartInv, SS!TypeOK
<1> DEFINE Typed(to) == /\ Moved(t, to) /\ RestTyped
                        /\ v4' \in [used : 1..MaxBuilds, open : SUBSET (1..MaxBuilds),
                                    made : 1..MaxBuilds]
<1>3. ASSUME NEW to \in SS!Jobs, Typed(to) PROVE SS!TypeOK' /\ SS!StepsInv'
  <2>1. /\ v5' \in [SS!Threads -> SS!Jobs]
        /\ \A u \in SS!Threads : v5'[u].arg \in SS!Args(v5'[u].op)
        /\ SS!StepsInv'
    BY <1>3, SsMoved
  <2> QED BY <1>1, <1>3, <2>1 DEF SS!TypeOK, RestTyped, Pages
<1>4. CASE \E to \in SS!Jobs : Quiet(t, to)
  <2>1. PICK to \in SS!Jobs : Quiet(t, to)
    BY <1>4
  <2>2. Typed(to)
    BY <1>2, <2>1 DEF Quiet
  <2>3. SS!AdaptersInv' /\ SS!UsedIsOpen'
    BY <2>1, SsAdaptersKept DEF Quiet
  <2>4. SS!RowInv' /\ SS!ActiveIsChecked'
    BY <1>1, <2>1, SsRowKept DEF Quiet
  <2> QED BY <1>3, <2>2, <2>3, <2>4 DEF SS!PartInv
<1>5. CASE \E to \in SS!Jobs : Wrote(t, to)
  <2>1. PICK to \in SS!Jobs : Wrote(t, to)
    BY <1>5
  <2>2. Typed(to)
    BY <1>2, <2>1 DEF Wrote
  <2>3. SS!AdaptersInv' /\ SS!UsedIsOpen'
    BY <2>1, SsAdaptersKept DEF Wrote
  <2>4. SS!RowInv' /\ SS!ActiveIsChecked'
    BY <1>1, <2>1, SsRowWritten
  <2> QED BY <1>3, <2>2, <2>3, <2>4 DEF SS!PartInv
<1>6. CASE \E to \in SS!Jobs : Wiped(t, to)
  <2>1. PICK to \in SS!Jobs : Wiped(t, to)
    BY <1>6
  <2>2. Typed(to)
    BY <1>2, <2>1 DEF Wiped
  <2>3. SS!AdaptersInv' /\ SS!UsedIsOpen'
    BY <2>1, SsAdaptersKept DEF Wiped
  <2>4. SS!RowInv' /\ SS!ActiveIsChecked'
    BY <1>1, <2>1, SsRowWiped
  <2> QED BY <1>3, <2>2, <2>3, <2>4 DEF SS!PartInv
<1>7. CASE SS!Build(t) \/ SS!BuildFails(t) \/ SS!Assign(t) \/ SS!Close(t)
  <2>1. /\ \E to \in SS!Jobs : Moved(t, to) /\ to.current = v5[t].current
        /\ RestTyped /\ v1' = v1 /\ Head(v5[t].todo) \in {"build", "assign", "close"}
        /\ v4' \in [used : 1..MaxBuilds, open : SUBSET (1..MaxBuilds), made : 1..MaxBuilds]
        /\ SS!AdaptersInv' /\ SS!UsedIsOpen'
    BY <1>7, SsBuilt, SsNotBuilt, SsAssigned, SsClosed
  <2>2. PICK to \in SS!Jobs : Moved(t, to) /\ to.current = v5[t].current
    BY <2>1
  <2>3. Typed(to)
    BY <2>1, <2>2
  <2>4. SS!RowInv' /\ SS!ActiveIsChecked'
    BY <1>1, <2>1, <2>2, SsRowKept
  <2> QED BY <1>3, <2>1, <2>3, <2>4 DEF SS!PartInv
<1> HIDE DEF Typed
<1>8. CASE \/ SS!ReadCurrent(t) \/ SS!Reserve(t) \/ SS!WorkFails(t) \/ SS!WorkPasses(t)
           \/ SS!Allow(t) \/ SS!ReadValue(t) \/ SS!ReadAi(t) \/ SS!WriteAi(t) \/ SS!DropToken(t)
           \/ SS!RefuseWhileActive(t)
  BY <1>4, <1>8, SsQuietSteps
<1>9. CASE SS!WriteRow(t) \/ SS!WriteStarted(t) \/ SS!WorkerTimesOut(t) \/ SS!Erase(t)
  BY <1>4, <1>5, <1>6, <1>9, SsRowSteps
<1> QED BY <1>7, <1>8, <1>9 DEF SS!StepNext

(* Every step of the settings keeps their invariant.                        *)
LEMMA SsKeeps == ASSUME SS!PartInv, SS!Next PROVE SS!PartInv'
BY SsSlotKeeps, SsStepKeeps DEF SS!Next

-----------------------------------------------------------------------------
(* The call of the facade (FacadeCall).                                     *)

(* Every handler has its write behind the gate, if it has one.              *)
LEMMA ScriptsAreGuarded ==
    ASSUME NEW name \in FC!Calls
    PROVE  /\ FC!Script[name] \in Seq(FC!StepNames) /\ FC!GateGuards(FC!Script[name])
           /\ FC!Script[name] # <<>> /\ Head(FC!Script[name]) # "write"
           /\ name \in FC!Writers => FC!EndsInWrite(FC!Script[name])
<1> DEFINE Good(s) == s \in Seq(FC!StepNames) /\ FC!GateGuards(s) /\ s # <<>> /\ Head(s) # "write"
<1>1. Good(FC!TestProviderConnection) /\ Good(FC!LatestTradingDay) /\ Good(FC!PreviewAi)
      /\ Good(FC!GetSecuritySnapshot) /\ Good(FC!TestReportModel)
  <2>1. ASSUME NEW x \in FC!StepNames, x # "write" PROVE Good(<<x>>)
    <3>1. Len(<<x>>) = 1 /\ <<x>>[1] = x /\ Head(<<x>>) = x /\ <<x>> # <<>>
      OBVIOUS
    <3>2. <<x>> \in Seq(FC!StepNames)
      OBVIOUS
    <3> QED BY <2>1, <3>1, <3>2 DEF FC!GateGuards
  <2> QED BY <2>1 DEF FC!StepNames, FC!TestProviderConnection, FC!LatestTradingDay, FC!PreviewAi,
         FC!GetSecuritySnapshot, FC!TestReportModel
<1>2. Good(FC!TestMarketData) /\ Good(FC!TestTurningPoint) /\ Good(FC!TestExtremeDeviation)
  <2>1. ASSUME NEW x \in FC!StepNames, NEW y \in FC!StepNames, NEW z \in FC!StepNames,
               x # "write", y # "write", z # "write"
        PROVE  Good(<<x, y, z>>)
    <3> DEFINE s == <<x, y, z>>
    <3>1. Len(s) = 3 /\ s[1] = x /\ s[2] = y /\ s[3] = z /\ Head(s) = x /\ s # <<>>
      OBVIOUS
    <3>2. s \in Seq(FC!StepNames)
      OBVIOUS
    <3> HIDE DEF s
    <3>3. \A i \in 1..Len(s) : s[i] # "write"
      BY <2>1, <3>1
    <3> QED BY <2>1, <3>1, <3>2, <3>3 DEF FC!GateGuards
  <2>2. {"profiles", "calendar", "indicators", "snapshot later", "series"} \subseteq FC!StepNames
    BY DEF FC!StepNames
  <2> HIDE DEF Good
  <2>3. Good(FC!TestMarketData)
    BY <2>1, <2>2 DEF FC!TestMarketData
  <2>4. Good(FC!TestTurningPoint)
    BY <2>1, <2>2 DEF FC!TestTurningPoint
  <2>5. Good(FC!TestExtremeDeviation)
    BY <2>1, <2>2 DEF FC!TestExtremeDeviation
  <2> QED BY <2>3, <2>4, <2>5
<1>3. Good(FC!TestProfileAi)
  <2> DEFINE s == <<"profiles", "ai">>
  <2>1. Len(s) = 2 /\ s[1] = "profiles" /\ s[2] = "ai" /\ Head(s) = "profiles" /\ s # <<>>
    OBVIOUS
  <2>2. s \in Seq(FC!StepNames)
    BY DEF FC!StepNames
  <2>3. FC!TestProfileAi = s
    BY DEF FC!TestProfileAi
  <2> HIDE DEF s
  <2>4. \A i \in 1..Len(s) : s[i] # "write"
    BY <2>1
  <2> QED BY <2>1, <2>2, <2>3, <2>4 DEF FC!GateGuards
<1>4. /\ Good(FC!RefreshProfile) /\ FC!EndsInWrite(FC!RefreshProfile)
      /\ Good(FC!ReanalyzeSecurity) /\ FC!EndsInWrite(FC!ReanalyzeSecurity)
  <2>1. ASSUME NEW y \in FC!StepNames, y # "write"
        PROVE  Good(<<"subject", y, "gate", "write">>) /\ FC!EndsInWrite(<<"subject", y, "gate", "write">>)
    <3> DEFINE s == <<"subject", y, "gate", "write">>
    <3>1. /\ Len(s) = 4 /\ s[1] = "subject" /\ s[2] = y /\ s[3] = "gate" /\ s[4] = "write"
      OBVIOUS
    <3>a. Head(s) = "subject"
      OBVIOUS
    <3>b. s # <<>>
      OBVIOUS
    <3>c. "subject" \in FC!StepNames /\ "gate" \in FC!StepNames /\ "write" \in FC!StepNames
      BY DEF FC!StepNames
    <3>2. s \in Seq(FC!StepNames)
      BY <3>c
    <3> HIDE DEF s
    <3>3. \A i \in 1..Len(s) : s[i] = "write" => i = 4
      BY <2>1, <3>1, <3>2
    <3>4. s[Len(s)] = "write" /\ s[Len(s) - 1] = "gate"
      BY <3>1
    <3>5. \A i \in 1..Len(s) : s[i] = "write" => i = Len(s)
      BY <3>1, <3>3
    <3>6. FC!GateGuards(s) /\ FC!EndsInWrite(s)
      BY <3>b, <3>4, <3>5 DEF FC!GateGuards, FC!EndsInWrite
    <3> QED BY <3>2, <3>6, <3>a, <3>b DEF s
  <2>2. {"profiles", "ai"} \subseteq FC!StepNames
    BY DEF FC!StepNames
  <2> HIDE DEF Good
  <2> QED BY <2>1, <2>2 DEF FC!RefreshProfile, FC!ReanalyzeSecurity
<1>5. Good(FC!TurningReport) /\ FC!EndsInWrite(FC!TurningReport)
  <2> DEFINE s == <<"not canceled", "subject", "ai", "gate", "write">>
  <2>1. /\ Len(s) = 5 /\ s[1] = "not canceled" /\ s[2] = "subject" /\ s[3] = "ai" /\ s[4] = "gate"
        /\ s[5] = "write" /\ Head(s) = "not canceled" /\ s # <<>>
    OBVIOUS
  <2>2. s \in Seq(FC!StepNames)
    BY DEF FC!StepNames
  <2>3. FC!TurningReport = s
    BY DEF FC!TurningReport
  <2> HIDE DEF s
  <2>a. Len(s) = 5
    BY <2>1
  <2>b. s[1] # "write" /\ s[2] # "write" /\ s[3] # "write" /\ s[4] # "write"
    BY <2>1
  <2>c. \A i \in 1..5 : i = 5 \/ i = 1 \/ i = 2 \/ i = 3 \/ i = 4
    OBVIOUS
  <2>4. ASSUME NEW i \in 1..Len(s), s[i] = "write" PROVE i = 5
    <3>1. i \in 1..5
      BY <2>a
    <3>2. i # 1 /\ i # 2 /\ i # 3 /\ i # 4
      BY <2>4, <2>b
    <3> QED BY <2>c, <3>1, <3>2
  <2>d. s[4] = "gate"
    BY <2>1
  <2>e. s[5] = "write"
    BY <2>1
  <2>f. Len(s) - 1 = 4
    BY <2>a
  <2>5. s[Len(s)] = "write" /\ s[Len(s) - 1] = "gate"
    BY <2>a, <2>d, <2>e, <2>f
  <2>6. \A i \in 1..Len(s) : s[i] = "write" => i = Len(s)
    BY <2>1, <2>4
  <2> QED BY <2>1, <2>2, <2>3, <2>5, <2>6 DEF FC!GateGuards, FC!EndsInWrite
<1>6. FC!DeviationReport = FC!TurningReport /\ FC!RsReport = FC!TurningReport
  BY DEF FC!DeviationReport, FC!RsReport, FC!TurningReport
<1>7. Good(FC!Script[name]) /\ (name \in FC!Writers => FC!EndsInWrite(FC!Script[name]))
  <2> HIDE DEF Good
  <2> QED BY <1>1, <1>2, <1>3, <1>4, <1>5, <1>6 DEF FC!Calls, FC!Script, FC!Writers, FC!Reports
<1> QED BY <1>7

(* What is left of a guarded script after a step is guarded still.          *)
LEMMA GuardedTail ==
    ASSUME NEW s \in Seq(FC!StepNames), s # <<>>, FC!GateGuards(s)
    PROVE  /\ FC!GateGuards(Tail(s))
           /\ Head(s) = "write" => Tail(s) = <<>>
           /\ Head(s) # "gate" /\ Tail(s) # <<>> => Head(Tail(s)) # "write"
           /\ FC!EndsInWrite(s) /\ Head(s) # "write" => FC!EndsInWrite(Tail(s))
<1>1. Len(s) \in Nat \ {0} /\ Tail(s) \in Seq(FC!StepNames) /\ Len(Tail(s)) = Len(s) - 1
  BY SequenceFacts
<1>2. \A i \in 1..Len(Tail(s)) : Tail(s)[i] = s[i + 1] /\ i + 1 \in 1..Len(s)
  BY <1>1
<1>3. Head(s) = s[1]
  BY <1>1
<1>4. FC!GateGuards(Tail(s))
  <2> SUFFICES ASSUME NEW i \in 1..Len(Tail(s)), Tail(s)[i] = "write"
               PROVE  i = Len(Tail(s)) /\ (i > 1 => Tail(s)[i - 1] = "gate")
    BY DEF FC!GateGuards
  <2>1. s[i + 1] = "write" /\ i + 1 \in 1..Len(s)
    BY <1>2
  <2>2. i + 1 = Len(s) /\ s[i + 1 - 1] = "gate"
    BY <2>1 DEF FC!GateGuards
  <2>3. i > 1 => i - 1 \in 1..Len(Tail(s))
    BY <1>1
  <2>4. i > 1 => Tail(s)[i - 1] = s[i - 1 + 1]
    BY <1>2, <2>3
  <2>5. i \in Nat /\ i - 1 + 1 = i /\ i + 1 - 1 = i
    BY <1>1
  <2>a. i + 1 = Len(s)
    BY <2>2
  <2> DEFINE n == Len(s)
             m == Len(Tail(s))
  <2>b. n \in Nat /\ m = n - 1 /\ i + 1 = n /\ i \in Nat
    BY <1>1, <2>5, <2>a
  <2>6. i = m
    <3> HIDE DEF m, n
    <3> QED BY <2>b
  <2> QED BY <2>2, <2>4, <2>5, <2>6
<1>5. Head(s) = "write" => Len(s) = 1
  <2>1. 1 \in 1..Len(s)
    BY <1>1
  <2> QED BY <1>3, <2>1 DEF FC!GateGuards
<1>6. Len(s) = 1 <=> Tail(s) = <<>>
  <2>a. ASSUME NEW t \in Seq(FC!StepNames), Len(t) = 0 PROVE t = <<>>
    BY <2>a
  <2>b. Len(s) = 1 => Len(Tail(s)) = 0
    BY <1>1
  <2>1. Len(s) = 1 => Tail(s) = <<>>
    BY <1>1, <2>a, <2>b
  <2>2. Len(s) # 1 => Tail(s) # <<>>
    BY SequenceFacts
  <2> QED BY <2>1, <2>2
<1>7. Tail(s) # <<>> => Len(s) > 1 /\ Head(Tail(s)) = s[2]
  BY <1>1, <1>2, <1>6
<1>8. s[2] = "write" /\ Len(s) > 1 => s[1] = "gate"
  <2>1. Len(s) > 1 => 2 \in 1..Len(s)
    BY <1>1
  <2>2. s[2] = "write" /\ Len(s) > 1 => s[2 - 1] = "gate"
    BY <2>1 DEF FC!GateGuards
  <2> QED BY <2>2
<1>9. FC!EndsInWrite(s) /\ Head(s) # "write" => FC!EndsInWrite(Tail(s))
  <2> SUFFICES ASSUME s[Len(s)] = "write", s[1] # "write" PROVE FC!EndsInWrite(Tail(s))
    BY <1>3 DEF FC!EndsInWrite
  <2>1. Len(s) # 1
    OBVIOUS
  <2>2. Len(Tail(s)) \in 1..Len(Tail(s)) /\ Tail(s) # <<>>
    BY <1>1, <1>6, <2>1
  <2>3. Tail(s)[Len(Tail(s))] = s[Len(s)]
    BY <1>1, <1>2, <2>2
  <2> QED BY <2>2, <2>3 DEF FC!EndsInWrite
<1> QED BY <1>3, <1>4, <1>5, <1>6, <1>7, <1>8, <1>9

(* A call begins with its invariant.                                        *)
LEMMA CallInit == FC!Init => FC!PartInv
<1> SUFFICES ASSUME FC!Init PROVE FC!PartInv
  OBVIOUS
<1>1. /\ v1.op = "none" /\ v1.next = "start" /\ ~v6 /\ v7 = "none"
  BY DEF FC!Init
<1>2. FC!TypeOK
  <2>1. <<>> \in Seq(FC!StepNames) /\ 0 \in 0..MaxReloads
    BY ServicesAssumption
  <2>2. v1 \in FC!CallRecords
    BY <2>1 DEF FC!Init, FC!CallRecords, FC!Ops, FC!Places, FC!Terminal
  <2>3. v3 \in FC!Providers
    BY <2>1 DEF FC!Init, FC!Providers
  <2> QED BY <2>2, <2>3 DEF FC!Init, FC!TypeOK
<1>3. FC!CallIsHonest /\ FC!HandlerInv /\ FC!ResultInv
  BY <1>1 DEF FC!CallIsHonest, FC!HandlerInv, FC!ResultInv, FC!Step
<1> QED BY <1>2, <1>3 DEF FC!PartInv

(* Every step of a call leaves each variable in its type.                   *)
LEMMA CallType == ASSUME FC!PartInv, FC!Next PROVE FC!TypeOK'
<1> USE DEF FC!Ops, FC!Places, FC!Terminal
<1>1. FC!TypeOK
  BY DEF FC!PartInv
<1>2. v1 \in FC!CallRecords /\ v1.left \in Seq(FC!StepNames) /\ v3 \in FC!Providers
  BY <1>1 DEF FC!TypeOK, FC!CallRecords
<1>3. v1.left # <<>> => [v1 EXCEPT !.left = Tail(@)] \in FC!CallRecords
  <2> SUFFICES ASSUME v1.left # <<>> PROVE [v1 EXCEPT !.left = Tail(@)] \in FC!CallRecords
    OBVIOUS
  <2>1. Tail(v1.left) \in Seq(FC!StepNames)
    BY <1>2, SequenceFacts
  <2> QED BY <1>2, <2>1 DEF FC!CallRecords
<1>4. \A status \in FC!Terminal : [v1 EXCEPT !.next = "complete", !.candidate = status] \in FC!CallRecords
  BY <1>2 DEF FC!CallRecords
<1>5. CASE FC!Cancel
  BY <1>1, <1>2, <1>5 DEF FC!Cancel, FC!TypeOK, FC!CallRecords
<1>6. CASE FC!Delete
  BY <1>1, <1>6 DEF FC!Delete, FC!TypeOK
<1>7. CASE FC!Reload
  <2>1. v3.set + 1 \in 0..MaxReloads
    BY <1>2, <1>7, ServicesAssumption DEF FC!Reload, FC!Providers
  <2> QED BY <1>1, <1>7, <2>1 DEF FC!Reload, FC!TypeOK, FC!Providers
<1>8. CASE FC!Start
  <2>1. v1' \in FC!CallRecords
    BY <1>2, <1>8 DEF FC!Start, FC!CallRecords
  <2> QED BY <1>1, <1>8, <2>1 DEF FC!Start, FC!Return, FC!TypeOK
<1>9. CASE FC!Begin
  <2>1. v1.name \in FC!Calls
    BY <1>2 DEF FC!CallRecords
  <2>2. FC!Script[v1.name] \in Seq(FC!StepNames)
    BY <2>1, ScriptsAreGuarded
  <2>3. v1' \in FC!CallRecords
    BY <1>2, <1>9, <2>2 DEF FC!Begin, FC!CallRecords
  <2> QED BY <1>1, <1>9, <2>3 DEF FC!Begin, FC!Return, FC!TypeOK
<1>10. CASE FC!Ask
  <2>1. v1' \in FC!CallRecords
    BY <1>3, <1>4, <1>10 DEF FC!Ask, FC!Goes, FC!Proposes, FC!Step
  <2> QED BY <1>1, <1>2, <1>10, <2>1 DEF FC!Ask, FC!TypeOK
<1>11. CASE FC!AskForLater
  BY <1>1, <1>2, <1>3, <1>11 DEF FC!AskForLater, FC!TypeOK, FC!Goes, FC!Step
<1>12. CASE FC!AskAi \/ FC!ReadSubject \/ FC!NotCanceled \/ FC!Write \/ FC!AllGood
  <2>1. v1' \in FC!CallRecords
    BY <1>3, <1>4, <1>12 DEF FC!AskAi, FC!ReadSubject, FC!NotCanceled, FC!Write, FC!AllGood, FC!Goes,
                             FC!Proposes, FC!Step
  <2> QED BY <1>1, <1>12, <2>1 DEF FC!AskAi, FC!ReadSubject, FC!NotCanceled, FC!Write, FC!AllGood,
                                   FC!TypeOK
<1>13. CASE FC!Gate
  <2>1. Tail(v1.left) \in Seq(FC!StepNames)
    BY <1>2, <1>13, SequenceFacts DEF FC!Gate, FC!Step
  <2>2. [v1 EXCEPT !.left = Tail(v1.left), !.op = "COMMITTING"] \in FC!CallRecords
    BY <1>2, <2>1 DEF FC!CallRecords
  <2>3. v1' \in FC!CallRecords
    BY <1>4, <1>13, <2>2 DEF FC!Gate, FC!Proposes
  <2> QED BY <1>1, <1>13, <2>3 DEF FC!Gate, FC!TypeOK
<1>14. CASE FC!Complete
  <2>1. v1.candidate \in FC!Terminal
    BY <1>14 DEF FC!Complete, FC!PartInv, FC!ResultInv
  <2>2. v1' \in FC!CallRecords
    BY <1>2, <1>14, <2>1 DEF FC!Complete, FC!CallRecords
  <2> QED BY <1>1, <1>14, <2>2 DEF FC!Complete, FC!Return, FC!TypeOK
<1> QED BY <1>5, <1>6, <1>7, <1>8, <1>9, <1>10, <1>11, <1>12, <1>13, <1>14 DEF FC!Next

(* Going on to the next step of the handler.                                *)
LEMMA CallGoesOn ==
    ASSUME FC!PartInv, v1.next = "step", v1.left # <<>>, Head(v1.left) \notin {"gate", "write"},
           FC!Goes, UNCHANGED <<v6, v7>>
    PROVE  FC!CallIsHonest' /\ FC!HandlerInv' /\ FC!ResultInv'
<1>1. v1 \in FC!CallRecords /\ v1.left \in Seq(FC!StepNames)
  BY DEF FC!PartInv, FC!TypeOK, FC!CallRecords
<1>2. /\ v1'.name = v1.name /\ v1'.op = v1.op /\ v1'.next = v1.next /\ v1'.left = Tail(v1.left)
  BY <1>1 DEF FC!Goes, FC!CallRecords
<1>3. FC!GateGuards(v1.left)
  BY DEF FC!PartInv, FC!HandlerInv
<1>4. /\ FC!GateGuards(Tail(v1.left))
      /\ Tail(v1.left) # <<>> => Head(Tail(v1.left)) # "write"
      /\ FC!EndsInWrite(v1.left) => FC!EndsInWrite(Tail(v1.left))
  BY <1>1, <1>3, GuardedTail
<1>5. FC!HandlerInv'
  BY <1>2, <1>4 DEF FC!PartInv, FC!HandlerInv, FC!Step
<1>6. FC!CallIsHonest' /\ FC!ResultInv'
  BY <1>2 DEF FC!PartInv, FC!HandlerInv, FC!ResultInv, FC!CallIsHonest
<1> QED BY <1>5, <1>6

(* A step that fails or is canceled proposes so, and nothing is told yet.   *)
LEMMA CallGivesUp ==
    ASSUME FC!PartInv, v1.next = "step", NEW status \in {"FAILED", "CANCELED"}, FC!Proposes(status),
           v1.left # <<>>, UNCHANGED <<v6, v7>>
    PROVE  FC!CallIsHonest' /\ FC!HandlerInv' /\ FC!ResultInv'
<1>1. v1 \in FC!CallRecords
  BY DEF FC!PartInv, FC!TypeOK
<1>2. /\ v1'.name = v1.name /\ v1'.op = v1.op /\ v1'.next = "complete" /\ v1'.candidate = status
  BY <1>1 DEF FC!Proposes, FC!CallRecords
<1> QED BY <1>2 DEF FC!PartInv, FC!HandlerInv, FC!ResultInv, FC!CallIsHonest, FC!Terminal

(* Every step of a call keeps its invariant.                                *)
LEMMA CallKeeps == ASSUME FC!PartInv, FC!Next PROVE FC!PartInv'
<1>1. FC!TypeOK'
  BY CallType
<1> DEFINE Goal == FC!CallIsHonest' /\ FC!HandlerInv' /\ FC!ResultInv'
<1>2. /\ v1 \in FC!CallRecords /\ v1.left \in Seq(FC!StepNames) /\ v1.name \in FC!Calls
      /\ v6 \in BOOLEAN
      /\ FC!CallIsHonest /\ FC!HandlerInv /\ FC!ResultInv
  BY DEF FC!PartInv, FC!TypeOK, FC!CallRecords
<1> SUFFICES Goal
  BY <1>1 DEF FC!PartInv
<1>3. CASE FC!Cancel
  <2>1. /\ v1.op \in {"RESERVED", "EXECUTING"} /\ v1'.op = "CANCELED" /\ v1'.name = v1.name
        /\ v1'.next = v1.next /\ v1'.left = v1.left /\ v1'.candidate = v1.candidate
        /\ v6' = v6 /\ v7' = v7
    BY <1>2, <1>3 DEF FC!Cancel, FC!CallRecords
  <2>2. v1.next # "done" /\ v7 = "none"
    BY <1>2, <2>1 DEF FC!ResultInv, FC!Terminal
  <2>3. ~v6
    <3>1. v1.next \in FC!Places
      BY <1>2 DEF FC!CallRecords
    <3> QED BY <1>2, <2>1, <2>2, <3>1 DEF FC!ResultInv, FC!HandlerInv, FC!Places
  <2>4. FC!HandlerInv'
    BY <1>2, <2>1, <2>3 DEF FC!HandlerInv, FC!Step
  <2>5. FC!ResultInv'
    BY <1>2, <2>1, <2>2, <2>3 DEF FC!ResultInv
  <2>6. FC!CallIsHonest'
    BY <2>1, <2>2, <2>3 DEF FC!CallIsHonest
  <2> QED BY <2>4, <2>5, <2>6
<1>4. CASE FC!Delete \/ FC!Reload
  <2>1. v1' = v1 /\ v6' = v6 /\ v7' = v7
    BY <1>4 DEF FC!Delete, FC!Reload
  <2> QED BY <1>2, <2>1 DEF FC!CallIsHonest, FC!HandlerInv, FC!ResultInv, FC!Step
<1>5. CASE FC!Start
  <2>1. /\ v1.next = "start" /\ v1'.name = v1.name /\ v1'.next \in {"begin", "done"} /\ v6' = v6
        /\ v1'.op \in {v1.op, "RESERVED"}
        /\ v1'.next = "done" => v7' \in {"ok", "failed", "raised"} /\ v1'.op = v1.op
                                /\ (v7' = "ok" => v1.name = "reportModel")
        /\ v1'.next = "begin" => v7' = v7
    BY <1>2, <1>5 DEF FC!Start, FC!CallRecords, FC!Return
  <2>2. v1.op = "none"
    BY <1>2, <2>1 DEF FC!ResultInv
  <2>3. ~v6 /\ ~v6' /\ v7 = "none"
    BY <1>2, <2>1 DEF FC!ResultInv
  <2>4. FC!HandlerInv'
    BY <2>1 DEF FC!HandlerInv
  <2>5. "reportModel" \notin FC!Writers
    BY DEF FC!Writers, FC!Reports
  <2>7. CASE v1'.next = "begin"
    BY <2>1, <2>2, <2>3, <2>7 DEF FC!CallIsHonest, FC!HandlerInv, FC!ResultInv
  <2>8. CASE v1'.next = "done"
    BY <1>2, <2>1, <2>3, <2>4, <2>2, <2>5, <2>8 DEF FC!CallIsHonest, FC!ResultInv, FC!Terminal
  <2> QED BY <2>1, <2>7, <2>8
<1>6. CASE FC!Begin
  <2>1. /\ v1.next = "begin" /\ v1'.name = v1.name /\ v6' = v6 /\ ~v6 /\ v7 = "none"
    BY <1>2, <1>6 DEF FC!Begin, FC!CallRecords, FC!Return, FC!ResultInv
  <2>2. CASE v1.op = "RESERVED" /\ v1' = [v1 EXCEPT !.op = "EXECUTING", !.next = "step",
                                                  !.left = FC!Script[v1.name]] /\ v7' = v7
    <3>1. v1'.op = "EXECUTING" /\ v1'.next = "step" /\ v1'.left = FC!Script[v1.name]
      BY <1>2, <2>2 DEF FC!CallRecords
    <3>2. /\ FC!GateGuards(FC!Script[v1.name]) /\ Head(FC!Script[v1.name]) # "write"
          /\ v1.name \in FC!Writers => FC!EndsInWrite(FC!Script[v1.name])
      BY <1>2, ScriptsAreGuarded
    <3>3. FC!HandlerInv'
      BY <2>1, <3>1, <3>2 DEF FC!HandlerInv, FC!Step
    <3> QED BY <2>1, <2>2, <3>1, <3>3 DEF FC!ResultInv, FC!CallIsHonest
  <2>3. CASE v1'.next = "done" /\ v1'.op \in {"none", "CANCELED"} /\ v7' \in {"raised", "canceled", "failed"}
    BY <2>1, <2>3 DEF FC!HandlerInv, FC!ResultInv, FC!CallIsHonest, FC!Terminal
  <2>4. \/ v1.op = "RESERVED" /\ v1' = [v1 EXCEPT !.op = "EXECUTING", !.next = "step",
                                                  !.left = FC!Script[v1.name]] /\ v7' = v7
        \/ v1'.next = "done" /\ v1'.op \in {"none", "CANCELED"} /\ v7' \in {"raised", "canceled", "failed"}
    BY <1>2, <1>6 DEF FC!Begin, FC!CallRecords, FC!Return
  <2> QED BY <2>2, <2>3, <2>4
<1>7. CASE FC!Ask \/ FC!AskForLater \/ FC!AskAi \/ FC!ReadSubject \/ FC!NotCanceled
  <2>1. /\ v1.next = "step" /\ v1.left # <<>> /\ Head(v1.left) \notin {"gate", "write"}
        /\ UNCHANGED <<v6, v7>>
        /\ FC!Goes \/ \E status \in {"FAILED", "CANCELED"} : FC!Proposes(status)
    BY <1>7 DEF FC!Ask, FC!AskForLater, FC!AskAi, FC!ReadSubject, FC!NotCanceled, FC!Step
  <2> QED BY <2>1, CallGoesOn, CallGivesUp
<1>8. CASE FC!Gate
  <2>1. v1.next = "step" /\ v1.left # <<>> /\ Head(v1.left) = "gate" /\ UNCHANGED <<v6, v7>>
    BY <1>8 DEF FC!Gate, FC!Step
  <2>2. CASE v1.op = "CANCELED"
    BY <1>8, <2>1, <2>2, CallGivesUp DEF FC!Gate
  <2>3. CASE v1.op # "CANCELED"
    <3>1. /\ v1'.name = v1.name /\ v1'.op = "COMMITTING" /\ v1'.next = "step"
          /\ v1'.left = Tail(v1.left)
      BY <1>2, <1>8, <2>1, <2>3 DEF FC!Gate, FC!CallRecords
    <3>2. FC!GateGuards(v1.left)
      BY <1>2, <2>1 DEF FC!HandlerInv
    <3>3. /\ FC!GateGuards(Tail(v1.left))
          /\ FC!EndsInWrite(v1.left) => FC!EndsInWrite(Tail(v1.left))
      BY <1>2, <2>1, <3>2, GuardedTail
    <3>4. FC!HandlerInv'
      BY <1>2, <2>1, <3>1, <3>3 DEF FC!HandlerInv, FC!Step
    <3> QED BY <1>2, <2>1, <3>1, <3>4 DEF FC!HandlerInv, FC!ResultInv, FC!CallIsHonest
  <2> QED BY <2>2, <2>3
<1>9. CASE FC!Write
  <2>1. v1.next = "step" /\ v1.left # <<>> /\ Head(v1.left) = "write" /\ v7' = v7 /\ v1.op = "COMMITTING"
    BY <1>2, <1>9 DEF FC!Write, FC!Step, FC!HandlerInv
  <2>2. CASE v6' = v6 /\ FC!Proposes("FAILED")
    BY <2>1, <2>2, CallGivesUp
  <2>3. CASE v6' = TRUE /\ FC!Goes
    <3>1. FC!GateGuards(v1.left)
      BY <1>2, <2>1 DEF FC!HandlerInv
    <3>2. Tail(v1.left) = <<>> /\ FC!GateGuards(Tail(v1.left))
      BY <1>2, <2>1, <3>1, GuardedTail
    <3>3. /\ v1'.name = v1.name /\ v1'.op = v1.op /\ v1'.next = v1.next /\ v1'.left = Tail(v1.left)
      BY <1>2, <2>3 DEF FC!Goes, FC!CallRecords
    <3>4. FC!HandlerInv'
      BY <1>2, <2>1, <2>3, <3>2, <3>3 DEF FC!HandlerInv, FC!Step
    <3> QED BY <1>2, <2>1, <2>3, <3>3, <3>4 DEF FC!ResultInv, FC!CallIsHonest
  <2> QED BY <1>9, <2>2, <2>3 DEF FC!Write
<1>10. CASE FC!AllGood
  <2>1. /\ v1.next = "step" /\ v1.left = <<>> /\ v6' = v6 /\ v7' = v7 /\ v1'.name = v1.name
        /\ v1'.op = v1.op /\ v1'.next = "complete"
        /\ v1'.candidate = IF v1.name \in FC!Reports /\ v1.op = "CANCELED" THEN "CANCELED" ELSE "SUCCEEDED"
    BY <1>2, <1>10 DEF FC!AllGood, FC!Proposes, FC!CallRecords
  <2>2. ~FC!EndsInWrite(v1.left)
    BY <2>1 DEF FC!EndsInWrite
  <2> QED BY <1>2, <2>1, <2>2 DEF FC!HandlerInv, FC!ResultInv, FC!CallIsHonest, FC!Terminal
<1>11. CASE FC!Complete
  <2> DEFINE winner == IF v1.op = "CANCELED" THEN "CANCELED" ELSE v1.candidate
  <2>1. /\ v1.next = "complete" /\ v6' = v6 /\ v1'.name = v1.name /\ v1'.op = winner
        /\ v1'.next = "done"
        /\ v7' = CASE winner = "SUCCEEDED" -> "ok"
                   [] winner = "CANCELED" /\ v1.name \in FC!Reports -> "canceled"
                   [] OTHER -> "failed"
    BY <1>2, <1>11 DEF FC!Complete, FC!Return, FC!CallRecords
  <2>2. /\ winner \in FC!Terminal /\ (v6 => winner = "SUCCEEDED")
        /\ winner = "SUCCEEDED" /\ v1.name \in FC!Writers => v6
    BY <1>2, <2>1 DEF FC!ResultInv, FC!Terminal
  <2>3. /\ v7' \in {"ok", "canceled", "failed"} /\ (v7' = "ok" <=> winner = "SUCCEEDED")
    BY <2>1
  <2> HIDE DEF winner
  <2> QED BY <1>2, <2>1, <2>2, <2>3 DEF FC!HandlerInv, FC!ResultInv, FC!CallIsHonest, FC!Terminal
<1> QED BY <1>3, <1>4, <1>5, <1>6, <1>7, <1>8, <1>9, <1>10, <1>11 DEF FC!Next

-----------------------------------------------------------------------------
(* The AI request (AiRequest).                                              *)

LEMMA AiInit == AI!Init => AI!PartInv
<1> SUFFICES ASSUME AI!Init PROVE AI!PartInv
  OBVIOUS
<1> USE ServicesAssumption DEF AI!Init, AI!NoConfig, AI!NoJob, AI!None, AI!At, AI!Registered
<1>1. AI!TypeOK
  <2>1. AI!NoConfig \in AI!Configs
    BY DEF AI!Configs
  <2>2. AI!NoJob \in AI!Jobs
    BY <2>1 DEF AI!Jobs, AI!Places, AI!Endings, AI!Kinds
  <2> QED BY <2>1, <2>2 DEF AI!TypeOK
<1>2. AI!ConfiguredLimit \in 0..2
  BY DEF AI!ConfiguredLimit, AI!Least
<1>3. AI!ConfigInv /\ AI!KeyInv /\ AI!SentInv
  BY <1>2 DEF AI!ConfigInv, AI!KeyInv, AI!SentInv
<1>4. AI!KeyGoesToItsEndpoint /\ AI!CancelStopsRequests /\ AI!RetriesAreBounded
  BY <1>2 DEF AI!KeyGoesToItsEndpoint, AI!CancelStopsRequests, AI!RetriesAreBounded
<1> QED BY <1>1, <1>3, <1>4 DEF AI!PartInv

(* The configured number of repetitions is between none and two.            *)
LEMMA AiLimit == AI!ConfiguredLimit \in 0..2
BY ServicesAssumption DEF AI!ConfiguredLimit, AI!Least

(* A request that is tried again has been sent no more often than allowed.  *)
LEMMA AiRetryLimit ==
    ASSUME NEW code, AI!TryAgain(code), v4 \in AI!Jobs
    PROVE  /\ v4.kind # "discover" /\ v4.sent <= AI!ConfiguredLimit
           /\ code \in AI!Overloaded => v4.sent <= 1
<1>1. AI!RetryLimit(code) \in 0..2 /\ AI!RetryLimit(code) <= AI!ConfiguredLimit
      /\ (code \in AI!Overloaded => AI!RetryLimit(code) <= 1)
  BY AiLimit DEF AI!RetryLimit, AI!Least, AI!Overloaded, AI!Unreachable, AI!Malformed
<1>2. v4.sent \in 0..3
  BY DEF AI!Jobs
<1> QED BY <1>1, <1>2, AiLimit DEF AI!TryAgain

(* Storing, loading and forgetting a configuration.                         *)
LEMMA AiConfigKeeps ==
    ASSUME AI!PartInv,
           \/ \E url \in Urls, key \in Keys \cup {"none"} : AI!SaveConfiguration(url, key)
           \/ AI!ReloadAdapters \/ AI!ResetLocalData
    PROVE  AI!PartInv'
<1> USE ServicesAssumption DEF AI!None, AI!At, AI!Registered
<1>1. AI!TypeOK /\ AI!ConfigInv /\ AI!KeyInv
  BY DEF AI!PartInv
<1>2. AI!NoConfig \in AI!Configs
  BY DEF AI!NoConfig, AI!Configs
<1>3. v4' = v4
  BY DEF AI!SaveConfiguration, AI!ReloadAdapters, AI!ResetLocalData
<1>4. AI!TypeOK' /\ AI!ConfigInv' /\ v3 \subseteq v3'
  <2>1. ASSUME NEW url \in Urls, NEW key \in Keys \cup {"none"}, AI!SaveConfiguration(url, key)
        PROVE  AI!TypeOK' /\ AI!ConfigInv' /\ v3 \subseteq v3'
    <3>1. v1.rev \in 0..MaxSaves /\ v2.rev \in 0..MaxSaves /\ v4.uses.rev \in 0..MaxSaves
      BY <1>1 DEF AI!TypeOK, AI!Configs, AI!Jobs
    <3>2. AI!StoredKey(key) \in Keys
      BY <1>1, <2>1 DEF AI!SaveConfiguration, AI!StoredKey, AI!TypeOK, AI!ConfigInv
    <3>3. v1' \in AI!Configs /\ v1'.rev = v1.rev + 1 /\ v2' = v2
          /\ [url |-> v1'.url, key |-> v1'.key] \in v3' /\ v3' \subseteq [url : Urls, key : Keys]
          /\ v3 \subseteq v3'
      BY <1>1, <2>1, <3>1, <3>2 DEF AI!SaveConfiguration, AI!TypeOK, AI!Configs
    <3> QED BY <1>1, <1>3, <3>1, <3>3 DEF AI!TypeOK, AI!ConfigInv, AI!NoConfig
  <2>2. CASE AI!ReloadAdapters
    <3>1. v1.rev \in Nat
      BY <1>1 DEF AI!TypeOK, AI!Configs
    <3> QED BY <1>1, <2>2, <3>1 DEF AI!ReloadAdapters, AI!TypeOK, AI!ConfigInv
  <2>3. CASE AI!ResetLocalData
    BY <1>1, <1>2, <2>3 DEF AI!ResetLocalData, AI!TypeOK, AI!ConfigInv, AI!NonTerminal, AI!NoConfig
  <2> QED BY <2>1, <2>2, <2>3
<1>5. AI!KeyInv' /\ AI!SentInv'
  BY <1>3, <1>4 DEF AI!PartInv, AI!KeyInv, AI!SentInv
<1>6. AI!KeyGoesToItsEndpoint' /\ AI!CancelStopsRequests' /\ AI!RetriesAreBounded'
  BY <1>3, <1>4 DEF AI!PartInv, AI!KeyGoesToItsEndpoint, AI!CancelStopsRequests, AI!RetriesAreBounded
<1> QED BY <1>4, <1>5, <1>6 DEF AI!PartInv

(* What a request may become while the stored configurations stay.          *)
LEMMA AiRequestKeeps ==
    ASSUME AI!PartInv, UNCHANGED <<v1, v2, v3>>, v4' \in AI!Jobs, AI!SentInv', AI!KeyInv',
           ~(v4'.at = "idle") /\ AI!Registered' /\ ~v4'.canceled =>
              v4'.uses.rev <= v1.rev /\ (v4'.uses.rev = v1.rev => v4'.uses = v1),
           v4'.late <= 1, v4'.sent <= 1 + AI!ConfiguredLimit, v4'.overloads <= 2
    PROVE  AI!PartInv'
<1>1. AI!TypeOK'
  BY DEF AI!PartInv, AI!TypeOK
<1>2. AI!ConfigInv'
  BY DEF AI!PartInv, AI!ConfigInv, AI!At
<1>3. AI!KeyGoesToItsEndpoint'
  BY DEF AI!KeyInv, AI!KeyGoesToItsEndpoint, AI!At
<1>4. AI!CancelStopsRequests' /\ AI!RetriesAreBounded'
  BY DEF AI!CancelStopsRequests, AI!RetriesAreBounded, AI!ConfiguredLimit, AI!Least
<1> QED BY <1>1, <1>2, <1>3, <1>4 DEF AI!PartInv

(* A new request.                                                           *)
LEMMA AiNewKeeps ==
    ASSUME AI!PartInv, UNCHANGED <<v1, v2, v3>>,
           NEW kind \in AI!Kinds, NEW tasks \in Seq(AI!Questions), NEW uses \in {v1, v2},
           NEW at \in {"secret", "done"}, NEW code \in {"none", "excluded"},
           v4' = [kind |-> kind, at |-> at, tasks |-> tasks, uses |-> uses, key |-> "none", sent |-> 0,
                  overloads |-> 0, canceled |-> FALSE, late |-> 0, code |-> code],
           at = "secret" => tasks # <<>>, kind # "analysis" => Len(tasks) <= 1
    PROVE  AI!PartInv'
<1> USE AiLimit DEF AI!None, AI!At, AI!Registered
<1>1. AI!TypeOK /\ AI!ConfigInv
  BY DEF AI!PartInv
<1>2. uses \in AI!Configs
  BY <1>1 DEF AI!TypeOK
<1>3. /\ v4'.kind = kind /\ v4'.at = at /\ v4'.tasks = tasks /\ v4'.sent = 0 /\ v4'.overloads = 0
      /\ v4'.uses = uses /\ v4'.canceled = FALSE /\ v4'.late = 0
  OBVIOUS
<1>4. v4' \in AI!Jobs
  <2>1. at \in AI!Places /\ code \in AI!Endings
    BY DEF AI!Endings, AI!Places
  <2> QED BY <1>2, <1>3, <2>1 DEF AI!Jobs
<1>5. AI!KeyInv'
  BY <1>3 DEF AI!KeyInv
<1>6. AI!SentInv'
  <2>1. kind # "none"
    BY DEF AI!Kinds
  <2> QED BY <1>3, <2>1 DEF AI!SentInv
<1>7. v4'.uses.rev <= v1.rev /\ (v4'.uses.rev = v1.rev => v4'.uses = v1)
  <2>1. v1.rev \in Nat
    BY <1>1 DEF AI!TypeOK, AI!Configs
  <2> QED BY <1>1, <1>3, <2>1 DEF AI!ConfigInv
<1>8. v4'.late <= 1 /\ v4'.sent <= 1 + AI!ConfiguredLimit /\ v4'.overloads <= 2
  BY <1>3
<1> QED BY <1>4, <1>5, <1>6, <1>7, <1>8, AiRequestKeeps

(* A request that begins, or is answered, keeps the invariant.              *)
LEMMA AiBeginKeeps ==
    ASSUME AI!PartInv,
           \/ AI!AnalyzeCompany \/ AI!GenerateReport \/ AI!SmokeTest \/ AI!DiscoverSavedModels
           \/ AI!Return
    PROVE  AI!PartInv'
<1>1. CASE AI!AnalyzeCompany
  <2>1. PICK tasks \in {<<>>, <<"classification">>, <<"eligibility", "classification">>} :
          v4' = [kind |-> "analysis", at |-> IF tasks = <<>> THEN "done" ELSE "secret",
                 tasks |-> tasks, uses |-> v2, key |-> "none", sent |-> 0, overloads |-> 0,
                 canceled |-> FALSE, late |-> 0,
                 code |-> IF tasks = <<>> THEN "excluded" ELSE "none"]
    BY <1>1 DEF AI!AnalyzeCompany, AI!None, AI!NoJob
  <2>2. /\ <<"classification">> \in Seq(AI!Questions)
        /\ <<"eligibility", "classification">> \in Seq(AI!Questions)
        /\ <<>> \in Seq(AI!Questions)
    BY DEF AI!Questions
  <2>3. tasks \in Seq(AI!Questions)
    BY <2>2
  <2>4. "analysis" \in AI!Kinds /\ UNCHANGED <<v1, v2, v3>>
    BY <1>1 DEF AI!AnalyzeCompany, AI!Kinds
  <2> HIDE <1>1
  <2>5. CASE tasks = <<>>
    BY <2>1, <2>3, <2>4, <2>5, AiNewKeeps
  <2>6. CASE tasks # <<>>
    BY <2>1, <2>3, <2>4, <2>6, AiNewKeeps
  <2> QED BY <2>5, <2>6
<1>2. ASSUME NEW kind \in {"report", "smoke", "discover"}, AI!LoadConfiguration(kind)
      PROVE  AI!PartInv'
  <2>1. v4' = [kind |-> kind, at |-> "secret", tasks |-> <<kind>>, uses |-> v1, key |-> "none",
               sent |-> 0, overloads |-> 0, canceled |-> FALSE, late |-> 0, code |-> "none"]
    BY <1>2 DEF AI!LoadConfiguration, AI!NoJob, AI!None
  <2>2. <<kind>> \in Seq(AI!Questions) /\ Len(<<kind>>) = 1 /\ <<kind>> # <<>>
    BY DEF AI!Questions
  <2>3. kind \in AI!Kinds /\ UNCHANGED <<v1, v2, v3>>
    BY <1>2 DEF AI!LoadConfiguration, AI!Kinds
  <2> DEFINE tasks == <<kind>>
  <2>4. /\ tasks \in Seq(AI!Questions) /\ Len(tasks) <= 1 /\ tasks # <<>>
        /\ v4' = [kind |-> kind, at |-> "secret", tasks |-> tasks, uses |-> v1, key |-> "none",
                  sent |-> 0, overloads |-> 0, canceled |-> FALSE, late |-> 0, code |-> "none"]
    BY <2>1, <2>2
  <2> HIDE DEF tasks
  <2> QED BY <2>3, <2>4, AiNewKeeps
<1>3. CASE AI!Return
  <2> USE DEF AI!None, AI!At, AI!Registered
  <2>1. v4' = AI!NoJob
    BY <1>3 DEF AI!Return
  <2>2. AI!NoJob \in AI!Jobs
    BY ServicesAssumption DEF AI!NoJob, AI!Jobs, AI!Kinds, AI!Places, AI!Endings, AI!NoConfig, AI!Configs
  <2>3. AI!KeyInv'
    BY <2>1 DEF AI!KeyInv, AI!NoJob
  <2>4. AI!SentInv'
    BY <2>1 DEF AI!SentInv, AI!NoJob
  <2> QED BY <1>3, <2>1, <2>2, <2>3, <2>4, AiRequestKeeps, AiLimit DEF AI!NoJob, AI!Return
<1> QED BY <1>1, <1>2, <1>3 DEF AI!GenerateReport, AI!SmokeTest, AI!DiscoverSavedModels

(* The steps of a request.                                                  *)
LEMMA AiStepKeeps ==
    ASSUME AI!PartInv,
           \/ AI!ReadSecret \/ AI!CheckCanceled \/ AI!Send \/ AI!AskForModels \/ AI!ReceiveAnswer
           \/ \E code \in AI!Codes : AI!ReceiveFailure(code)
           \/ AI!WaitEnds \/ AI!Cancel
    PROVE  AI!PartInv'
<1> USE DEF AI!None, AI!At, AI!Registered
<1>1. /\ AI!TypeOK /\ AI!ConfigInv /\ AI!KeyInv /\ AI!SentInv
      /\ AI!CancelStopsRequests /\ AI!RetriesAreBounded
  BY DEF AI!PartInv
<1>2. /\ UNCHANGED <<v1, v2, v3>> /\ v4'.uses = v4.uses /\ v4'.kind = v4.kind
      /\ v4.canceled => v4'.canceled
      /\ v4.at # "idle"
  <2>1. v4 \in AI!Jobs
    BY <1>1 DEF AI!TypeOK
  <2>2. UNCHANGED <<v1, v2, v3>> /\ v4.at # "idle"
    BY DEF AI!ReadSecret, AI!CheckCanceled, AI!Send, AI!AskForModels, AI!ReceiveAnswer,
           AI!ReceiveFailure, AI!WaitEnds, AI!Cancel, AI!NonTerminal
  <2>3. CASE AI!ReadSecret \/ AI!CheckCanceled \/ AI!WaitEnds \/ AI!Cancel
    BY <2>1, <2>2, <2>3 DEF AI!ReadSecret, AI!CheckCanceled, AI!WaitEnds, AI!Cancel, AI!Finish,
                            AI!Jobs, AI!CancelSeen
  <2>4. CASE AI!Send \/ AI!AskForModels
    BY <2>1, <2>2, <2>4 DEF AI!Send, AI!AskForModels, AI!Jobs
  <2>5. CASE AI!ReceiveAnswer
    BY <2>1, <2>2, <2>5 DEF AI!ReceiveAnswer, AI!Answered, AI!Finish, AI!Jobs
  <2>6. ASSUME NEW code \in AI!Codes, AI!ReceiveFailure(code) 
        PROVE  v4'.uses = v4.uses /\ v4'.kind = v4.kind /\ (v4.canceled => v4'.canceled)
    BY <2>1, <2>2, <2>6 DEF AI!ReceiveFailure, AI!Jobs
  <2> QED BY <2>2, <2>3, <2>4, <2>5, <2>6
<1> DEFINE Goal == /\ v4' \in AI!Jobs /\ AI!KeyInv' /\ AI!SentInv'
                   /\ v4'.late <= 1 /\ v4'.sent <= 1 + AI!ConfiguredLimit /\ v4'.overloads <= 2
<1>3. Goal
  <2> USE DEF AI!CancelSeen, AI!CancelStopsRequests, AI!RetriesAreBounded, AI!SentInv
  <2>a. v4 \in AI!Jobs
    BY <1>1 DEF AI!TypeOK
  <2>b. /\ v4.sent \in 0..3 /\ v4.overloads \in 0..2 /\ v4.late \in 0..1 /\ v4.tasks \in Seq(AI!Questions)
        /\ v4.canceled \in BOOLEAN
    BY <2>a DEF AI!Jobs
  <2>c. ASSUME NEW code \in AI!Endings PROVE AI!Finish(code) \in AI!Jobs
    BY <2>a DEF AI!Finish, AI!Jobs, AI!Places
  <2>d. ASSUME NEW code \in AI!Endings, v4' = AI!Finish(code) PROVE Goal
    <3>1. v4' \in AI!Jobs
      BY <2>c, <2>d
    <3>2. /\ v4'.at = "done" /\ v4'.kind = v4.kind /\ v4'.tasks = v4.tasks /\ v4'.sent = v4.sent
          /\ v4'.overloads = v4.overloads /\ v4'.canceled = v4.canceled /\ v4'.late = v4.late
      BY <2>a, <2>d DEF AI!Finish, AI!Jobs
    <3> QED BY <1>1, <1>2, <2>b, <3>1, <3>2, AiLimit DEF AI!KeyInv
  <2>1. CASE AI!ReadSecret
    <3> DEFINE key == AI!Secret(v4.uses.rev)
    <3>1. key \in Keys \cup {"none"}
      BY <1>1 DEF AI!TypeOK, AI!Configs, AI!Secret
    <3>2. CASE (v4.kind = "analysis" /\ v4.canceled) \/ key = "none"
      <4>1. \E code \in {"canceled", "configuration_changed"} : v4' = AI!Finish(code)
        BY <2>1, <3>2 DEF AI!ReadSecret
      <4> QED BY <4>1, <2>d DEF AI!Endings
    <3>3. CASE ~(v4.kind = "analysis" /\ v4.canceled) /\ key # "none"
      <4>1. v4' = [v4 EXCEPT !.key = key, !.sent = 0, !.overloads = 0,
                             !.at = IF v4.kind = "discover" THEN "send" ELSE "check"]
        BY <2>1, <3>3 DEF AI!ReadSecret
      <4>2. v4.at = "secret"
        BY <2>1 DEF AI!ReadSecret
      <4> DEFINE at == IF v4.kind = "discover" THEN "send" ELSE "check"
      <4>a. at \in AI!Places /\ 0 \in 0..3 /\ 0 \in 0..2
        BY DEF AI!Places
      <4>3. v4' \in AI!Jobs
        <5>1. v4' = [v4 EXCEPT !.key = key, !.sent = 0, !.overloads = 0, !.at = at]
          BY <4>1
        <5> HIDE DEF at, key
        <5> QED BY <2>a, <3>1, <4>a, <5>1 DEF AI!Jobs
      <4>4. v1.rev = v4.uses.rev /\ key = v1.key /\ v1.rev # 0
        BY <1>1, <3>3 DEF AI!Secret, AI!ConfigInv, AI!NoConfig
      <4>5. AI!KeyInv'
        <5>1. v3' = v3 /\ v4'.uses = v4.uses /\ v4'.key = key /\ v4'.kind = v4.kind
              /\ v4'.canceled = v4.canceled
          BY <1>2, <2>a, <4>1 DEF AI!Jobs
        <5>2. v4'.at = IF v4.kind = "discover" THEN "send" ELSE "check"
          BY <2>a, <4>1 DEF AI!Jobs
        <5>3. v4.kind \in {"analysis", "report"} /\ ~v4.canceled => v4.uses = v1
              /\ [url |-> v1.url, key |-> v1.key] \in v3
          BY <1>1, <4>2, <4>4 DEF AI!ConfigInv
        <5> HIDE DEF key
        <5> QED BY <4>4, <5>1, <5>2, <5>3 DEF AI!KeyInv
      <4>6. /\ v4'.kind = v4.kind /\ v4'.tasks = v4.tasks /\ v4'.sent = 0 /\ v4'.overloads = 0
            /\ v4'.canceled = v4.canceled /\ v4'.late = v4.late
            /\ v4'.at = IF v4.kind = "discover" THEN "send" ELSE "check"
        BY <2>a, <4>1 DEF AI!Jobs
      <4> HIDE DEF key
      <4> QED BY <1>1, <2>b, <3>3, <4>2, <4>3, <4>5, <4>6, AiLimit
    <3> QED BY <3>2, <3>3
  <2>2. CASE AI!CheckCanceled
    <3>1. CASE v4.canceled
      BY <2>2, <2>d, <3>1 DEF AI!CheckCanceled, AI!Endings
    <3>2. CASE ~v4.canceled
      <4>1. v4' = [v4 EXCEPT !.at = "send"] /\ v4.at = "check" /\ v3' = v3
        BY <2>2, <3>2 DEF AI!CheckCanceled
      <4>2. v4' \in AI!Jobs
        BY <2>a, <4>1 DEF AI!Jobs, AI!Places
      <4>3. AI!KeyInv'
        BY <1>1, <2>a, <3>2, <4>1 DEF AI!KeyInv, AI!Jobs
      <4> QED BY <1>1, <2>a, <2>b, <3>2, <4>1, <4>2, <4>3, AiLimit DEF AI!Jobs
    <3> QED BY <3>1, <3>2
  <2>3. CASE AI!Send
    <3>1. v4.at = "send" /\ v4.kind # "discover" /\ v3' = v3
      BY <2>3 DEF AI!Send
    <3>2. v4.late = 0 /\ v4.sent <= AI!ConfiguredLimit
      BY <1>1, <2>b, <3>1
    <3>3. v4.sent + 1 \in 0..3 /\ v4.late + (IF v4.canceled THEN 1 ELSE 0) = IF v4.canceled THEN 1 ELSE 0
      BY <2>b, <3>2, AiLimit
    <3>4. v4' = [v4 EXCEPT !.at = "answer", !.sent = v4.sent + 1, !.late = IF v4.canceled THEN 1 ELSE 0]
      BY <2>3, <2>a, <3>3 DEF AI!Send, AI!Jobs
    <3>5. v4' \in AI!Jobs
      <4> DEFINE sent == v4.sent + 1
                 late == IF v4.canceled THEN 1 ELSE 0
      <4>1. sent \in 0..3 /\ late \in 0..1 /\ "answer" \in AI!Places
        BY <3>3 DEF AI!Places
      <4>2. v4' = [v4 EXCEPT !.at = "answer", !.sent = sent, !.late = late]
        BY <3>4
      <4> HIDE DEF sent, late
      <4> QED BY <2>a, <4>1, <4>2 DEF AI!Jobs
    <3>6. AI!KeyInv'
      BY <1>1, <2>a, <3>1, <3>4 DEF AI!KeyInv, AI!Jobs
    <3>7. /\ v4'.kind = v4.kind /\ v4'.tasks = v4.tasks /\ v4'.sent = v4.sent + 1
          /\ v4'.overloads = v4.overloads /\ v4'.at = "answer"
          /\ v4'.canceled = v4.canceled /\ v4'.late = IF v4.canceled THEN 1 ELSE 0
      BY <2>a, <3>4 DEF AI!Jobs
    <3> QED BY <1>1, <2>b, <3>1, <3>2, <3>5, <3>6, <3>7, AiLimit
  <2>4. CASE AI!AskForModels
    <3>1. v4.at = "send" /\ v4.kind = "discover" /\ v3' = v3
          /\ v4' = [v4 EXCEPT !.at = "answer", !.sent = 1]
      BY <2>4 DEF AI!AskForModels
    <3>a. 1 \in 0..3 /\ "answer" \in AI!Places
      BY DEF AI!Places
    <3>2. v4' \in AI!Jobs
      BY <2>a, <3>1, <3>a DEF AI!Jobs
    <3>3. /\ v4'.kind = v4.kind /\ v4'.tasks = v4.tasks /\ v4'.sent = 1
          /\ v4'.overloads = v4.overloads /\ v4'.at = "answer"
          /\ v4'.canceled = v4.canceled /\ v4'.late = v4.late
      BY <2>a, <3>1 DEF AI!Jobs
    <3>4. AI!KeyInv'
      BY <3>1, <3>3 DEF AI!KeyInv
    <3> QED BY <1>1, <2>b, <3>1, <3>2, <3>3, <3>4, AiLimit
  <2>5. CASE AI!ReceiveAnswer
    <3>1. PICK verdict \in {"ok", "excluded", "schema_invalid"} : v4' = AI!Answered(verdict)
      BY <2>5 DEF AI!ReceiveAnswer, AI!Verdicts, AI!EligibilityVerdicts, AI!ClassificationVerdicts,
                  AI!TextVerdicts
    <3>2. CASE v4' = AI!Finish(verdict)
      BY <2>d, <3>2 DEF AI!Endings
    <3>3. CASE v4' # AI!Finish(verdict)
      <4>1. Len(v4.tasks) # 1 /\ v4' = [v4 EXCEPT !.at = "secret", !.key = "none", !.tasks = Tail(v4.tasks)]
        BY <3>1, <3>3, <2>a DEF AI!Answered, AI!Jobs
      <4>2. v4.at = "answer"
        BY <2>5 DEF AI!ReceiveAnswer
      <4>3. /\ v4.tasks # <<>> /\ v4.kind = "analysis" /\ Len(v4.tasks) > 1
        <5>1. v4.tasks # <<>>
          BY <1>1, <4>2
        <5>a. v4.tasks \in Seq(AI!Questions)
          BY <2>b
        <5>b. Len(v4.tasks) # 1
          BY <4>1
        <5>2. Len(v4.tasks) \in Nat \ {0} /\ Len(v4.tasks) > 1
          BY <5>a, <5>b, <5>1, SequenceFacts
        <5>3. ~(Len(v4.tasks) <= 1)
          BY <5>2
        <5> QED BY <1>1, <5>1, <5>2, <5>3
      <4>4. Tail(v4.tasks) \in Seq(AI!Questions) /\ Tail(v4.tasks) # <<>>
        <5>1. v4.tasks \in Seq(AI!Questions)
          BY <2>b
        <5>2. Len(v4.tasks) # 1 /\ v4.tasks # <<>>
          BY <4>1, <4>3
        <5> QED BY <5>1, <5>2, SequenceFacts
      <4>5. v4' \in AI!Jobs
        BY <2>a, <4>1, <4>4 DEF AI!Jobs, AI!Places
      <4>6. /\ v4'.kind = v4.kind /\ v4'.tasks # <<>> /\ v4'.sent = v4.sent
            /\ v4'.overloads = v4.overloads /\ v4'.at = "secret"
            /\ v4'.canceled = v4.canceled /\ v4'.late = v4.late
        BY <2>a, <4>1, <4>4 DEF AI!Jobs
      <4>7. AI!KeyInv'
        BY <4>6 DEF AI!KeyInv
      <4> QED BY <1>1, <2>b, <4>2, <4>3, <4>5, <4>6, <4>7, AiLimit
    <3> QED BY <3>2, <3>3
  <2>6. ASSUME NEW code \in AI!Codes, AI!ReceiveFailure(code) PROVE Goal
    <3> DEFINE more == v4.overloads + (IF code \in AI!Overloaded THEN 1 ELSE 0)
    <3>1. v4.at = "answer" /\ v3' = v3
      BY <2>6 DEF AI!ReceiveFailure
    <3>2. more \in 0..2 /\ v4.overloads <= more
      BY <1>1, <2>b, <3>1
    <3>3. CASE AI!TryAgain(code)
      <4>1. v4' = [v4 EXCEPT !.overloads = more, !.at = "wait"]
        BY <2>6, <2>a, <3>3 DEF AI!ReceiveFailure, AI!Jobs
      <4>2. v4.kind # "discover" /\ v4.sent <= AI!ConfiguredLimit /\ (code \in AI!Overloaded => v4.sent <= 1)
        BY <2>a, <3>3, AiRetryLimit
      <4>3. more <= 1
        BY <1>1, <2>b, <3>1, <4>2
      <4> HIDE DEF more
      <4>4. v4' \in AI!Jobs
        BY <2>a, <3>2, <4>1 DEF AI!Jobs, AI!Places
      <4>5. /\ v4'.kind = v4.kind /\ v4'.tasks = v4.tasks /\ v4'.sent = v4.sent
            /\ v4'.overloads = more /\ v4'.at = "wait" /\ v4'.uses = v4.uses /\ v4'.key = v4.key
            /\ v4'.canceled = v4.canceled /\ v4'.late = v4.late
        BY <2>a, <4>1 DEF AI!Jobs
      <4>6. AI!KeyInv'
        BY <1>1, <3>1, <4>5 DEF AI!KeyInv
      <4>7. AI!SentInv'
        BY <1>1, <2>b, <3>1, <3>2, <4>2, <4>3, <4>5, AiLimit
      <4>8. v4'.late <= 1 /\ v4'.sent <= 1 + AI!ConfiguredLimit /\ v4'.overloads <= 2
        <5>1. v4.late <= 1 /\ v4.sent <= 1 + AI!ConfiguredLimit
          BY <1>1
        <5> QED BY <2>b, <3>2, <4>5, <5>1
      <4> QED BY <4>4, <4>6, <4>7, <4>8
    <3>4. CASE ~AI!TryAgain(code)
      <4>1. v4' = [v4 EXCEPT !.overloads = more, !.at = "done", !.code = code, !.key = "none"]
        BY <2>6, <2>a, <3>4 DEF AI!ReceiveFailure, AI!Jobs
      <4> HIDE DEF more
      <4>2. v4' \in AI!Jobs
        BY <2>a, <3>2, <4>1 DEF AI!Jobs, AI!Places, AI!Endings
      <4>3. /\ v4'.kind = v4.kind /\ v4'.tasks = v4.tasks /\ v4'.sent = v4.sent
            /\ v4'.overloads = more /\ v4'.at = "done"
            /\ v4'.canceled = v4.canceled /\ v4'.late = v4.late
        BY <2>a, <4>1 DEF AI!Jobs
      <4>4. AI!KeyInv'
        BY <4>3 DEF AI!KeyInv
      <4> QED BY <1>1, <2>b, <3>1, <3>2, <4>2, <4>3, <4>4, AiLimit
    <3> QED BY <3>3, <3>4
  <2>7. CASE AI!WaitEnds
    <3>1. CASE v4.canceled
      BY <2>7, <2>d, <3>1 DEF AI!WaitEnds, AI!Endings
    <3>2. CASE ~v4.canceled
      <4>1. v4' = [v4 EXCEPT !.at = "check"] /\ v4.at = "wait" /\ v3' = v3
        BY <2>7, <3>2 DEF AI!WaitEnds
      <4>2. v4' \in AI!Jobs
        BY <2>a, <4>1 DEF AI!Jobs, AI!Places
      <4>3. AI!KeyInv'
        BY <1>1, <2>a, <3>2, <4>1 DEF AI!KeyInv, AI!Jobs
      <4> QED BY <1>1, <2>a, <2>b, <3>2, <4>1, <4>2, <4>3, AiLimit DEF AI!Jobs
    <3> QED BY <3>1, <3>2
  <2>8. CASE AI!Cancel
    <3>1. v4' = [v4 EXCEPT !.canceled = TRUE] /\ v3' = v3 /\ v4.kind \in {"analysis", "report"}
          /\ v4.at # "idle" /\ ~v4.canceled
      BY <2>8 DEF AI!Cancel, AI!NonTerminal
    <3>2. v4' \in AI!Jobs
      BY <2>a, <3>1 DEF AI!Jobs
    <3>3. AI!KeyInv'
      BY <1>1, <2>a, <3>1 DEF AI!KeyInv, AI!Jobs
    <3> QED BY <1>1, <2>a, <2>b, <3>1, <3>2, <3>3, AiLimit DEF AI!Jobs
  <2> QED BY <2>1, <2>2, <2>3, <2>4, <2>5, <2>6, <2>7, <2>8
<1>7. ~(v4'.at = "idle") /\ AI!Registered' /\ ~v4'.canceled =>
              v4'.uses.rev <= v1.rev /\ (v4'.uses.rev = v1.rev => v4'.uses = v1)
  BY <1>1, <1>2, <1>3 DEF AI!ConfigInv, AI!Jobs
<1> QED BY <1>2, <1>3, <1>7, AiRequestKeeps

(* Every step of an AI request keeps its invariant.                         *)
LEMMA AiKeeps == ASSUME AI!PartInv, AI!Next PROVE AI!PartInv'
BY AiConfigKeeps, AiBeginKeeps, AiStepKeeps DEF AI!Next, AI!None

-----------------------------------------------------------------------------
(* The diagnostic log (DiagnosticLog).                                      *)

(* The log begins with its invariant.                                       *)
LEMMA LogInit == DL!Init => DL!PartInv
<1> SUFFICES ASSUME DL!Init PROVE DL!PartInv
  OBVIOUS
<1>1. <<>> \in Seq(DL!Items) /\ <<>> \in Seq(DL!Events) /\ Len(<<>>) = 0
  OBVIOUS
<1>2. v6 \in [Emitters -> DL!Callers] /\ \A t \in Emitters : v6[t].at = "free" /\ v6[t].told = FALSE
  BY DEF DL!Init, DL!Callers
<1>3. DL!TypeOK
  <2>1. v3 \in DL!Writers /\ v3.at # "handle"
    BY DEF DL!Init, DL!Writers
  <2>2. \A t \in Emitters : v6[t].at # "put"
    BY <1>2
  <2>3. 0 <= Capacity /\ 0 <= Important
    BY ServicesAssumption
  <2> QED BY <1>1, <1>2, <2>1, <2>2, <2>3 DEF DL!Init, DL!TypeOK, DL!At
<1>4. DL!DoneMeansDone
  BY <1>2 DEF DL!DoneMeansDone, DL!Done, DL!At
<1>5. DL!QueueInv /\ DL!HandInv
  BY <1>1 DEF DL!Init, DL!QueueInv, DL!HandInv
<1> QED BY <1>3, <1>4, <1>5 DEF DL!PartInv

(* What is put behind the queue, and taken from its front.                  *)
LEMMA AppendFacts ==
    ASSUME NEW S, NEW s \in Seq(S), NEW x \in S
    PROVE  /\ Append(s, x) \in Seq(S) /\ Len(s) \in Nat /\ Len(Append(s, x)) = Len(s) + 1
           /\ \A i \in 1..Len(s) : Append(s, x)[i] = s[i]
           /\ Append(s, x)[Len(s) + 1] = x
OBVIOUS

(* The tail of a sequence is the sequence moved by one place.               *)
LEMMA TailFacts ==
    ASSUME NEW S, NEW s \in Seq(S), s # <<>>
    PROVE  /\ 1 \in 1..Len(s) /\ Head(s) = s[1]
           /\ \A i \in 1..Len(Tail(s)) : Tail(s)[i] = s[i + 1] /\ i + 1 \in 1..Len(s) /\ 1 < i + 1
           /\ \A i, j \in 1..Len(Tail(s)) : i < j => i + 1 < j + 1
<1>1. Len(s) \in Nat \ {0} /\ Tail(s) \in Seq(S) /\ Len(Tail(s)) = Len(s) - 1
  BY SequenceFacts
<1>2. Head(s) = s[1]
  OBVIOUS
<1>3. \A i \in 1..Len(Tail(s)) : Tail(s)[i] = s[i + 1]
  OBVIOUS
<1>4. 1 \in 1..Len(s)
  BY <1>1
<1>5. \A i \in 1..Len(Tail(s)) : i \in Nat /\ i + 1 \in 1..Len(s) /\ 1 < i + 1
  BY <1>1
<1>6. \A i, j \in 1..Len(Tail(s)) : i < j => i + 1 < j + 1
  BY <1>5
<1> QED BY <1>2, <1>3, <1>4, <1>5, <1>6

(* The numbers stay in order when something is put behind the queue.        *)
LEMMA QueueGrows ==
    ASSUME DL!TypeOK, DL!QueueInv, DL!HandInv, NEW x \in DL!Items, v1' = Append(v1, x), v3' = v3,
           DL!Numbered(x)',
           \A item \in DL!Items : DL!Numbered(item) => DL!Numbered(item)' /\ DL!Before(item, x)
    PROVE  DL!QueueInv' /\ DL!HandInv'
<1>1. v1 \in Seq(DL!Items)
  BY DEF DL!TypeOK
<1>2. /\ v1' \in Seq(DL!Items) /\ Len(v1) \in Nat /\ Len(v1') = Len(v1) + 1
      /\ \A i \in 1..Len(v1) : v1'[i] = v1[i] /\ v1[i] \in DL!Items
      /\ v1'[Len(v1) + 1] = x
  BY <1>1, AppendFacts
<1>3. \A i \in 1..Len(v1') : i \in 1..Len(v1) \/ i = Len(v1) + 1
  BY <1>2
<1> DEFINE StillNumbered(item) ==
             \/ item.number < v6'[item.from].next
             \/ /\ item.number = v6'[item.from].next /\ ~DL!IsEvent(item)
                /\ v6'[item.from].at \in {"wait", "told"}
<1>n. /\ StillNumbered(x)
      /\ \A item \in DL!Items : DL!Numbered(item) => StillNumbered(item) /\ DL!Before(item, x)
  BY DEF DL!Numbered, DL!IsEvent
<1>q. DL!QueueInv' <=>
        \A j \in 1..Len(v1') :
          StillNumbered(v1'[j]) /\ \A i \in 1..Len(v1') : i < j => DL!Before(v1'[i], v1'[j])
  BY DEF DL!QueueInv, DL!Before, DL!Numbered, DL!IsEvent
<1> HIDE DEF StillNumbered
<1>4. DL!QueueInv'
  <2> SUFFICES ASSUME NEW j \in 1..Len(v1')
               PROVE  StillNumbered(v1'[j]) /\ \A i \in 1..Len(v1') : i < j => DL!Before(v1'[i], v1'[j])
    BY <1>q
  <2>1. CASE j \in 1..Len(v1)
    <3>1. \A i \in 1..Len(v1') : i < j => i \in 1..Len(v1)
      BY <1>2, <1>3, <2>1
    <3>2. DL!Numbered(v1[j]) /\ \A i \in 1..Len(v1) : i < j => DL!Before(v1[i], v1[j])
      BY <2>1 DEF DL!QueueInv
    <3>3. v1'[j] = v1[j] /\ v1[j] \in DL!Items
      BY <1>2, <2>1
    <3> QED BY <1>2, <1>n, <3>1, <3>2, <3>3
  <2>2. CASE j = Len(v1) + 1
    <3>1. \A i \in 1..Len(v1') : i < j => i \in 1..Len(v1)
      BY <1>2, <1>3, <2>2
    <3>2. \A i \in 1..Len(v1) : DL!Numbered(v1[i])
      BY DEF DL!QueueInv
    <3>3. v1'[j] = x
      BY <1>2, <2>2
    <3> QED BY <1>2, <1>n, <3>1, <3>2, <3>3
  <2> QED BY <1>3, <2>1, <2>2
<1>5. DL!HandInv'
  <2> SUFFICES ASSUME v3.at = "handle", ~DL!IsEvent(v3.item)
               PROVE  StillNumbered(v3.item) /\ \A j \in 1..Len(v1') : DL!Before(v3.item, v1'[j])
    BY DEF StillNumbered, DL!HandInv, DL!Item, DL!IsEvent, DL!Before, DL!Numbered
  <2>1. v3.item \in DL!Items
    BY DEF DL!TypeOK, DL!Writers, DL!Item
  <2>2. DL!Numbered(v3.item) /\ \A j \in 1..Len(v1) : DL!Before(v3.item, v1[j])
    BY DEF DL!HandInv, DL!Item
  <2> QED BY <1>2, <1>3, <1>n, <2>1, <2>2
<1> QED BY <1>4, <1>5

(* ... and when nothing is.                                                 *)
LEMMA QueueStays ==
    ASSUME DL!TypeOK, DL!QueueInv, DL!HandInv, v1' = v1, v3' = v3,
           \A item \in DL!Items : DL!Numbered(item) => DL!Numbered(item)'
    PROVE  DL!QueueInv' /\ DL!HandInv'
<1>1. v1 \in Seq(DL!Items)
  BY DEF DL!TypeOK
<1>2. \A i \in 1..Len(v1) : v1[i] \in DL!Items
  BY <1>1
<1>3. DL!QueueInv'
  BY <1>2 DEF DL!QueueInv, DL!Before
<1>4. v3.at = "handle" => v3.item \in DL!Items
  BY DEF DL!TypeOK, DL!Writers, DL!Item
<1>5. DL!HandInv'
  BY <1>4 DEF DL!HandInv, DL!Before, DL!Item, DL!IsEvent
<1> QED BY <1>3, <1>5

(* The numbers when one thread goes on to a later one, or to wait.          *)
LEMMA NumbersGrow ==
    ASSUME DL!TypeOK, NEW t \in Emitters, NEW c \in DL!Callers, v6' = [v6 EXCEPT ![t] = c],
           \/ c.next = v6[t].next + 1
           \/ c.next = v6[t].next /\ (v6[t].at \in {"wait", "told"} => c.at \in {"wait", "told"})
    PROVE  \A item \in DL!Items : DL!Numbered(item) => DL!Numbered(item)'
<1> SUFFICES ASSUME NEW item \in DL!Items, DL!Numbered(item) PROVE DL!Numbered(item)'
  OBVIOUS
<1>1. v6 \in [Emitters -> DL!Callers]
  BY DEF DL!TypeOK
<1>2. item.from \in Emitters /\ item.number \in Nat
  BY DEF DL!Items
<1>3. v6[item.from].next \in Nat
  BY <1>1, <1>2 DEF DL!Callers
<1>4. CASE item.from = t
  <2>1. v6'[item.from] = c
    BY <1>1, <1>4
  <2>2. c.next \in Nat
    BY DEF DL!Callers
  <2> QED BY <1>2, <1>3, <1>4, <2>1, <2>2 DEF DL!Numbered, DL!IsEvent
<1>5. CASE item.from # t
  <2>1. v6'[item.from] = v6[item.from]
    BY <1>1, <1>2, <1>5
  <2> QED BY <2>1 DEF DL!Numbered, DL!IsEvent
<1> QED BY <1>4, <1>5

(* What a thread becomes, and what it puts.                                 *)
LEMMA CallerSteps ==
    ASSUME DL!TypeOK, NEW t \in Emitters
    PROVE  /\ v6[t] \in DL!Callers
           /\ \A answer \in BOOLEAN : \E c \in DL!Callers :
                DL!Tell(t, answer) = [v6 EXCEPT ![t] = c] /\ c.at = "told" /\ c.told = answer /\ c.next = v6[t].next
           /\ \E c \in DL!Callers :
                DL!Counted(t) = [v6 EXCEPT ![t] = c] /\ c.at = "free" /\ c.next = v6[t].next + 1
           /\ DL!Event(t) \in DL!Events /\ DL!Events \subseteq DL!Items
           /\ DL!At(t, "put") => DL!Command(t) \in DL!Items /\ DL!Command(t).action # "event"
<1>1. v6 \in [Emitters -> DL!Callers]
  BY DEF DL!TypeOK
<1>2. v6[t] \in DL!Callers /\ v6[t].next + 1 \in Nat \ {0} /\ v6[t].next \in Nat
  BY <1>1 DEF DL!Callers
<1>3. ASSUME NEW answer \in BOOLEAN
      PROVE  \E c \in DL!Callers : DL!Tell(t, answer) = [v6 EXCEPT ![t] = c] /\ c.at = "told"
                                   /\ c.told = answer /\ c.next = v6[t].next
  <2> DEFINE c == [v6[t] EXCEPT !.at = "told", !.told = answer]
  <2>1. c \in DL!Callers /\ c.at = "told" /\ c.told = answer /\ c.next = v6[t].next
    BY <1>2 DEF DL!Callers
  <2>2. DL!Tell(t, answer) = [v6 EXCEPT ![t] = c]
    BY <1>1 DEF DL!Tell
  <2> QED BY <2>1, <2>2
<1>4. \E c \in DL!Callers :
         DL!Counted(t) = [v6 EXCEPT ![t] = c] /\ c.at = "free" /\ c.next = v6[t].next + 1
  <2> DEFINE c == [v6[t] EXCEPT !.at = "free", !.next = @ + 1]
  <2>1. c \in DL!Callers /\ c.at = "free" /\ c.next = v6[t].next + 1
    BY <1>2 DEF DL!Callers
  <2>2. DL!Counted(t) = [v6 EXCEPT ![t] = c]
    BY <1>1 DEF DL!Counted
  <2> QED BY <2>1, <2>2
<1>5. DL!Event(t) \in DL!Events /\ DL!Events \subseteq DL!Items
  BY <1>2 DEF DL!Event, DL!Events, DL!Items
<1>6. DL!At(t, "put") => DL!Command(t) \in DL!Items /\ DL!Command(t).action # "event"
  BY <1>2 DEF DL!TypeOK, DL!Command, DL!Items, DL!Commands
<1> QED BY <1>2, <1>3, <1>4, <1>5, <1>6

(* The set of what is in the queue.                                         *)
LEMMA SetFacts ==
    ASSUME NEW S, NEW s \in Seq(S)
    PROVE  /\ \A x \in S : DL!ToSet(Append(s, x)) = DL!ToSet(s) \cup {x}
           /\ s # <<>> => DL!ToSet(Tail(s)) \subseteq DL!ToSet(s)
           /\ \A x \in DL!ToSet(s) : \E i \in 1..Len(s) : x = s[i]
<1>1. \A q \in Seq(S) : DL!ToSet(q) = {q[i] : i \in 1..Len(q)}
  BY DEF DL!ToSet
<1>2. ASSUME NEW x \in S PROVE DL!ToSet(Append(s, x)) = DL!ToSet(s) \cup {x}
  <2>1. /\ Append(s, x) \in Seq(S) /\ Len(s) \in Nat /\ Len(Append(s, x)) = Len(s) + 1
        /\ \A i \in 1..Len(s) : Append(s, x)[i] = s[i]
        /\ Append(s, x)[Len(s) + 1] = x
    BY AppendFacts
  <2>2. 1..Len(Append(s, x)) = 1..Len(s) \cup {Len(s) + 1}
    BY <2>1
  <2> DEFINE q == Append(s, x)
  <2>3. DL!ToSet(q) = {q[i] : i \in 1..Len(q)} /\ DL!ToSet(s) = {s[i] : i \in 1..Len(s)}
    BY <1>1, <2>1
  <2>4. /\ 1..Len(q) = 1..Len(s) \cup {Len(s) + 1} /\ q[Len(s) + 1] = x
        /\ \A i \in 1..Len(s) : q[i] = s[i]
    BY <2>1, <2>2
  <2> HIDE DEF q
  <2>5. DL!ToSet(q) = DL!ToSet(s) \cup {x}
    BY <2>3, <2>4
  <2> QED BY <2>5 DEF q
<1>3. ASSUME s # <<>> PROVE DL!ToSet(Tail(s)) \subseteq DL!ToSet(s)
  <2>1. Tail(s) \in Seq(S) /\ \A i \in 1..Len(Tail(s)) : Tail(s)[i] = s[i + 1] /\ i + 1 \in 1..Len(s)
    BY <1>3, SequenceFacts, TailFacts
  <2> DEFINE q == Tail(s)
  <2>2. DL!ToSet(q) = {q[i] : i \in 1..Len(q)} /\ DL!ToSet(s) = {s[i] : i \in 1..Len(s)}
    BY <1>1, <2>1
  <2>3. \A i \in 1..Len(q) : q[i] = s[i + 1] /\ i + 1 \in 1..Len(s)
    BY <2>1
  <2> HIDE DEF q
  <2>4. DL!ToSet(q) \subseteq DL!ToSet(s)
    BY <2>2, <2>3
  <2> QED BY <2>4 DEF q
<1> QED BY <1>1, <1>2, <1>3

(* A done flush stays done when its queue only shrinks.                     *)
LEMMA DoneKept ==
    ASSUME DL!DoneMeansDone,
           \A s \in Emitters : DL!Done(s)' => DL!Done(s) /\ DL!InQueue(s)' \subseteq DL!InQueue(s)
    PROVE  DL!DoneMeansDone'
BY DEF DL!DoneMeansDone

(* A thread that is not told anything by its step leaves the others done.   *)
LEMMA ThreadStepDone ==
    ASSUME DL!TypeOK, NEW t \in Emitters, NEW c \in DL!Callers, v6' = [v6 EXCEPT ![t] = c],
           c.at = "told" /\ c.told => v6[t].at = "told" /\ v6[t].told
    PROVE  \A s \in Emitters : DL!Done(s)' => DL!Done(s) /\ (s = t => c.at = "told")
BY DEF DL!Done, DL!At, DL!TypeOK

(* Every step of a calling thread keeps the invariant (jsonl.py emit,       *)
(* flush).                                                                  *)
LEMMA LogThreadKeeps ==
    ASSUME DL!PartInv, NEW t \in Emitters,
           \/ DL!Emit(t) \/ DL!KeepImportant(t) \/ DL!PutCommand(t) \/ DL!GiveUp(t)
           \/ DL!Continue(t) \/ \E action \in DL!Commands : DL!Ask(t, action)
    PROVE  DL!PartInv'
<1>1. DL!TypeOK /\ DL!DoneMeansDone /\ DL!QueueInv /\ DL!HandInv
  BY DEF DL!PartInv
<1>2. v6 \in [Emitters -> DL!Callers] /\ v6[t] \in DL!Callers /\ v6[t].next \in Nat
  BY <1>1, CallerSteps DEF DL!TypeOK, DL!Callers
<1>3. v3' = v3 /\ v4' = v4
  BY DEF DL!Emit, DL!KeepImportant, DL!PutCommand, DL!GiveUp, DL!Continue, DL!Ask
\* the queue as it was
<1>4. ASSUME v1' = v1, NEW c \in DL!Callers, v6' = [v6 EXCEPT ![t] = c],
             c.at = "told" => ~c.told, c.at = "put" => c.asked \in DL!Commands,
             \/ c.next = v6[t].next + 1
             \/ c.next = v6[t].next /\ (v6[t].at \in {"wait", "told"} => c.at \in {"wait", "told"}),
             v2' \in Seq(DL!Events), Len(v2') <= Important, v5' \in BOOLEAN
      PROVE  DL!PartInv'
  <2>1. DL!TypeOK'
    <3>1. v6' \in [Emitters -> DL!Callers] /\ \A s \in Emitters : v6'[s] = IF s = t THEN c ELSE v6[s]
      BY <1>2, <1>4
    <3> QED BY <1>1, <1>3, <1>4, <3>1 DEF DL!TypeOK, DL!At, DL!Item
  <2>2. DL!QueueInv' /\ DL!HandInv'
    BY <1>1, <1>3, <1>4, QueueStays, NumbersGrow
  <2>3. DL!DoneMeansDone'
    <3>1. \A s \in Emitters : DL!Done(s)' => DL!Done(s)
      BY <1>1, <1>4, ThreadStepDone
    <3>2. \A s \in Emitters : DL!InQueue(s)' = DL!InQueue(s)
      BY <1>4 DEF DL!InQueue, DL!IsEvent
    <3> QED BY <1>1, <3>1, <3>2, DoneKept
  <2> QED BY <2>1, <2>2, <2>3 DEF DL!PartInv
\* the queue with one more
<1>5. ASSUME NEW x \in DL!Items, v1' = Append(v1, x), ~DL!Full, x.from = t, x.number = v6[t].next,
             v6[t].at \notin {"wait", "told"},
             NEW c \in DL!Callers, v6' = [v6 EXCEPT ![t] = c], c.at # "told", c.at # "put",
             \/ c.next = v6[t].next + 1
             \/ c.next = v6[t].next /\ c.at = "wait" /\ ~DL!IsEvent(x),
             v2' = v2, v5' = v5
      PROVE  DL!PartInv'
  <2>a. v1 \in Seq(DL!Items) /\ Len(v1) <= Capacity
    BY <1>1 DEF DL!TypeOK
  <2>1. DL!TypeOK'
    <3>1. v6' \in [Emitters -> DL!Callers] /\ \A s \in Emitters : v6'[s] = IF s = t THEN c ELSE v6[s]
      BY <1>2, <1>5
    <3>2. v1' \in Seq(DL!Items) /\ Len(v1') <= Capacity
      <4>1. v1' \in Seq(DL!Items) /\ Len(v1) \in Nat /\ Len(v1') = Len(v1) + 1
        BY <1>5, <2>a, AppendFacts
      <4>2. Len(v1) # Capacity
        BY <1>5 DEF DL!Full
      <4> QED BY <2>a, <4>1, <4>2, ServicesAssumption
    <3> QED BY <1>1, <1>3, <1>5, <3>1, <3>2 DEF DL!TypeOK, DL!At, DL!Item
  <2>2. DL!QueueInv' /\ DL!HandInv'
    <3>1. \A item \in DL!Items : DL!Numbered(item) => DL!Numbered(item)'
      BY <1>1, <1>5, NumbersGrow
    <3>2. v6'[t] = c /\ c.next \in Nat
      BY <1>2, <1>5 DEF DL!Callers
    <3>3. DL!Numbered(x)'
      BY <1>2, <1>5, <3>2 DEF DL!Numbered, DL!IsEvent
    <3>4. \A item \in DL!Items : DL!Numbered(item) => DL!Before(item, x)
      BY <1>5 DEF DL!Numbered, DL!Before
    <3> QED BY <1>1, <1>3, <1>5, <3>1, <3>3, <3>4, QueueGrows
  <2>3. DL!DoneMeansDone'
    <3>1. \A s \in Emitters : DL!Done(s)' => DL!Done(s) /\ s # t
      BY <1>1, <1>5, ThreadStepDone
    <3>2. \A s \in Emitters : s # t => DL!InQueue(s)' \subseteq DL!InQueue(s)
      <4>1. DL!ToSet(v1') = DL!ToSet(v1) \cup {x}
        BY <1>5, <2>a, SetFacts
      <4>2. \A s \in Emitters : DL!InQueue(s)' = {item \in DL!ToSet(v1') : DL!IsEvent(item) /\ item.from = s}
        BY DEF DL!InQueue, DL!IsEvent, DL!ToSet
      <4> QED BY <1>5, <4>1, <4>2 DEF DL!InQueue
    <3> QED BY <1>1, <3>1, <3>2, DoneKept
  <2> QED BY <2>1, <2>2, <2>3 DEF DL!PartInv
<1>6. CASE DL!Emit(t)
  <2>1. v6[t].at = "free" /\ v2' = v2 /\ v5' = v5
    BY <1>6 DEF DL!Emit, DL!MayCall, DL!At
  <2>2. PICK c \in DL!Callers :
          DL!Counted(t) = [v6 EXCEPT ![t] = c] /\ c.at = "free" /\ c.next = v6[t].next + 1
    BY <1>1, CallerSteps
  <2>3. CASE v1' = v1 /\ v6' = DL!Counted(t)
    BY <1>1, <1>4, <2>1, <2>2, <2>3 DEF DL!TypeOK
  <2>4. CASE v1' = v1 /\ v6' = [v6 EXCEPT ![t].at = "full"]
    <3> DEFINE d == [v6[t] EXCEPT !.at = "full"]
    <3>1. d \in DL!Callers /\ d.at = "full" /\ d.next = v6[t].next
      BY <1>2 DEF DL!Callers
    <3>2. v6' = [v6 EXCEPT ![t] = d]
      BY <1>2, <2>4
    <3> HIDE DEF d
    <3> QED BY <1>1, <1>4, <2>1, <2>4, <3>1, <3>2 DEF DL!TypeOK
  <2>5. CASE ~DL!Full /\ v1' = Append(v1, DL!Event(t)) /\ v6' = DL!Counted(t)
    <3>1. PICK x \in DL!Items : x = DL!Event(t)
      BY <1>1, CallerSteps
    <3>2. x.from = t /\ x.number = v6[t].next
      BY <3>1 DEF DL!Event
    <3> QED BY <1>5, <2>1, <2>2, <2>5, <3>1, <3>2
  <2> QED BY <1>6, <2>3, <2>4, <2>5 DEF DL!Emit
<1>7. CASE DL!KeepImportant(t)
  <2>1. v6[t].at = "full" /\ v1' = v1 /\ v5' = v5 /\ v6' = DL!Counted(t)
    BY <1>7 DEF DL!KeepImportant, DL!At
  <2>2. PICK c \in DL!Callers :
          DL!Counted(t) = [v6 EXCEPT ![t] = c] /\ c.at = "free" /\ c.next = v6[t].next + 1
    BY <1>1, CallerSteps
  <2>3. v2' \in Seq(DL!Events) /\ Len(v2') <= Important
    <3> DEFINE old == IF Len(v2) = Important THEN Tail(v2) ELSE v2
    <3>1. v2 \in Seq(DL!Events) /\ Len(v2) <= Important
      BY <1>1 DEF DL!TypeOK
    <3>2. old \in Seq(DL!Events) /\ Len(old) < Important
      <4>1. CASE Len(v2) = Important
        <5>1. v2 # <<>>
          BY <4>1, ServicesAssumption
        <5> QED BY <3>1, <4>1, <5>1, SequenceFacts, ServicesAssumption
      <4>2. CASE Len(v2) # Important
        <5>1. Len(v2) \in Nat
          BY <3>1
        <5> QED BY <3>1, <4>2, <5>1, ServicesAssumption
      <4> QED BY <4>1, <4>2
    <3>3. v2' = Append(old, DL!Event(t))
      BY <1>7 DEF DL!KeepImportant
    <3>4. DL!Event(t) \in DL!Events
      BY <1>1, CallerSteps
    <3> HIDE DEF old
    <3>5. v2' \in Seq(DL!Events) /\ Len(old) \in Nat /\ Len(v2') = Len(old) + 1
      BY <3>2, <3>3, <3>4, AppendFacts
    <3> QED BY <3>2, <3>5, ServicesAssumption
  <2> QED BY <1>1, <1>4, <2>1, <2>2, <2>3 DEF DL!TypeOK
<1>8. CASE DL!PutCommand(t)
  <2> DEFINE c == [v6[t] EXCEPT !.at = "wait"]
  <2>1. v6[t].at = "put" /\ ~DL!Full /\ v1' = Append(v1, DL!Command(t)) /\ v2' = v2 /\ v5' = v5
        /\ v6' = [v6 EXCEPT ![t].at = "wait"]
    BY <1>8 DEF DL!PutCommand, DL!At, DL!Goto
  <2>2. c \in DL!Callers /\ c.at = "wait" /\ c.next = v6[t].next
    BY <1>2 DEF DL!Callers
  <2>3. v6' = [v6 EXCEPT ![t] = c]
    BY <1>2, <2>1
  <2>4. PICK x \in DL!Items : x = DL!Command(t)
    BY <1>1, <2>1, CallerSteps DEF DL!At
  <2>5. ~DL!IsEvent(x)
    BY <1>1, <2>1, <2>4, CallerSteps DEF DL!At, DL!IsEvent
  <2>6. x.from = t /\ x.number = v6[t].next
    BY <2>4 DEF DL!Command
  <2> HIDE DEF c
  <2> QED BY <1>5, <2>1, <2>2, <2>3, <2>4, <2>5, <2>6
<1>9. CASE DL!GiveUp(t)
  <2>1. v1' = v1 /\ v2' = v2 /\ v5' = v5 /\ v6' = DL!Tell(t, FALSE)
    BY <1>9 DEF DL!GiveUp
  <2>2. PICK c \in DL!Callers :
          DL!Tell(t, FALSE) = [v6 EXCEPT ![t] = c] /\ c.at = "told" /\ c.told = FALSE /\ c.next = v6[t].next
    BY <1>1, CallerSteps
  <2> QED BY <1>1, <1>4, <2>1, <2>2 DEF DL!TypeOK
<1>10. CASE DL!Continue(t)
  <2>1. v1' = v1 /\ v2' = v2 /\ v5' = v5
    BY <1>10 DEF DL!Continue
  <2> DEFINE n == v6[t].next + 1
             c == [v6[t] EXCEPT !.at = "free", !.next = n, !.asked = "none", !.told = FALSE]
  <2>a. n \in Nat \ {0}
    BY <1>2
  <2>2. c \in DL!Callers /\ c.at = "free" /\ c.next = v6[t].next + 1
    <3> HIDE DEF n
    <3>1. c \in DL!Callers /\ c.at = "free" /\ c.next = n
      BY <1>2, <2>a DEF DL!Callers
    <3> QED BY <3>1 DEF n
  <2>3. v6' = [v6 EXCEPT ![t] = c]
    BY <1>2, <1>10 DEF DL!Continue, DL!Counted
  <2> HIDE DEF c
  <2> QED BY <1>1, <1>4, <2>1, <2>2, <2>3 DEF DL!TypeOK
<1>11. ASSUME NEW action \in DL!Commands, DL!Ask(t, action) PROVE DL!PartInv'
  <2>1. v1' = v1 /\ v2' = v2 /\ v5' \in BOOLEAN /\ v6[t].at = "free"
    BY <1>11 DEF DL!Ask, DL!MayCall, DL!At
  <2> DEFINE where == IF DL!Alive THEN "put" ELSE "told"
             c == [v6[t] EXCEPT !.asked = action, !.told = FALSE, !.at = where]
  <2>2. where \in {"put", "told"}
    OBVIOUS
  <2>3. v6' = [v6 EXCEPT ![t].asked = action, ![t].told = FALSE, ![t].at = where]
    BY <1>11 DEF DL!Ask
  <2> HIDE DEF where
  <2>4. /\ c \in DL!Callers /\ c.at = where /\ c.next = v6[t].next /\ c.asked = action
        /\ c.told = FALSE
    BY <1>2, <2>2 DEF DL!Callers
  <2>5. v6' = [v6 EXCEPT ![t] = c]
    BY <1>2, <2>3
  <2> HIDE DEF c
  <2> QED BY <1>1, <1>4, <2>1, <2>2, <2>4, <2>5 DEF DL!TypeOK
<1> QED BY <1>6, <1>7, <1>8, <1>9, <1>10, <1>11

(* The writer.                                                              *)
LEMMA LogWriterKeeps ==
    ASSUME DL!PartInv, DL!PopImportant \/ DL!Get \/ DL!WriteEvent \/ DL!HandleCommand
    PROVE  DL!PartInv'
<1>1. DL!TypeOK /\ DL!DoneMeansDone /\ DL!QueueInv /\ DL!HandInv
  BY DEF DL!PartInv
<1>2. /\ v6 \in [Emitters -> DL!Callers] /\ v3 \in DL!Writers /\ v1 \in Seq(DL!Items)
      /\ v2 \in Seq(DL!Events) /\ Len(v2) <= Important /\ Len(v1) <= Capacity
      /\ DL!Events \subseteq DL!Items
  BY <1>1 DEF DL!TypeOK, DL!Events, DL!Items
<1>3. DL!None \notin DL!Items
  BY DEF DL!None, DL!Items, DL!Commands
\* an event, or nothing, in its hand
<1>4. ASSUME v1' = v1, v5' = v5, v6' = v6, v3' \in DL!Writers,
             v3'.at = "handle" => v3'.item \in DL!Events,
             v2' \in Seq(DL!Events), Len(v2') <= Important, v4' \subseteq DL!Items
      PROVE  DL!PartInv'
  <2>1. DL!TypeOK'
    BY <1>1, <1>3, <1>4, <1>2 DEF DL!TypeOK, DL!At, DL!Item
  <2>2. DL!HandInv'
    BY <1>4 DEF DL!HandInv, DL!Item, DL!IsEvent, DL!Events
  <2>3. DL!QueueInv'
    BY <1>1, <1>4 DEF DL!QueueInv, DL!Numbered, DL!Before, DL!IsEvent
  <2>4. DL!DoneMeansDone'
    BY <1>1, <1>4 DEF DL!DoneMeansDone, DL!Done, DL!At, DL!InQueue, DL!IsEvent, DL!ToSet
  <2> QED BY <2>1, <2>2, <2>3, <2>4 DEF DL!PartInv
<1>5. CASE DL!PopImportant
  <2>1. v1' = v1 /\ v4' = v4 /\ v5' = v5 /\ v6' = v6
    BY <1>5 DEF DL!PopImportant
  <2>2. CASE v2 # <<>>
    <3>1. v2' = Tail(v2) /\ v3' = [v3 EXCEPT !.at = "handle", !.item = Head(v2)]
      BY <1>5, <2>2 DEF DL!PopImportant
    <3>2. /\ Head(v2) \in DL!Events /\ Tail(v2) \in Seq(DL!Events) /\ Len(v2) \in Nat
          /\ Len(Tail(v2)) = Len(v2) - 1
      BY <1>2, <2>2, SequenceFacts
    <3>3. Len(v2') <= Important
      BY <1>2, <3>1, <3>2, ServicesAssumption
    <3>4. v3' \in DL!Writers /\ v3'.item = Head(v2)
      BY <1>2, <3>1, <3>2 DEF DL!Writers
    <3> QED BY <1>1, <1>4, <2>1, <3>1, <3>2, <3>3, <3>4 DEF DL!TypeOK
  <2>3. CASE v2 = <<>>
    <3>1. v2' = v2 /\ v3' = [v3 EXCEPT !.at = "get"]
      BY <1>5, <2>3 DEF DL!PopImportant
    <3>2. v3' \in DL!Writers /\ v3'.at = "get"
      BY <1>2, <3>1 DEF DL!Writers
    <3> QED BY <1>1, <1>2, <1>4, <2>1, <3>1, <3>2 DEF DL!TypeOK
  <2> QED BY <2>2, <2>3
<1>6. CASE DL!Get
  <2>1. v1 # <<>> /\ v1' = Tail(v1) /\ v3' = [v3 EXCEPT !.at = "handle", !.item = Head(v1)]
        /\ v2' = v2 /\ v4' = v4 /\ v5' = v5 /\ v6' = v6
    BY <1>6 DEF DL!Get
  <2>2. /\ Head(v1) \in DL!Items /\ Tail(v1) \in Seq(DL!Items) /\ Len(v1) \in Nat
        /\ Len(Tail(v1)) = Len(v1) - 1
    BY <1>2, <2>1, SequenceFacts
  <2>3. /\ 1 \in 1..Len(v1) /\ Head(v1) = v1[1]
        /\ \A i \in 1..Len(v1') : v1'[i] = v1[i + 1] /\ i + 1 \in 1..Len(v1) /\ 1 < i + 1
        /\ \A i, j \in 1..Len(v1') : i < j => i + 1 < j + 1
    BY <1>2, <2>1, TailFacts
  <2>4. v3' \in DL!Writers /\ v3'.item = v1[1]
    BY <1>2, <2>1, <2>2, <2>3 DEF DL!Writers
  <2>5. DL!TypeOK'
    <3>1. Len(v1') <= Capacity
      BY <1>2, <2>1, <2>2, ServicesAssumption
    <3> QED BY <1>1, <1>3, <2>1, <2>2, <2>3, <2>4, <3>1 DEF DL!TypeOK, DL!At, DL!Item
  <2>6. /\ \A i \in 1..Len(v1) : DL!Numbered(v1[i])
        /\ \A i, j \in 1..Len(v1) : i < j => DL!Before(v1[i], v1[j])
    BY <1>1 DEF DL!QueueInv
  <2>7. \A item : DL!Numbered(item) <=> DL!Numbered(item)'
    BY <2>1 DEF DL!Numbered, DL!IsEvent
  <2>8. DL!QueueInv'
    <3>1. DL!QueueInv' <=>
            \A j \in 1..Len(v1') :
              DL!Numbered(v1'[j]) /\ \A i \in 1..Len(v1') : i < j => DL!Before(v1'[i], v1'[j])
      BY <2>1 DEF DL!QueueInv, DL!Before, DL!Numbered, DL!IsEvent
    <3> QED BY <2>3, <2>6, <3>1
  <2>9. DL!HandInv'
    <3>1. DL!HandInv' <=>
            (v3'.at = "handle" /\ ~DL!IsEvent(v3'.item) =>
               DL!Numbered(v3'.item) /\ \A j \in 1..Len(v1') : DL!Before(v3'.item, v1'[j]))
      BY <2>1 DEF DL!HandInv, DL!Item, DL!Before, DL!Numbered, DL!IsEvent
    <3> QED BY <2>3, <2>4, <2>6, <3>1
  <2>10. DL!DoneMeansDone'
    <3>1. DL!ToSet(v1') \subseteq DL!ToSet(v1)
      BY <1>2, <2>1, SetFacts
    <3>2. \A s \in Emitters : DL!InQueue(s)' = {item \in DL!ToSet(v1') : DL!IsEvent(item) /\ item.from = s}
      BY DEF DL!InQueue, DL!IsEvent, DL!ToSet
    <3>3. \A s \in Emitters : DL!Done(s)' = DL!Done(s)
      BY <2>1 DEF DL!Done, DL!At
    <3> QED BY <1>1, <3>1, <3>2, <3>3 DEF DL!DoneMeansDone, DL!InQueue
  <2> QED BY <2>5, <2>8, <2>9, <2>10 DEF DL!PartInv
<1>7. CASE DL!WriteEvent
  <2>1. v3.at = "handle" /\ v1' = v1 /\ v2' = v2 /\ v5' = v5 /\ v6' = v6 /\ v3.item \in DL!Items
    BY <1>1, <1>2, <1>7 DEF DL!WriteEvent, DL!TypeOK, DL!Item, DL!Writers
  <2>2. v4' \subseteq DL!Items
    BY <1>1, <1>7, <2>1 DEF DL!WriteEvent, DL!TypeOK, DL!Item
  <2>3. v3' \in {DL!Dead, DL!Loop, [DL!Loop EXCEPT !.open = FALSE]}
    BY <1>7 DEF DL!WriteEvent
  <2>4. v3' \in DL!Writers /\ v3'.at # "handle"
    BY <1>2, <2>3 DEF DL!Dead, DL!Loop, DL!Writers
  <2> QED BY <1>2, <1>4, <2>1, <2>2, <2>4
<1>8. CASE DL!HandleCommand
  <2>1. /\ v3.at = "handle" /\ v3.item.action \in DL!Commands /\ v3.item \in DL!Items
        /\ v1' = v1 /\ v2' = v2 /\ v5' = v5
        /\ v4' \in {v4, {}}
    BY <1>1, <1>2, <1>8 DEF DL!HandleCommand, DL!TypeOK, DL!Item, DL!Writers
  <2>2. v3' \in {DL!Dead, DL!Loop}
    BY <1>8 DEF DL!HandleCommand
  <2>3. v3' \in DL!Writers /\ v3'.at # "handle"
    BY <1>2, <2>2 DEF DL!Dead, DL!Loop, DL!Writers
  <2>4. v4' \subseteq DL!Items
    BY <1>1, <2>1 DEF DL!TypeOK
  <2>5. CASE v6' = v6
    BY <1>2, <1>4, <2>1, <2>3, <2>4, <2>5
  <2>6. CASE v6' # v6
    <3> DEFINE t == v3.item.from
    <3>1. t \in Emitters /\ v6[t].at = "wait" /\ v6[t].next = v3.item.number /\ v6' = DL!Tell(t, TRUE)
      BY <1>8, <2>1, <2>6 DEF DL!HandleCommand, DL!Completed, DL!At, DL!Item, DL!Items
    <3>2. PICK c \in DL!Callers :
            v6' = [v6 EXCEPT ![t] = c] /\ c.at = "told" /\ c.told = TRUE /\ c.next = v6[t].next
      BY <1>1, <3>1, CallerSteps
    <3>3. v6' \in [Emitters -> DL!Callers] /\ \A s \in Emitters : v6'[s] = IF s = t THEN c ELSE v6[s]
      BY <1>2, <3>1, <3>2
    <3>4. DL!TypeOK'
      BY <1>1, <2>1, <2>3, <2>4, <3>2, <3>3 DEF DL!TypeOK, DL!At
    <3>5. \A item \in DL!Items : DL!Numbered(item) => DL!Numbered(item)'
      BY <1>1, <3>1, <3>2, NumbersGrow
    <3>6. DL!HandInv'
      BY <2>3 DEF DL!HandInv
    <3>7. DL!QueueInv'
      <4>1. \A i \in 1..Len(v1) : v1[i] \in DL!Items
        BY <1>2
      <4> QED BY <1>1, <2>1, <3>5, <4>1 DEF DL!QueueInv, DL!Before
    <3>8. DL!InQueue(t) = {}
      <4> SUFFICES ASSUME NEW item \in DL!InQueue(t) PROVE FALSE
        OBVIOUS
      <4>1. item \in DL!ToSet(v1) /\ item.from = t /\ DL!IsEvent(item)
        BY DEF DL!InQueue
      <4>2. PICK i \in 1..Len(v1) : item = v1[i]
        BY <1>2, <4>1, SetFacts
      <4>3. item \in DL!Items
        BY <1>2, <4>2
      <4>4. item.number < v6[t].next
        BY <1>1, <4>1, <4>2 DEF DL!QueueInv, DL!Numbered
      <4>5. v3.item.number < item.number
        <5>1. ~DL!IsEvent(v3.item)
          BY <2>1 DEF DL!IsEvent, DL!Commands
        <5> QED BY <1>1, <2>1, <4>1, <4>2, <5>1 DEF DL!HandInv, DL!Item, DL!Before
      <4>6. item.number \in Nat /\ v3.item.number \in Nat
        BY <2>1, <4>3 DEF DL!Items
      <4> QED BY <3>1, <4>4, <4>5, <4>6
    <3>9. DL!DoneMeansDone'
      <4>1. \A s \in Emitters : DL!InQueue(s)' = DL!InQueue(s)
        BY <2>1 DEF DL!InQueue, DL!IsEvent, DL!ToSet
      <4>2. \A s \in Emitters : s # t => DL!Done(s)' = DL!Done(s)
        BY <3>3 DEF DL!Done, DL!At
      <4> QED BY <1>1, <3>8, <4>1, <4>2 DEF DL!DoneMeansDone
    <3> QED BY <3>4, <3>6, <3>7, <3>9 DEF DL!PartInv
  <2> QED BY <2>5, <2>6
<1> QED BY <1>5, <1>6, <1>7, <1>8

(* Every step of the log keeps its invariant.                               *)
LEMMA LogKeeps == ASSUME DL!PartInv, DL!Next PROVE DL!PartInv'
BY LogThreadKeeps, LogWriterKeeps DEF DL!Next

-----------------------------------------------------------------------------
(* The update (UpdateCheck).  Without a race one script runs, and each of   *)
(* its steps finds the bundle it needs; a power cut forgets the script and  *)
(* keeps both bundles.                                                      *)

LEMMA UpdateInit == UC!Init => UC!PartInv
<1> SUFFICES ASSUME UC!Init PROVE UC!PartInv
  OBVIOUS
<1> USE ServicesAssumption DEF UC!NoScript, UC!Missing
<1>1. /\ v1 = 1 /\ v2 = 1 /\ v3 = UC!NewPage /\ v6 = FALSE /\ v4 = [target |-> 1, backup |-> 0]
      /\ v5 = [s \in Scripts |-> UC!NoScript]
  BY DEF UC!Init
<1>2. UC!NewPage \in UC!Pages /\ UC!NewPage.task = "none"
  BY DEF UC!NewPage, UC!Pages, UC!Tasks
<1>3. UC!NoScript \in UC!ScriptStates /\ UC!NoScript.step = "none"
  BY DEF UC!ScriptStates, UC!Steps
<1>4. v4 \in [target : UC!Bundles, backup : UC!Bundles] /\ UC!Usable(v4.target)
  BY <1>1 DEF UC!Bundles, UC!Usable
<1>5. \A s \in Scripts : v5[s] = UC!NoScript
  BY <1>1
<1>6. v5 \in [Scripts -> UC!ScriptStates]
  BY <1>1, <1>3
<1>7. v1 \in 1..MaxVersion /\ v2 \in 0..MaxVersion
  BY <1>1
<1>8. UC!TypeOK
  BY <1>1, <1>2, <1>4, <1>6, <1>7, Zenon DEF UC!TypeOK
<1> QED
  BY <1>1, <1>2, <1>3, <1>4, <1>5, <1>8
     DEF UC!PartInv, UC!AppIsNeverLost, UC!ScriptInv, UC!OneScript

(* What a command of a script changes beside the bundles.                   *)
LEMMA UpdateCommand ==
    ASSUME UC!TypeOK, NEW s \in Scripts, NEW at, NEW next \in UC!Steps, UC!Step(s, at, next)
    PROVE  /\ v5[s].step = at /\ UNCHANGED <<v1, v3, v6>>
           /\ v5' \in [Scripts -> UC!ScriptStates] /\ v5'[s].step = next
           /\ next = "none" => v5'[s] = UC!NoScript
           /\ \A t \in Scripts \ {s} : v5'[t] = v5[t]
<1>1. UC!NoScript \in UC!ScriptStates /\ UC!NoScript.step = "none"
  BY ServicesAssumption DEF UC!NoScript, UC!ScriptStates, UC!Steps, UC!Missing
<1>2. v5 \in [Scripts -> UC!ScriptStates]
  BY DEF UC!TypeOK
<1>3. [v5[s] EXCEPT !.step = next] \in UC!ScriptStates /\ [v5[s] EXCEPT !.step = next].step = next
  BY <1>2 DEF UC!ScriptStates
<1>4. v5' = [v5 EXCEPT ![s] = IF next = "none" THEN UC!NoScript ELSE [v5[s] EXCEPT !.step = next]]
  BY DEF UC!Step
<1> QED
  BY <1>1, <1>2, <1>3, <1>4 DEF UC!Step

(* A script that runs is not NoScript, and one that is not is at no step.   *)
LEMMA UpdateRuns ==
    ASSUME UC!TypeOK, NEW s \in Scripts, v5[s].step # "none"
    PROVE  v5[s] # UC!NoScript
BY DEF UC!NoScript

(* A command, with what it leaves of the bundles when it runs alone.        *)
LEMMA UpdateCommandKeeps ==
    ASSUME UC!PartInv, NEW s \in Scripts, NEW at \in UC!Steps \ {"none"}, NEW next \in UC!Steps,
           UC!Step(s, at, next), v2' \in 0..MaxVersion,
           v4' \in [target : UC!Bundles, backup : UC!Bundles],
           ~v6 => /\ UC!Usable(v4'.target) \/ UC!Usable(v4'.backup)
                  /\ next \in {"wait", "clean", "aside", "open", "drop", "none"} => UC!Usable(v4'.target)
                  /\ next \in {"in", "back"} => v4'.target = UC!Missing
                  /\ next = "aside" => v4'.backup = UC!Missing
                  /\ next \in {"in", "verify", "restore", "back"} => UC!Usable(v4'.backup)
    PROVE  UC!PartInv'
<1>1. /\ v5[s].step = at /\ UNCHANGED <<v1, v3, v6>>
      /\ v5' \in [Scripts -> UC!ScriptStates] /\ v5'[s].step = next
      /\ next = "none" => v5'[s] = UC!NoScript
      /\ \A t \in Scripts \ {s} : v5'[t] = v5[t]
  BY UpdateCommand DEF UC!PartInv
<1>2. UC!TypeOK'
  BY <1>1 DEF UC!PartInv, UC!TypeOK
<1>3. UC!AppIsNeverLost'
  BY <1>1 DEF UC!AppIsNeverLost, UC!Usable
<1>4. v5[s] # UC!NoScript
  BY <1>1 DEF UC!NoScript
<1>5. ASSUME ~v6 PROVE \A t \in Scripts \ {s} : v5'[t] = UC!NoScript
  BY <1>1, <1>4, <1>5 DEF UC!PartInv, UC!ScriptInv, UC!OneScript
<1>6. ASSUME ~v6
      PROVE  /\ UC!OneScript'
             /\ \A t \in Scripts :
                  /\ v5'[t].step \in {"wait", "clean", "aside", "open", "drop"} => UC!Usable(v4'.target)
                  /\ v5'[t].step \in {"in", "back"} => v4'.target = UC!Missing
                  /\ v5'[t].step = "aside" => v4'.backup = UC!Missing
                  /\ v5'[t].step \in {"in", "verify", "restore", "back"} => UC!Usable(v4'.backup)
             /\ (\A t \in Scripts : v5'[t] = UC!NoScript) => UC!Usable(v4'.target)
  <2>1. UC!OneScript'
    BY <1>5, <1>6 DEF UC!OneScript, UC!NoScript
  <2>2. \A t \in Scripts \ {s} : v5'[t].step = "none"
    BY <1>5, <1>6 DEF UC!NoScript
  <2>3. (\A t \in Scripts : v5'[t] = UC!NoScript) => next = "none"
    BY <1>1 DEF UC!NoScript
  <2> QED
    BY <1>1, <1>6, <2>1, <2>2, <2>3
<1>7. UC!ScriptInv'
  BY <1>1, <1>6 DEF UC!PartInv, UC!ScriptInv, UC!Usable, UC!Missing, UC!Running
<1> QED
  BY <1>2, <1>3, <1>7 DEF UC!PartInv

(* A command of a script keeps the invariant.                               *)
LEMMA UpdateScript == ASSUME UC!PartInv, NEW s \in Scripts, UC!Script(s) PROVE UC!PartInv'
<1> USE ServicesAssumption DEF UC!Usable, UC!Missing
<1> DEFINE B == [target : UC!Bundles, backup : UC!Bundles]
<1>1. v2 \in 0..MaxVersion /\ v4 \in B /\ v5 \in [Scripts -> UC!ScriptStates]
  BY DEF UC!PartInv, UC!TypeOK
<1>2. 0 \in UC!Bundles /\ UC!Partial \in UC!Bundles /\ \A v \in 0..MaxVersion : v \in UC!Bundles
  BY DEF UC!Bundles, UC!Partial
<1>3. /\ UC!Opened(v4.target) \in 0..MaxVersion
      /\ \A b \in UC!Bundles : UC!Opened(b) \in 0..MaxVersion
  BY <1>1 DEF UC!Opened
<1>4. \A a, b \in UC!Bundles : UC!MovedOnto(a, b) \in UC!Bundles
  BY DEF UC!MovedOnto
<1>5. {"none", "clean", "aside", "in", "verify", "restore", "back", "open", "drop"} \subseteq UC!Steps
  BY DEF UC!Steps
<1>6. ASSUME ~v6
      PROVE  /\ v5[s].step \in {"wait", "clean", "aside", "open", "drop"} => UC!Usable(v4.target)
             /\ v5[s].step \in {"in", "back"} => v4.target = 0
             /\ v5[s].step = "aside" => v4.backup = 0
             /\ v5[s].step \in {"in", "verify", "restore", "back"} => UC!Usable(v4.backup)
  BY <1>6 DEF UC!PartInv, UC!ScriptInv
<1> HIDE DEF UC!Usable
<1>7. \A b : UC!Usable(b) => b # 0
  BY DEF UC!Usable
<1>8. CASE UC!RemoveOldBackup(s)
  <2>1. UC!Step(s, "clean", "aside") /\ v2' = v2 /\ v4' = [v4 EXCEPT !.backup = 0]
    BY <1>8 DEF UC!RemoveOldBackup
  <2>2. v5[s].step = "clean"
    BY <2>1 DEF UC!Step
  <2>3. v4' \in B /\ v4'.target = v4.target
    BY <1>1, <1>2, <2>1
  <2> QED
    BY <1>1, <1>5, <1>6, <2>1, <2>2, <2>3, UpdateCommandKeeps
<1>9. CASE UC!MoveAside(s)
  <2>1. CASE UC!Step(s, "aside", "none") /\ UNCHANGED <<v2, v4>>
    <3>1. v5[s].step = "aside"
      BY <2>1 DEF UC!Step
    <3> QED
      BY <1>1, <1>5, <1>6, <2>1, <3>1, UpdateCommandKeeps
  <2>2. CASE /\ UC!Step(s, "aside", "in") /\ v4.target # 0 /\ v2' = v2
             /\ v4' = [target |-> 0, backup |-> UC!MovedOnto(v4.backup, v4.target)]
    <3>1. v5[s].step = "aside"
      BY <2>2 DEF UC!Step
    <3>2. v4' \in B /\ v4'.target = 0
      BY <1>1, <1>2, <1>4, <2>2
    <3> QED
      BY <1>1, <1>5, <1>6, <1>7, <2>2, <3>1, <3>2, UpdateCommandKeeps DEF UC!MovedOnto
  <2> QED
    BY <1>9, <2>1, <2>2 DEF UC!MoveAside
<1>10. CASE UC!MoveIn(s)
  <2>1. PICK b \in {v5[s].staged, UC!Partial, 0} :
           /\ v4' = [v4 EXCEPT !.target = UC!MovedOnto(v4.target, b)] /\ v2' = v2
           /\ UC!Step(s, "in", "restore") \/ UC!Step(s, "in", "verify")
    BY <1>10 DEF UC!MoveIn
  <2>2. v5[s].step = "in"
    BY <2>1 DEF UC!Step
  <2>3. v4' \in B /\ v4'.backup = v4.backup
    <3>1. v5[s].staged \in 0..MaxVersion
      BY <1>1 DEF UC!ScriptStates
    <3>2. UC!MovedOnto(v4.target, b) \in UC!Bundles
      BY <1>1, <1>2, <1>4, <3>1
    <3> QED
      BY <1>1, <2>1, <3>2
  <2>4. CASE UC!Step(s, "in", "restore")
    BY <1>1, <1>5, <1>6, <2>1, <2>2, <2>3, <2>4, UpdateCommandKeeps
  <2>5. CASE UC!Step(s, "in", "verify")
    BY <1>1, <1>5, <1>6, <2>1, <2>2, <2>3, <2>5, UpdateCommandKeeps
  <2> QED
    BY <2>1, <2>4, <2>5
<1>11. CASE UC!Verify(s)
  <2>1. /\ UNCHANGED <<v2, v4>>
        /\ \/ UC!Usable(v4.target) /\ UC!Step(s, "verify", "open")
           \/ UC!Step(s, "verify", "restore")
    BY <1>11 DEF UC!Verify
  <2>2. v5[s].step = "verify"
    BY <2>1 DEF UC!Step
  <2>3. CASE UC!Usable(v4.target) /\ UC!Step(s, "verify", "open")
    BY <1>1, <1>5, <1>6, <2>1, <2>2, <2>3, UpdateCommandKeeps
  <2>4. CASE UC!Step(s, "verify", "restore")
    BY <1>1, <1>5, <1>6, <2>1, <2>2, <2>4, UpdateCommandKeeps
  <2> QED
    BY <2>1, <2>3, <2>4
<1>12. CASE UC!OpenNew(s)
  <2>1. UC!Step(s, "open", "drop") /\ v2' = UC!Opened(v4.target) /\ v4' = v4
    BY <1>12 DEF UC!OpenNew
  <2>2. v5[s].step = "open"
    BY <2>1 DEF UC!Step
  <2> QED
    BY <1>1, <1>3, <1>5, <1>6, <2>1, <2>2, UpdateCommandKeeps
<1>13. CASE UC!DropBackup(s)
  <2>1. UC!Step(s, "drop", "none") /\ v2' = v2 /\ v4' = [v4 EXCEPT !.backup = 0]
    BY <1>13 DEF UC!DropBackup
  <2>2. v5[s].step = "drop"
    BY <2>1 DEF UC!Step
  <2>3. v4' \in B /\ v4'.target = v4.target
    BY <1>1, <1>2, <2>1
  <2> QED
    BY <1>1, <1>5, <1>6, <2>1, <2>2, <2>3, UpdateCommandKeeps
<1>14. CASE UC!RemoveTarget(s)
  <2>1. UC!Step(s, "restore", "back") /\ v2' = v2 /\ v4' = [v4 EXCEPT !.target = 0]
    BY <1>14 DEF UC!RemoveTarget
  <2>2. v5[s].step = "restore"
    BY <2>1 DEF UC!Step
  <2>3. v4' \in B /\ v4'.target = 0 /\ v4'.backup = v4.backup
    BY <1>1, <1>2, <2>1
  <2> QED
    BY <1>1, <1>5, <1>6, <2>1, <2>2, <2>3, UpdateCommandKeeps
<1>15. CASE UC!Restore(s)
  <2>1. /\ UC!Step(s, "back", "none")
        /\ v4' = [target |-> UC!MovedOnto(v4.target, v4.backup), backup |-> 0]
        /\ v2' = IF v4.backup = 0 THEN v2 ELSE UC!Opened(v4'.target)
    BY <1>15 DEF UC!Restore
  <2>2. v5[s].step = "back"
    BY <2>1 DEF UC!Step
  <2>3. UC!MovedOnto(v4.target, v4.backup) \in UC!Bundles
    BY <1>1, <1>4
  <2>4. v4' \in B /\ v4'.target = UC!MovedOnto(v4.target, v4.backup)
    BY <1>2, <2>1, <2>3
  <2>5. v2' \in 0..MaxVersion
    BY <1>1, <1>3, <2>1, <2>3, <2>4
  <2>6. v4.target = 0 => v4'.target = v4.backup
    BY <2>4 DEF UC!MovedOnto
  <2> QED
    BY <1>1, <1>5, <1>6, <2>1, <2>2, <2>4, <2>5, <2>6, UpdateCommandKeeps
<1> QED
  BY <1>8, <1>9, <1>10, <1>11, <1>12, <1>13, <1>14, <1>15 DEF UC!Script

(* A step of the bridge, of the application or of the machine: the bundles  *)
(* stay.                                                                    *)
LEMMA UpdatePageKeeps ==
    ASSUME UC!PartInv, UNCHANGED <<v2, v4, v5, v6>>, v1' \in 1..MaxVersion, v3' \in UC!Pages,
           v3'.task = "install" => v3'.installing # 0
    PROVE  UC!PartInv'
BY DEF UC!PartInv, UC!TypeOK, UC!AppIsNeverLost, UC!ScriptInv, UC!OneScript, UC!Usable, UC!Running

(* Every step of the update keeps its invariant.                            *)
LEMMA UpdateKeeps == ASSUME UC!PartInv, UC!Next PROVE UC!PartInv'
<1> USE ServicesAssumption
<1>1. /\ v1 \in 1..MaxVersion /\ v2 \in 0..MaxVersion /\ v3 \in UC!Pages
      /\ v4 \in [target : UC!Bundles, backup : UC!Bundles]
      /\ v5 \in [Scripts -> UC!ScriptStates] /\ v6 \in BOOLEAN
  BY DEF UC!PartInv, UC!TypeOK
<1>2. /\ UC!NewPage \in UC!Pages /\ UC!NewPage.task = "none"
      /\ UC!NoScript \in UC!ScriptStates /\ UC!NoScript.step = "none"
  BY DEF UC!NewPage, UC!Pages, UC!Tasks, UC!NoScript, UC!ScriptStates, UC!Steps, UC!Missing
<1>8. /\ v3 \in UC!Pages /\ v1 \in 0..MaxVersion /\ 0 \in 0..MaxVersion
      /\ {"none", "check", "install"} \subseteq UC!Tasks
  BY <1>1 DEF UC!Tasks
<1>3. CASE \/ UC!Publish \/ UC!Check \/ UC!CheckFails \/ UC!CheckCompleted \/ UC!InstallUpdate
           \/ UC!StageFails
  <2>1. UNCHANGED <<v2, v4, v5, v6>> /\ v1' \in 1..MaxVersion
    BY <1>1, <1>3 DEF UC!Publish, UC!Check, UC!CheckFails, UC!CheckCompleted, UC!InstallUpdate,
                      UC!StageFails, UC!Page
  <2>2. v3' \in UC!Pages /\ (v3'.task = "install" => v3'.installing # 0)
    <3>1. CASE UC!Publish
      BY <1>1, <3>1 DEF UC!Publish, UC!PartInv, UC!ScriptInv
    <3>2. CASE UC!Check \/ UC!CheckFails \/ UC!CheckCompleted \/ UC!StageFails
      <4>1. \/ v3' = [v3 EXCEPT !.task = "check"]
            \/ v3' = [v3 EXCEPT !.task = "none"]
            \/ v3' = [v3 EXCEPT !.task = "none", !.release = v1]
            \/ v3' = [v3 EXCEPT !.task = "none", !.installing = 0]
        BY <3>2 DEF UC!Check, UC!CheckFails, UC!CheckCompleted, UC!StageFails, UC!Page
      <4> QED
        BY <1>8, <4>1 DEF UC!Pages
    <3>3. CASE UC!InstallUpdate
      <4>1. v3' = [v3 EXCEPT !.task = "install", !.installing = v3.release] /\ v3.release > v2
        BY <3>3 DEF UC!InstallUpdate, UC!UpdateAvailable, UC!Page
      <4>2. v3.release \in 0..MaxVersion /\ v3.release # 0
        BY <1>1, <1>8, <4>1 DEF UC!Pages
      <4> QED
        BY <1>8, <4>1, <4>2 DEF UC!Pages
    <3> QED
      BY <1>3, <3>1, <3>2, <3>3
  <2> QED
    BY <2>1, <2>2, UpdatePageKeeps
<1>4. CASE UC!StageUpdate
  <2>1. PICK s \in Scripts :
           /\ v5[s] = UC!NoScript
           /\ v5' = [v5 EXCEPT ![s] = [step |-> "wait", staged |-> v3.installing]]
    BY <1>4 DEF UC!StageUpdate
  <2>2. /\ v3' = [v3 EXCEPT !.task = "none", !.installing = 0] /\ UNCHANGED <<v1, v2, v4>>
        /\ v6' = (v6 \/ \E t \in Scripts : v5[t] # UC!NoScript)
        /\ UC!Running
    BY <1>4 DEF UC!StageUpdate
  <2>3. [step |-> "wait", staged |-> v3.installing] \in UC!ScriptStates
    BY <1>1 DEF UC!Pages, UC!ScriptStates, UC!Steps
  <2>4. v3' \in UC!Pages /\ v3'.task = "none"
    BY <1>8, <2>2 DEF UC!Pages
  <2>5. UC!TypeOK'
    BY <1>1, <2>1, <2>2, <2>3, <2>4 DEF UC!TypeOK
  <2>6. ASSUME ~v6'
        PROVE  /\ ~v6 /\ UC!Usable(v4.target)
               /\ v5'[s].step = "wait" /\ \A t \in Scripts \ {s} : v5'[t] = UC!NoScript
    BY <1>1, <2>1, <2>2, <2>6 DEF UC!PartInv, UC!ScriptInv
  <2>7. UC!AppIsNeverLost'
    BY <2>2, <2>6 DEF UC!AppIsNeverLost, UC!Usable
  <2>8. UC!ScriptInv'
    BY <1>2, <2>2, <2>4, <2>6 DEF UC!ScriptInv, UC!OneScript, UC!Usable
  <2> QED
    BY <2>5, <2>7, <2>8 DEF UC!PartInv
<1>5. CASE UC!AppExits
  <2>1. /\ v2' = 0 /\ v3' = UC!NewPage /\ UNCHANGED <<v1, v4, v6>>
        /\ v5' = [s \in Scripts |-> IF v5[s].step = "wait"
                                    THEN [v5[s] EXCEPT !.step = "clean"] ELSE v5[s]]
    BY <1>5 DEF UC!AppExits
  <2>2. \A s \in Scripts : [v5[s] EXCEPT !.step = "clean"] \in UC!ScriptStates
    BY <1>1 DEF UC!ScriptStates, UC!Steps
  <2>3. UC!TypeOK'
    BY <1>1, <1>2, <2>1, <2>2 DEF UC!TypeOK
  <2>4. \A s \in Scripts :
           /\ v5[s] = UC!NoScript <=> v5'[s] = UC!NoScript
           /\ v5'[s].step = v5[s].step \/ (v5[s].step = "wait" /\ v5'[s].step = "clean")
    BY <1>1, <1>2, <2>1 DEF UC!ScriptStates
  <2>5. UC!AppIsNeverLost'
    BY <2>1 DEF UC!PartInv, UC!AppIsNeverLost, UC!Usable
  <2>6. UC!ScriptInv'
    BY <1>2, <2>1, <2>4 DEF UC!PartInv, UC!ScriptInv, UC!OneScript, UC!Usable, UC!Running
  <2> QED
    BY <2>3, <2>5, <2>6 DEF UC!PartInv
<1>6. CASE UC!StartApp
  <2>1. UC!Usable(v4.target) /\ v2' = UC!Opened(v4.target) /\ UNCHANGED <<v1, v3, v4, v5, v6>>
    BY <1>6 DEF UC!StartApp
  <2>2. v2' \in 0..MaxVersion
    BY <1>1, <2>1 DEF UC!Opened, UC!Usable
  <2> QED
    BY <2>1, <2>2 DEF UC!PartInv, UC!TypeOK, UC!AppIsNeverLost, UC!ScriptInv, UC!OneScript, UC!Usable
<1>7. CASE UC!PowerOff
  <2>1. /\ v2' = 0 /\ v3' = UC!NewPage /\ v5' = [s \in Scripts |-> UC!NoScript]
        /\ UNCHANGED <<v1, v4, v6>>
    BY <1>7 DEF UC!PowerOff
  <2>2. UC!TypeOK'
    BY <1>1, <1>2, <2>1 DEF UC!TypeOK
  <2>3. UC!AppIsNeverLost' /\ UC!ScriptInv'
    BY <1>2, <2>1 DEF UC!PartInv, UC!AppIsNeverLost, UC!ScriptInv, UC!OneScript, UC!Usable, UC!Running
  <2> QED
    BY <2>2, <2>3 DEF UC!PartInv
<1> QED
  BY <1>3, <1>4, <1>5, <1>6, <1>7, UpdateScript DEF UC!Next

-----------------------------------------------------------------------------
(* The preflight (ResourcePreflight), with the cache as an argument.        *)
MissesIn(c, r, i) == {s \in r.symbols : <<s, i>> \notin c}

UnaskedIn(c, r, intervals) == UNION {MissesIn(c, r, i) : i \in intervals}

CallsForIn(c, r, intervals, i) ==
    IF i \in intervals THEN RP!Pages(r, i) * Cardinality(MissesIn(c, r, i)) ELSE 0

CallsIn(c, r, intervals) ==
    CallsForIn(c, r, intervals, "range") + CallsForIn(c, r, intervals, "day")
    + CallsForIn(c, r, intervals, "2h")

(* The request that asks for the quota.                                     *)
QuotaCall(c, r, session, intervals) ==
    IF r.provider = "futu" /\ session = {} /\ UnaskedIn(c, r, intervals) # {} THEN 1 ELSE 0

(* The library operators of the instance are the library's.                 *)
LEMMA SameSize == \A S : RP!Cardinality(S) = Cardinality(S)
BY DEF RP!Cardinality, Cardinality

(* The larger of zero and a number.                                         *)
LEMMA MaxZero == ASSUME NEW x \in Int PROVE RP!Max({0, x}) = IF x > 0 THEN x ELSE 0
BY DEF RP!Max

(* A product grows with its factors.                                        *)
LEMMA Products ==
    ASSUME NEW a \in Nat, NEW b \in Nat, NEW c \in Nat, NEW d \in Nat, a <= b, c <= d
    PROVE  a * c \in Nat /\ a * c <= b * d
<1>1. a * c <= b * c
  OBVIOUS
<1>2. b * c <= b * d
  OBVIOUS
<1>3. a * c \in Nat /\ b * c \in Nat /\ b * d \in Nat
  OBVIOUS
<1> QED BY <1>1, <1>2, <1>3

(* What a request asks for is finite.                                       *)
LEMMA RequestFacts ==
    ASSUME NEW r \in RP!Requests
    PROVE  /\ IsFiniteSet(r.symbols) /\ r.symbols \subseteq Members \cup {RP!Bench}
           /\ r.intervals \subseteq RP!Intervals
           /\ r.tool \in {"rs", "turning", "extreme"} /\ r.provider \in {"longbridge", "futu"}
<1>1. /\ r.intervals \subseteq RP!Intervals
      /\ r.tool \in {"rs", "turning", "extreme"} /\ r.provider \in {"longbridge", "futu"}
  BY DEF RP!Requests, RP!Intervals
<1>2. r.symbols = {RP!Bench} \cup Members \/ r.symbols = Members \/ \E m \in Members : r.symbols = {m}
  BY DEF RP!Requests
<1>3. IsFiniteSet(Members) /\ IsFiniteSet({RP!Bench})
  BY ServicesAssumption, FS_Singleton
<1>4. IsFiniteSet({RP!Bench} \cup Members)
  BY <1>3, FS_Union
<1>5. \A m \in Members : IsFiniteSet({m})
  BY FS_Singleton
<1> QED BY <1>1, <1>2, <1>3, <1>4, <1>5

(* A fetch sends no more pages than the plan counts for it.                 *)
LEMMA PagesFacts ==
    ASSUME NEW r \in RP!Requests, NEW i \in RP!Intervals
    PROVE  /\ RP!Pages(r, i) \in Nat
           /\ \A pages \in RP!PagesSent(r, i) :
                 pages \in Nat /\ (~v7.repeats => pages <= RP!Pages(r, i))
<1> DEFINE size == RP!PageSize(r)
           wanted == RP!Wanted(r)
<1>1. size \in {200, 1000} /\ wanted \in {220, 650}
  BY DEF RP!PageSize, RP!Wanted
<1>2. CASE RP!Quant(r, i)
  BY <1>2 DEF RP!Pages, RP!PagesSent
<1>3. CASE ~RP!Quant(r, i)
  <2>1. RP!Pages(r, i) = (wanted + size - 1) \div size
    BY <1>3 DEF RP!Pages, RP!CeilDiv
  <2> SUFFICES ASSUME NEW pages \in RP!PagesSent(r, i)
               PROVE  /\ RP!Pages(r, i) \in Nat /\ pages \in Nat
                      /\ ~v7.repeats => pages <= RP!Pages(r, i)
    BY <1>1, <2>1
  <2>2. PICK want \in {5, 210, wanted}, bars \in {0, 199, 200, 401, 649, 2000} :
           pages = IF bars < want THEN bars \div size + 1
                   ELSE (want + size - 1) \div size + RP!Repeated(want)
    BY <1>3 DEF RP!PagesSent, RP!CeilDiv
  <2>a. RP!Repeated(want) \in {0, 1} /\ (~v7.repeats => RP!Repeated(want) = 0)
    BY DEF RP!Repeated
  <2> HIDE DEF size, wanted
  <2>3. CASE size = 200 /\ wanted = 220
    BY <2>1, <2>2, <2>a, <2>3
  <2>4. CASE size = 200 /\ wanted = 650
    BY <2>1, <2>2, <2>a, <2>4
  <2>5. CASE size = 1000 /\ wanted = 220
    BY <2>1, <2>2, <2>a, <2>5
  <2>6. CASE size = 1000 /\ wanted = 650
    BY <2>1, <2>2, <2>a, <2>6
  <2> QED BY <1>1, <2>3, <2>4, <2>5, <2>6
<1> QED BY <1>2, <1>3

(* A cache that grows leaves fewer misses.                                  *)
LEMMA MissesFacts ==
    ASSUME NEW r \in RP!Requests, NEW i, NEW c
    PROVE  /\ MissesIn(c, r, i) \subseteq r.symbols /\ IsFiniteSet(MissesIn(c, r, i))
           /\ Cardinality(MissesIn(c, r, i)) \in Nat
           /\ \A d : c \subseteq d => Cardinality(MissesIn(d, r, i)) <= Cardinality(MissesIn(c, r, i))
<1>1. \A d : MissesIn(d, r, i) \subseteq r.symbols
  BY DEF MissesIn
<1>2. IsFiniteSet(MissesIn(c, r, i))
  BY <1>1, RequestFacts, FS_Subset
<1>3. ASSUME NEW d, c \subseteq d
      PROVE  Cardinality(MissesIn(d, r, i)) <= Cardinality(MissesIn(c, r, i))
  <2>1. MissesIn(d, r, i) \subseteq MissesIn(c, r, i)
    BY <1>3 DEF MissesIn
  <2> QED BY <1>2, <2>1, FS_Subset
<1>4. Cardinality(MissesIn(c, r, i)) \in Nat
  BY <1>2, FS_CardinalityType
<1> QED BY <1>1, <1>2, <1>3, <1>4

(* A cache that grows, and fewer intervals, leave fewer symbols to ask for. *)
LEMMA UnaskedFacts ==
    ASSUME NEW r \in RP!Requests, NEW c, NEW d, c \subseteq d, NEW I, NEW J, J \subseteq I
    PROVE  /\ UnaskedIn(c, r, I) \subseteq r.symbols /\ IsFiniteSet(UnaskedIn(c, r, I))
           /\ UnaskedIn(d, r, J) \subseteq UnaskedIn(c, r, I)
<1>1. UnaskedIn(c, r, I) \subseteq r.symbols
  BY DEF UnaskedIn, MissesIn
<1>2. UnaskedIn(d, r, J) \subseteq UnaskedIn(c, r, I)
  BY DEF UnaskedIn, MissesIn
<1> QED BY <1>1, <1>2, RequestFacts, FS_Subset

(* A cache that grows leaves fewer calls.                                   *)
LEMMA CallsFacts ==
    ASSUME NEW r \in RP!Requests, NEW I, NEW c
    PROVE  /\ CallsIn(c, r, I) \in Nat
           /\ \A d : c \subseteq d => CallsIn(d, r, I) <= CallsIn(c, r, I)
<1>1. ASSUME NEW i \in RP!Intervals
      PROVE  /\ CallsForIn(c, r, I, i) \in Nat
             /\ \A d : c \subseteq d => /\ CallsForIn(d, r, I, i) \in Nat
                                        /\ CallsForIn(d, r, I, i) <= CallsForIn(c, r, I, i)
  <2>1. RP!Pages(r, i) \in Nat /\ RP!Pages(r, i) <= RP!Pages(r, i)
    BY PagesFacts
  <2>2. Cardinality(MissesIn(c, r, i)) \in Nat
    BY MissesFacts
  <2>3. RP!Pages(r, i) * Cardinality(MissesIn(c, r, i)) \in Nat
    BY <2>1, <2>2, Products
  <2>4. ASSUME NEW d, c \subseteq d
        PROVE  /\ CallsForIn(d, r, I, i) \in Nat
               /\ CallsForIn(d, r, I, i) <= CallsForIn(c, r, I, i)
    <3>1. Cardinality(MissesIn(d, r, i)) \in Nat
          /\ Cardinality(MissesIn(d, r, i)) <= Cardinality(MissesIn(c, r, i))
      BY <2>4, MissesFacts
    <3>2. /\ RP!Pages(r, i) * Cardinality(MissesIn(d, r, i)) \in Nat
          /\ RP!Pages(r, i) * Cardinality(MissesIn(d, r, i))
             <= RP!Pages(r, i) * Cardinality(MissesIn(c, r, i))
      BY <2>1, <2>2, <3>1, Products
    <3> QED BY <3>2 DEF CallsForIn
  <2> QED BY <2>3, <2>4 DEF CallsForIn
<1>2. "range" \in RP!Intervals /\ "day" \in RP!Intervals /\ "2h" \in RP!Intervals
  BY DEF RP!Intervals
<1>3. CallsIn(c, r, I) \in Nat
  BY <1>1, <1>2 DEF CallsIn
<1>4. ASSUME NEW d, c \subseteq d PROVE CallsIn(d, r, I) <= CallsIn(c, r, I)
  <2> DEFINE Less(i) == /\ CallsForIn(c, r, I, i) \in Nat /\ CallsForIn(d, r, I, i) \in Nat
                        /\ CallsForIn(d, r, I, i) <= CallsForIn(c, r, I, i)
  <2>1. Less("range") /\ Less("day") /\ Less("2h")
    BY <1>1, <1>2, <1>4
  <2> QED BY <2>1 DEF CallsIn
<1> QED BY <1>3, <1>4

(* What the fetch of an interval takes off what is still to be sent.        *)
LEMMA CallsWithout ==
    ASSUME NEW r \in RP!Requests, NEW I, NEW c, NEW i \in I, i \in RP!Intervals
    PROVE  /\ CallsIn(c, r, I \ {i}) \in Nat
           /\ CallsIn(c, r, I)
              = CallsIn(c, r, I \ {i}) + RP!Pages(r, i) * Cardinality(MissesIn(c, r, i))
<1> DEFINE J == I \ {i}
           N == RP!Pages(r, i) * Cardinality(MissesIn(c, r, i))
<1>1. CallsForIn(c, r, J, i) = 0 /\ CallsForIn(c, r, I, i) = N
  BY DEF CallsForIn
<1>2. \A j : j # i => CallsForIn(c, r, J, j) = CallsForIn(c, r, I, j)
  BY DEF CallsForIn
<1>3. \A j \in RP!Intervals : CallsForIn(c, r, J, j) \in Nat
  BY PagesFacts, MissesFacts, Products DEF CallsForIn
<1>4. N \in Nat
  BY PagesFacts, MissesFacts, Products
<1>5. CallsIn(c, r, J) \in Nat
  BY CallsFacts
<1>6. i \in {"range", "day", "2h"}
  BY DEF RP!Intervals
<1> HIDE DEF J, N
<1>7. CallsIn(c, r, I) = CallsIn(c, r, J) + N
  <2>1. /\ CallsForIn(c, r, J, "range") \in Nat /\ CallsForIn(c, r, J, "day") \in Nat
        /\ CallsForIn(c, r, J, "2h") \in Nat
    BY <1>3 DEF RP!Intervals
  <2>2. CASE i = "range"
    BY <1>1, <1>2, <1>4, <2>1, <2>2 DEF CallsIn
  <2>3. CASE i = "day"
    BY <1>1, <1>2, <1>4, <2>1, <2>3 DEF CallsIn
  <2>4. CASE i = "2h"
    BY <1>1, <1>2, <1>4, <2>1, <2>4 DEF CallsIn
  <2> QED BY <1>6, <2>2, <2>3, <2>4
<1> QED BY <1>5, <1>7 DEF J, N

(* The operators of the model in these terms, before a step and after it.   *)
LEMMA RpForms ==
    /\ \A i : RP!Misses(v1, i) = MissesIn(v2, v1, i)
    /\ \A ints : RP!Unasked(v1, ints) = UnaskedIn(v2, v1, ints)
    /\ \A ints : RP!CallsOf(v1, ints) = CallsIn(v2, v1, ints)
    /\ RP!ProviderCalls(v1) = CallsIn(v2, v1, v1.intervals) + RP!Annotations(v1)
                              + QuotaCall(v2, v1, {}, v1.intervals)
    /\ RP!QuotaSymbols(v1) = UnaskedIn(v2, v1, v1.intervals)
    /\ RP!StillToSend = CallsIn(v2, v1, v6.todo) + RP!Annotations(v1)
                        + QuotaCall(v2, v1, v6.session, v6.todo)
<1>1. \A i : RP!Misses(v1, i) = MissesIn(v2, v1, i)
  BY DEF RP!Misses, MissesIn
<1>2. \A ints : RP!Unasked(v1, ints) = UnaskedIn(v2, v1, ints)
  BY <1>1 DEF RP!Unasked, UnaskedIn
<1>3. \A ints, i : RP!CallsFor(v1, ints, i) = CallsForIn(v2, v1, ints, i)
  BY <1>1, SameSize DEF RP!CallsFor, CallsForIn
<1>4. \A ints : RP!CallsOf(v1, ints) = CallsIn(v2, v1, ints)
  BY <1>3 DEF RP!CallsOf, CallsIn
<1>5. RP!QuotaSymbols(v1) = UnaskedIn(v2, v1, v1.intervals)
  BY <1>2 DEF RP!QuotaSymbols
<1>6. RP!ProviderCalls(v1) = CallsIn(v2, v1, v1.intervals) + RP!Annotations(v1)
                             + QuotaCall(v2, v1, {}, v1.intervals)
  BY <1>4, <1>5 DEF RP!ProviderCalls, QuotaCall
<1>7. RP!StillToSend = CallsIn(v2, v1, v6.todo) + RP!Annotations(v1)
                       + QuotaCall(v2, v1, v6.session, v6.todo)
  BY <1>2, <1>4 DEF RP!StillToSend, QuotaCall
<1> QED BY <1>1, <1>2, <1>4, <1>5, <1>6, <1>7

(* The same in the next state.                                              *)
LEMMA RpFormsNext ==
    /\ RP!ProviderCalls(v1)' = CallsIn(v2', v1', v1'.intervals) + RP!Annotations(v1')
                               + QuotaCall(v2', v1', {}, v1'.intervals)
    /\ RP!QuotaSymbols(v1)' = UnaskedIn(v2', v1', v1'.intervals)
    /\ RP!Unasked(v1, v6.todo)' = UnaskedIn(v2', v1', v6'.todo)
    /\ RP!StillToSend' = CallsIn(v2', v1', v6'.todo) + RP!Annotations(v1')
                         + QuotaCall(v2', v1', v6'.session, v6'.todo)
<1> USE DEF RP!Misses, RP!Unasked, RP!CallsFor, RP!CallsOf, RP!Annotations,
            MissesIn, UnaskedIn, CallsForIn, CallsIn, QuotaCall
<1>1. RP!QuotaSymbols(v1)' = UnaskedIn(v2', v1', v1'.intervals)
  BY DEF RP!QuotaSymbols
<1>2. RP!Unasked(v1, v6.todo)' = UnaskedIn(v2', v1', v6'.todo)
  OBVIOUS
<1>3. RP!CallsOf(v1, v6.todo)' = CallsIn(v2', v1', v6'.todo)
  BY SameSize
<1>4. RP!CallsOf(v1, v1.intervals)' = CallsIn(v2', v1', v1'.intervals)
  BY SameSize
<1>5. RP!ProviderCalls(v1)' = CallsIn(v2', v1', v1'.intervals) + RP!Annotations(v1')
                               + QuotaCall(v2', v1', {}, v1'.intervals)
  BY <1>1, <1>4 DEF RP!ProviderCalls
<1>6. RP!StillToSend' = CallsIn(v2', v1', v6'.todo) + RP!Annotations(v1')
                         + QuotaCall(v2', v1', v6'.session, v6'.todo)
  BY <1>2, <1>3 DEF RP!StillToSend
<1> QED BY <1>1, <1>2, <1>5, <1>6

(* What the quota of a batch of misses answers (futu quota.py).             *)
LEMMA BlockFacts ==
    ASSUME RP!TypeOK, NEW misses, misses \subseteq v1.symbols
    PROVE  LET b == RP!QuotaBlock(misses)
               asks == v1.provider = "futu" /\ misses # {}
           IN  /\ b.asked = (IF asks /\ v6.session = {} THEN 1 ELSE 0)
               /\ b.blocked \in BOOLEAN
               /\ ~asks => ~b.blocked /\ b.session = v6.session
               /\ asks => \E known \in RP!KnownQuota :
                     LET new == misses \ known.reusable
                     IN  /\ known \in RP!Quotas /\ Cardinality(new) \in Nat
                         /\ b.blocked <=> Cardinality(new) > known.remaining
                         /\ b.blocked => b.session = {known}
                         /\ ~b.blocked =>
                               b.session = {[reusable |-> known.reusable \cup new,
                                             remaining |-> known.remaining - Cardinality(new)]}
<1> DEFINE asks == v1.provider = "futu" /\ misses # {}
           first == asks /\ v6.session = {}
           known == IF first THEN v3 ELSE CHOOSE q \in v6.session : TRUE
           new == misses \ known.reusable
           full == Cardinality(new) > known.remaining
           added == [reusable |-> known.reusable \cup new,
                     remaining |-> known.remaining - Cardinality(new)]
           b == [asked |-> IF first THEN 1 ELSE 0, blocked |-> asks /\ full,
                 session |-> IF ~asks THEN v6.session ELSE IF full THEN {known} ELSE {added}]
<1>1. RP!QuotaBlock(misses) = b
  BY SameSize DEF RP!QuotaBlock
<1>2. ASSUME asks PROVE known \in RP!KnownQuota /\ known \in RP!Quotas
  <2>1. v3 \in RP!Quotas /\ v6.session \subseteq RP!Quotas
    BY DEF RP!TypeOK
  <2>2. CASE first
    BY <2>1, <2>2 DEF RP!KnownQuota
  <2>3. CASE ~first
    <3>1. v6.session # {}
      BY <1>2, <2>3
    <3>2. known = CHOOSE q \in v6.session : TRUE
      BY <2>3
    <3>3. known \in v6.session
      BY <3>1, <3>2
    <3> HIDE DEF known
    <3> QED BY <2>1, <3>1, <3>3 DEF RP!KnownQuota
  <2> QED BY <2>2, <2>3
<1>3. Cardinality(new) \in Nat
  <2>1. IsFiniteSet(misses)
    BY RequestFacts, FS_Subset DEF RP!TypeOK
  <2>2. new \subseteq misses
    OBVIOUS
  <2> HIDE DEF new
  <2> QED BY <2>1, <2>2, FS_Subset, FS_CardinalityType
<1>4. b.asked = (IF first THEN 1 ELSE 0) /\ (b.blocked <=> asks /\ full) /\ b.blocked \in BOOLEAN
  OBVIOUS
<1>5. b.session = IF ~asks THEN v6.session ELSE IF full THEN {known} ELSE {added}
  OBVIOUS
<1> HIDE DEF b
<1>6. ~asks => ~b.blocked /\ b.session = v6.session
  BY <1>4, <1>5
<1>7. ASSUME asks
      PROVE  \E k \in RP!KnownQuota :
                LET n == misses \ k.reusable
                IN  /\ k \in RP!Quotas /\ Cardinality(n) \in Nat
                    /\ b.blocked <=> Cardinality(n) > k.remaining
                    /\ b.blocked => b.session = {k}
                    /\ ~b.blocked => b.session = {[reusable |-> k.reusable \cup n,
                                                   remaining |-> k.remaining - Cardinality(n)]}
  <2>1. b.blocked <=> Cardinality(misses \ known.reusable) > known.remaining
    BY <1>4, <1>7
  <2>2. b.blocked => b.session = {known}
    BY <1>4, <1>5, <1>7
  <2>3. ~b.blocked => b.session = {[reusable |-> known.reusable \cup (misses \ known.reusable),
                        remaining |-> known.remaining - Cardinality(misses \ known.reusable)]}
    BY <1>4, <1>5, <1>7
  <2>4. known \in RP!KnownQuota /\ known \in RP!Quotas /\ Cardinality(misses \ known.reusable) \in Nat
    BY <1>2, <1>3, <1>7
  <2> HIDE DEF known, asks, first, new, full, added
  <2> QED BY <2>1, <2>2, <2>3, <2>4
<1> HIDE DEF known, new, full, added
<1> QED BY <1>1, <1>4, <1>6, <1>7

(* The preflight begins with its invariant.                                 *)
LEMMA RpInit == RP!Init => RP!PartInv
<1> SUFFICES ASSUME RP!Init PROVE RP!PartInv
  OBVIOUS
<1> USE ServicesAssumption DEF RP!Init, RP!No
<1>1. v1 \in RP!Requests /\ v2 \subseteq RP!Items(v1)
  OBVIOUS
<1>2. v3 \in RP!Quotas /\ v3.remaining <= MaxQuota
  BY DEF RP!Quotas
<1>3. v6 \in [todo : SUBSET v1.intervals, session : SUBSET RP!Quotas, calls : Nat, blocked : BOOLEAN]
  OBVIOUS
<1>4. RP!TypeOK
  <2>1. v7 \in [steps : Nat, cleared : BOOLEAN, used : Nat, repeats : BOOLEAN]
    <3>1. PICK b \in BOOLEAN : v7 = [steps |-> 0, cleared |-> FALSE, used |-> 0, repeats |-> b]
      OBVIOUS
    <3> QED BY <3>1
  <2>2. v4 \in [calls : Nat \cup {-1}, short : Nat] /\ v5 = "edit"
    OBVIOUS
  <2>3. \A p, q \in v6.session : p = q
    OBVIOUS
  <2> QED BY <1>1, <1>2, <1>3, <2>1, <2>2, <2>3 DEF RP!TypeOK
<1>5. RP!CallsInv /\ RP!QuotaInv /\ RP!AskedInv
  BY DEF RP!CallsInv, RP!QuotaInv, RP!AskedInv
<1>6. RP!EstimateCoversTheRun /\ RP!LetThroughFitsTheQuota
  BY DEF RP!EstimateCoversTheRun, RP!LetThroughFitsTheQuota
<1> QED BY <1>4, <1>5, <1>6 DEF RP!PartInv

(* What is still to be sent is a number.                                    *)
LEMMA StillFacts ==
    ASSUME NEW r \in RP!Requests, NEW c, NEW session, NEW I
    PROVE  /\ CallsIn(c, r, I) \in Nat /\ RP!Annotations(r) \in {0, 1}
           /\ QuotaCall(c, r, session, I) \in {0, 1}
<1>1. CallsIn(c, r, I) \in Nat
  BY CallsFacts
<1> QED BY <1>1 DEF RP!Annotations, QuotaCall

(* The estimate bounds the run at every step of it, so a large one was      *)
(* asked about.                                                             *)
LEMMA RpCovers ==
    ASSUME RP!TypeOK', RP!CallsInv'
    PROVE  RP!EstimateCoversTheRun'
<1>1. v6'.calls \in Nat /\ v4'.calls \in Nat \cup {-1} /\ v1' \in RP!Requests
  BY DEF RP!TypeOK
<1>2. v5' = "run" => RP!StillToSend' \in Nat
  BY <1>1, RpFormsNext, StillFacts
<1>3. v5' \in {"run", "done"} /\ ~v7'.cleared /\ ~v7'.repeats => v6'.calls <= v4'.calls
  BY <1>1, <1>2 DEF RP!CallsInv
<1> QED BY <1>1, <1>3, ServicesAssumption DEF RP!EstimateCoversTheRun, RP!RequiresConfirmation

(* What the estimate says is a number, and what it lets through fits.       *)
LEMMA ShortFacts ==
    ASSUME RP!TypeOK
    PROVE  /\ RP!ProviderCalls(v1) \in Nat /\ RP!Shortfall(v1) \in Nat
           /\ v1.provider = "futu" => RP!Fits(RP!QuotaSymbols(v1), v3, RP!Shortfall(v1))
<1>1. v1 \in RP!Requests /\ v3.remaining \in Nat
  BY DEF RP!TypeOK, RP!Quotas
<1>2. RP!ProviderCalls(v1) \in Nat
  BY <1>1, RpForms, StillFacts
<1> DEFINE asked == RP!QuotaSymbols(v1) \ v3.reusable
           gap == Cardinality(asked) - v3.remaining
<1>3. Cardinality(asked) \in Nat
  <2>1. asked \subseteq UnaskedIn(v2, v1, v1.intervals)
    BY RpForms
  <2>2. IsFiniteSet(UnaskedIn(v2, v1, v1.intervals))
    BY <1>1, UnaskedFacts
  <2> HIDE DEF asked
  <2> QED BY <2>1, <2>2, FS_Subset, FS_CardinalityType
<1>4. v1.provider = "futu" => RP!Shortfall(v1) = RP!Max({0, gap})
  BY SameSize DEF RP!Shortfall
<1>5. v1.provider # "futu" => RP!Shortfall(v1) = 0
  BY DEF RP!Shortfall
<1>6. RP!Fits(RP!QuotaSymbols(v1), v3, RP!Shortfall(v1))
      <=> Cardinality(asked) <= v3.remaining + RP!Shortfall(v1)
  BY SameSize DEF RP!Fits
<1> HIDE DEF asked
<1>7. gap \in Int
  BY <1>1, <1>3
<1>8. RP!Max({0, gap}) = IF gap > 0 THEN gap ELSE 0
  BY <1>7, MaxZero
<1> QED BY <1>1, <1>2, <1>3, <1>4, <1>5, <1>6, <1>8

(* The estimate keeps the invariant.                                        *)
LEMMA RpEstimateKeeps == ASSUME RP!PartInv, RP!Estimate PROVE RP!PartInv'
<1> DEFINE calls == RP!ProviderCalls(v1)
           short == RP!Shortfall(v1)
<1>1. calls \in Nat /\ short \in Nat
      /\ (v1.provider = "futu" => RP!Fits(RP!QuotaSymbols(v1), v3, short))
  BY ShortFacts DEF RP!PartInv
<1>2. /\ v4' = [calls |-> calls, short |-> short] /\ UNCHANGED <<v1, v2, v3>> /\ v5 = "edit"
      /\ v7' = [v7 EXCEPT !.cleared = FALSE, !.used = 0]
      /\ \/ v5' = "asked" /\ v6' = v6
         \/ /\ v5' = "run" /\ short <= 0
            /\ v6' = [todo |-> v1.intervals, session |-> {}, calls |-> 0, blocked |-> FALSE]
  BY <1>1 DEF RP!Estimate, RP!Launch, RP!RequiresConfirmation
<1>3. /\ v1 \in RP!Requests /\ v3 \in RP!Quotas /\ ~v6.blocked /\ v1' \in RP!Requests
  BY <1>2 DEF RP!PartInv, RP!TypeOK, RP!AskedInv
<1>4. RP!ProviderCalls(v1)' = calls /\ RP!QuotaSymbols(v1)' = RP!QuotaSymbols(v1)
  BY <1>2, RpForms, RpFormsNext
<1>5. v5' = "run" => RP!StillToSend' = calls /\ RP!Unasked(v1, v6.todo)' = RP!QuotaSymbols(v1)
  <2> SUFFICES ASSUME v5' = "run"
               PROVE  RP!StillToSend' = calls /\ RP!Unasked(v1, v6.todo)' = RP!QuotaSymbols(v1)
    OBVIOUS
  <2>1. v6'.todo = v1.intervals /\ v6'.session = {}
    BY <1>2
  <2> QED BY <1>2, <2>1, RpForms, RpFormsNext
<1> HIDE DEF calls, short
<1>6. RP!TypeOK'
  <2>1. v4' \in [calls : Nat \cup {-1}, short : Nat]
    BY <1>1, <1>2
  <2>2. /\ v6' \in [todo : SUBSET v1'.intervals, session : SUBSET RP!Quotas, calls : Nat,
                    blocked : BOOLEAN]
        /\ \A p, q \in v6'.session : p = q
    <3>1. CASE v6' = v6
      BY <3>1, <1>2 DEF RP!PartInv, RP!TypeOK
    <3>2. CASE v6' = [todo |-> v1.intervals, session |-> {}, calls |-> 0, blocked |-> FALSE]
      BY <3>2, <1>2
    <3> QED BY <3>1, <3>2, <1>2
  <2>3. v7' \in [steps : Nat, cleared : BOOLEAN, used : Nat, repeats : BOOLEAN]
    BY <1>2 DEF RP!PartInv, RP!TypeOK
  <2> QED BY <1>2, <2>1, <2>2, <2>3 DEF RP!PartInv, RP!TypeOK, RP!Items
<1>7. RP!CallsInv'
  <2>1. v5' = "asked" => RP!ProviderCalls(v1)' <= v4'.calls
    BY <1>1, <1>2, <1>4
  <2>2. v5' = "run" => v6'.calls + RP!StillToSend' <= v4'.calls
    BY <1>1, <1>2, <1>5
  <2> QED BY <1>2, <2>1, <2>2 DEF RP!CallsInv
<1>8. RP!QuotaInv'
  <2> SUFFICES ASSUME v1.provider = "futu"
               PROVE  /\ v5' = "asked" => RP!Fits(RP!QuotaSymbols(v1)', v3, short)
                      /\ v5' = "run" => \A known \in RP!KnownQuota' :
                                           RP!Fits(RP!Unasked(v1, v6.todo)', known, 0)
    BY <1>2 DEF RP!QuotaInv, RP!Fits
  <2>1. v5' = "run" => RP!KnownQuota' = {v3} /\ short = 0
    BY <1>1, <1>2 DEF RP!KnownQuota
  <2> QED BY <1>1, <1>4, <1>5, <2>1
<1>9. RP!AskedInv' /\ RP!LetThroughFitsTheQuota'
  BY <1>2, <1>3 DEF RP!AskedInv, RP!LetThroughFitsTheQuota
<1> QED BY <1>6, <1>7, <1>8, <1>9, RpCovers DEF RP!PartInv

(* The answer to the question about a large run.                            *)
LEMMA RpAnswerKeeps ==
    ASSUME RP!PartInv, RP!Confirm \/ RP!UseYahoo \/ RP!Dismiss PROVE RP!PartInv'
<1>1. /\ UNCHANGED <<v1, v2, v3, v7>> /\ v5 = "asked"
      /\ \/ v5' \in {"yahoo", "edit"} /\ v6' = v6 /\ (v4' = v4 \/ v4' = RP!No)
         \/ /\ v5' = "run" /\ v4.short = 0 /\ v4' = v4
            /\ v6' = [todo |-> v1.intervals, session |-> {}, calls |-> 0, blocked |-> FALSE]
  BY DEF RP!Confirm, RP!UseYahoo, RP!Dismiss, RP!Launch
<1>2. ~v6.blocked /\ v1 \in RP!Requests /\ v4.calls \in Nat \cup {-1}
  BY <1>1 DEF RP!PartInv, RP!AskedInv, RP!TypeOK
<1>3. v5' = "run" => /\ RP!StillToSend' = RP!ProviderCalls(v1)
                     /\ RP!Unasked(v1, v6.todo)' = RP!QuotaSymbols(v1)
  <2> SUFFICES ASSUME v5' = "run"
               PROVE  /\ RP!StillToSend' = RP!ProviderCalls(v1)
                      /\ RP!Unasked(v1, v6.todo)' = RP!QuotaSymbols(v1)
    OBVIOUS
  <2>1. v6'.todo = v1.intervals /\ v6'.session = {}
    BY <1>1
  <2> QED BY <1>1, <2>1, RpForms, RpFormsNext
<1>4. RP!TypeOK'
  <2>1. v4' \in [calls : Nat \cup {-1}, short : Nat]
    BY <1>1 DEF RP!PartInv, RP!TypeOK, RP!No
  <2>2. /\ v6' \in [todo : SUBSET v1'.intervals, session : SUBSET RP!Quotas, calls : Nat,
                    blocked : BOOLEAN]
        /\ \A p, q \in v6'.session : p = q
    <3>1. CASE v6' = v6
      BY <3>1, <1>1 DEF RP!PartInv, RP!TypeOK
    <3>2. CASE v6' = [todo |-> v1.intervals, session |-> {}, calls |-> 0, blocked |-> FALSE]
      BY <3>2, <1>1
    <3> QED BY <3>1, <3>2, <1>1
  <2> QED BY <1>1, <2>1, <2>2 DEF RP!PartInv, RP!TypeOK, RP!Items
<1>5. RP!CallsInv'
  <2>1. RP!ProviderCalls(v1) \in Nat
    BY ShortFacts DEF RP!PartInv
  <2>2. ~v7.cleared /\ ~v7.repeats => RP!ProviderCalls(v1) <= v4.calls
    BY <1>1 DEF RP!PartInv, RP!CallsInv
  <2>3. ~v7.cleared /\ ~v7.repeats /\ v5' = "run" => v6'.calls + RP!StillToSend' <= v4'.calls
    BY <1>1, <1>3, <2>1, <2>2
  <2> QED BY <1>1, <2>3 DEF RP!CallsInv
<1>6. RP!QuotaInv'
  <2> SUFFICES ASSUME v1.provider = "futu", ~v7.cleared, v7.used = 0, v5' = "run"
               PROVE  \A known \in RP!KnownQuota' : RP!Fits(RP!Unasked(v1, v6.todo)', known, 0)
    BY <1>1 DEF RP!QuotaInv, RP!Fits
  <2>1. RP!KnownQuota' = {v3}
    BY <1>1 DEF RP!KnownQuota
  <2>2. RP!Fits(RP!QuotaSymbols(v1), v3, 0)
    BY <1>1 DEF RP!PartInv, RP!QuotaInv
  <2> QED BY <1>3, <2>1, <2>2
<1>7. RP!AskedInv' /\ RP!LetThroughFitsTheQuota'
  BY <1>1, <1>2 DEF RP!AskedInv, RP!LetThroughFitsTheQuota
<1> QED BY <1>4, <1>5, <1>6, <1>7, RpCovers DEF RP!PartInv

(* The end of a run keeps the invariant.                                    *)
LEMMA RpFinishKeeps == ASSUME RP!PartInv, RP!Finish PROVE RP!PartInv'
<1>1. PICK n \in 0..RP!Annotations(v1) : v6' = [v6 EXCEPT !.calls = v6.calls + n]
  BY DEF RP!Finish
<1>2. /\ UNCHANGED <<v1, v2, v3, v4, v7>> /\ v5 = "run" /\ v5' = "done"
  BY DEF RP!Finish
<1>3. /\ v1 \in RP!Requests /\ v4.calls \in Nat \cup {-1}
      /\ v6 \in [todo : SUBSET v1.intervals, session : SUBSET RP!Quotas, calls : Nat,
                 blocked : BOOLEAN]
      /\ \A p, q \in v6.session : p = q
  BY DEF RP!PartInv, RP!TypeOK
<1>4. RP!StillToSend = CallsIn(v2, v1, v6.todo) + RP!Annotations(v1)
                       + QuotaCall(v2, v1, v6.session, v6.todo)
  BY RpForms
<1>5. /\ CallsIn(v2, v1, v6.todo) \in Nat /\ RP!Annotations(v1) \in {0, 1}
      /\ QuotaCall(v2, v1, v6.session, v6.todo) \in {0, 1}
  BY <1>3, StillFacts
<1>6. n <= RP!StillToSend /\ n \in Nat /\ RP!StillToSend \in Nat
  BY <1>4, <1>5
<1>7. /\ v6'.todo = v6.todo /\ v6'.session = v6.session /\ v6'.calls = v6.calls + n
      /\ v6'.blocked = v6.blocked
  BY <1>1, <1>3
<1>8. RP!TypeOK'
  <2>1. /\ v6' \in [todo : SUBSET v1.intervals, session : SUBSET RP!Quotas, calls : Nat,
                    blocked : BOOLEAN]
        /\ \A p, q \in v6'.session : p = q
    BY <1>1, <1>3, <1>6, <1>7
  <2> QED BY <1>2, <2>1 DEF RP!PartInv, RP!TypeOK, RP!Items
<1>9. RP!CallsInv'
  <2>1. ~v7.cleared /\ ~v7.repeats => v6.calls + RP!StillToSend <= v4.calls
    BY <1>2 DEF RP!PartInv, RP!CallsInv
  <2>2. ~v7.cleared /\ ~v7.repeats => v6'.calls <= v4.calls
    BY <1>3, <1>6, <1>7, <2>1
  <2> QED BY <1>2, <2>2 DEF RP!CallsInv
<1>10. RP!QuotaInv' /\ RP!AskedInv' /\ RP!LetThroughFitsTheQuota'
  BY <1>2, <1>7 DEF RP!QuotaInv, RP!AskedInv, RP!LetThroughFitsTheQuota, RP!PartInv
<1> QED BY <1>8, <1>9, <1>10, RpCovers DEF RP!PartInv

(* A cache that grew asks for less.                                         *)
LEMMA StillLess ==
    ASSUME NEW r \in RP!Requests, NEW c, NEW d, c \subseteq d, NEW session, NEW I
    PROVE  QuotaCall(d, r, session, I) <= QuotaCall(c, r, session, I)
<1>1. UnaskedIn(d, r, I) \subseteq UnaskedIn(c, r, I)
  BY UnaskedFacts
<1>2. CASE QuotaCall(d, r, session, I) = 0
  BY <1>2, StillFacts
<1>3. CASE QuotaCall(d, r, session, I) = 1
  <2>1. r.provider = "futu" /\ session = {} /\ UnaskedIn(c, r, I) # {}
    BY <1>1, <1>3 DEF QuotaCall
  <2> QED BY <1>3, <2>1 DEF QuotaCall
<1> QED BY <1>2, <1>3, StillFacts

(* Fewer symbols fit where more did.                                        *)
LEMMA FitsLess ==
    ASSUME NEW A, NEW B, IsFiniteSet(A), B \subseteq A, NEW known \in RP!Quotas, NEW more \in Nat,
           RP!Fits(A, known, more)
    PROVE  RP!Fits(B, known, more)
<1> DEFINE E == A \ known.reusable
           F == B \ known.reusable
<1>1. IsFiniteSet(E) /\ F \subseteq E
  BY FS_Subset
<1>2. Cardinality(F) <= Cardinality(E) /\ Cardinality(E) \in Nat /\ Cardinality(F) \in Nat
  <2> HIDE DEF E, F
  <2> QED BY <1>1, FS_Subset, FS_CardinalityType
<1>3. (RP!Fits(A, known, more) <=> Cardinality(E) <= known.remaining + more)
      /\ (RP!Fits(B, known, more) <=> Cardinality(F) <= known.remaining + more)
  BY SameSize DEF RP!Fits
<1>4. known.remaining \in Nat
  BY DEF RP!Quotas
<1> QED BY <1>2, <1>3, <1>4

(* What others fetch or clear meanwhile keeps the invariant.                *)
LEMMA RpOthersKeep == ASSUME RP!PartInv, RP!Others PROVE RP!PartInv'
<1>1. UNCHANGED <<v1, v4, v5, v6>> /\ v5 \in {"asked", "run"}
  BY DEF RP!Others
<1>2. /\ v1 \in RP!Requests /\ v2 \subseteq RP!Items(v1) /\ v3 \in RP!Quotas
      /\ v3.remaining <= MaxQuota /\ v3.remaining \in Nat
      /\ v7 \in [steps : Nat, cleared : BOOLEAN, used : Nat, repeats : BOOLEAN]
  BY DEF RP!PartInv, RP!TypeOK, RP!Quotas
<1>3. /\ v2' \subseteq RP!Items(v1) /\ v3' \in RP!Quotas /\ v3'.remaining <= MaxQuota
      /\ v7' \in [steps : Nat, cleared : BOOLEAN, used : Nat, repeats : BOOLEAN]
      /\ \/ v2 \subseteq v2' /\ v3' = v3 /\ v7'.cleared = v7.cleared /\ v7'.used = v7.used
         \/ v2' = v2 /\ v7'.used > 0 /\ v7'.cleared = v7.cleared
         \/ v7'.cleared
      /\ (v7.cleared => v7'.cleared) /\ v7'.used >= v7.used /\ v7'.repeats = v7.repeats
  <2>1. CASE RP!Stores
    BY <1>2, <2>1 DEF RP!Stores
  <2>2. CASE RP!Uses
    <3>1. v2' = v2 /\ v3' = [v3 EXCEPT !.remaining = v3.remaining - 1] /\ v3.remaining > 0
          /\ v7' = [v7 EXCEPT !.steps = v7.steps + 1, !.used = v7.used + 1]
      BY <2>2 DEF RP!Uses
    <3>2. v3' \in RP!Quotas /\ v3'.remaining = v3.remaining - 1
      BY <1>2, <3>1 DEF RP!Quotas
    <3>3. /\ v7' \in [steps : Nat, cleared : BOOLEAN, used : Nat, repeats : BOOLEAN]
          /\ v7'.used = v7.used + 1 /\ v7'.cleared = v7.cleared /\ v7'.repeats = v7.repeats
      <4>1. v7.used \in Nat /\ v7.steps \in Nat
        BY <1>2
      <4>2. v7.used + 1 \in Nat /\ v7.steps + 1 \in Nat
        BY <4>1
      <4> DEFINE used == v7.used + 1
                 steps == v7.steps + 1
      <4> HIDE DEF used, steps
      <4>3. v7' = [v7 EXCEPT !.steps = steps, !.used = used]
        BY <3>1 DEF used, steps
      <4>4. used \in Nat /\ steps \in Nat
        BY <4>2 DEF used, steps
      <4>5. v7' \in [steps : Nat, cleared : BOOLEAN, used : Nat, repeats : BOOLEAN]
        BY <1>2, <4>3, <4>4
      <4>6. v7'.used = used /\ v7'.cleared = v7.cleared /\ v7'.repeats = v7.repeats
        BY <1>2, <4>3
      <4> QED BY <4>5, <4>6 DEF used
    <3>4. v7.used \in Nat
      BY <1>2
    <3>5. v7'.used > 0 /\ v7'.used >= v7.used
      BY <3>3, <3>4
    <3>6. v3'.remaining <= MaxQuota
      BY <1>2, <3>2, ServicesAssumption
    <3>7. v2' \subseteq RP!Items(v1)
      BY <1>2, <3>1
    <3>8. v7'.cleared = v7.cleared /\ v7'.repeats = v7.repeats
      BY <3>3
    <3>9. v3' \in RP!Quotas /\ v7' \in [steps : Nat, cleared : BOOLEAN, used : Nat, repeats : BOOLEAN]
      BY <3>2, <3>3
    <3>10. v2' = v2 /\ v7'.used > 0 /\ v7'.cleared = v7.cleared
      BY <3>1, <3>5, <3>8
    <3>11. (v7.cleared => v7'.cleared) /\ v7'.used >= v7.used
      BY <3>5, <3>8, Zenon
    <3> QED BY <3>6, <3>7, <3>8, <3>9, <3>10, <3>11
  <2>3. CASE RP!Clears
    <3> DEFINE steps == v7.steps + 1
    <3>1. v7.steps \in Nat /\ v7.used \in Nat
      BY <1>2
    <3>2. steps \in Nat
      BY <3>1
    <3> HIDE DEF steps
    <3>3. v7' = [v7 EXCEPT !.steps = steps, !.cleared = TRUE] /\ v2' = {} /\ v3' = v3
      BY <2>3 DEF RP!Clears, steps
    <3>4. v7' \in [steps : Nat, cleared : BOOLEAN, used : Nat, repeats : BOOLEAN] /\ v7'.cleared /\ v7'.used = v7.used
          /\ v7'.repeats = v7.repeats
      BY <1>2, <3>2, <3>3
    <3>5. v7'.used >= v7.used
      BY <3>1, <3>4
    <3> QED BY <1>2, <3>3, <3>4, <3>5
  <2> QED BY <2>1, <2>2, <2>3 DEF RP!Others
<1>4. RP!TypeOK'
  BY <1>1, <1>3 DEF RP!PartInv, RP!TypeOK, RP!Items
<1>5. ASSUME v2 \subseteq v2'
      PROVE  /\ RP!ProviderCalls(v1)' <= RP!ProviderCalls(v1) /\ RP!StillToSend' <= RP!StillToSend
             /\ RP!ProviderCalls(v1) \in Nat /\ RP!StillToSend \in Nat
             /\ RP!ProviderCalls(v1)' \in Nat /\ RP!StillToSend' \in Nat
  <2>1. ASSUME NEW session, NEW I
        PROVE  /\ CallsIn(v2', v1, I) <= CallsIn(v2, v1, I)
               /\ QuotaCall(v2', v1, session, I) <= QuotaCall(v2, v1, session, I)
               /\ CallsIn(v2', v1, I) \in Nat /\ CallsIn(v2, v1, I) \in Nat
               /\ QuotaCall(v2', v1, session, I) \in Nat /\ QuotaCall(v2, v1, session, I) \in Nat
               /\ RP!Annotations(v1) \in Nat
    BY <1>2, <1>5, CallsFacts, StillFacts, StillLess
  <2>2. RP!ProviderCalls(v1)' <= RP!ProviderCalls(v1) /\ RP!ProviderCalls(v1) \in Nat
        /\ RP!ProviderCalls(v1)' \in Nat
    BY <1>1, <2>1, RpForms, RpFormsNext
  <2>3. RP!StillToSend' <= RP!StillToSend /\ RP!StillToSend \in Nat /\ RP!StillToSend' \in Nat
    BY <1>1, <2>1, RpForms, RpFormsNext
  <2> QED BY <2>2, <2>3
<1>6. RP!CallsInv'
  <2> SUFFICES ASSUME ~v7'.cleared, ~v7'.repeats
               PROVE  /\ v5' = "asked" => RP!ProviderCalls(v1)' <= v4'.calls
                      /\ v5' = "run" => v6'.calls + RP!StillToSend' <= v4'.calls
    BY <1>1 DEF RP!CallsInv
  <2>1. v2 \subseteq v2' /\ ~v7.cleared /\ ~v7.repeats
    BY <1>3
  <2>2. v5 = "asked" => RP!ProviderCalls(v1) <= v4.calls
    BY <2>1 DEF RP!PartInv, RP!CallsInv
  <2>3. v5 = "run" => v6.calls + RP!StillToSend <= v4.calls
    BY <2>1 DEF RP!PartInv, RP!CallsInv
  <2>4. v6.calls \in Nat /\ v4.calls \in Nat \cup {-1}
    BY DEF RP!PartInv, RP!TypeOK
  <2> QED BY <1>1, <1>5, <2>1, <2>2, <2>3, <2>4
<1>7. RP!QuotaInv'
  <2> SUFFICES ASSUME ~v7'.cleared, v7'.used = 0, v1.provider = "futu"
               PROVE  /\ v5 = "asked" => RP!Fits(RP!QuotaSymbols(v1)', v3, v4.short)
                      /\ v5 = "run" => \A known \in RP!KnownQuota :
                                          RP!Fits(RP!Unasked(v1, v6.todo)', known, 0)
    <3>1. ~v7'.cleared /\ v7'.used = 0 => v3' = v3
      BY <1>3
    <3> QED BY <1>1, <3>1 DEF RP!QuotaInv, RP!Fits, RP!KnownQuota
  <2>1. v2 \subseteq v2' /\ v3' = v3 /\ ~v7.cleared /\ v7.used = 0
    BY <1>3
  <2>2. /\ RP!QuotaSymbols(v1) = UnaskedIn(v2, v1, v1.intervals)
        /\ RP!QuotaSymbols(v1)' = UnaskedIn(v2', v1, v1.intervals)
        /\ RP!Unasked(v1, v6.todo) = UnaskedIn(v2, v1, v6.todo)
        /\ RP!Unasked(v1, v6.todo)' = UnaskedIn(v2', v1, v6.todo)
    BY <1>1, RpForms, RpFormsNext
  <2>3. \A I : /\ IsFiniteSet(UnaskedIn(v2, v1, I))
               /\ UnaskedIn(v2', v1, I) \subseteq UnaskedIn(v2, v1, I)
    BY <1>2, <2>1, UnaskedFacts
  <2>4. ASSUME v5 = "asked" PROVE RP!Fits(RP!QuotaSymbols(v1)', v3, v4.short)
    <3>1. RP!Fits(RP!QuotaSymbols(v1), v3, v4.short) /\ v4.short \in Nat
      BY <2>1, <2>4 DEF RP!PartInv, RP!QuotaInv, RP!TypeOK
    <3> QED BY <1>2, <2>2, <2>3, <3>1, FitsLess
  <2>5. ASSUME v5 = "run", NEW known \in RP!KnownQuota
        PROVE  RP!Fits(RP!Unasked(v1, v6.todo)', known, 0)
    <3>1. RP!Fits(RP!Unasked(v1, v6.todo), known, 0) /\ known \in RP!Quotas
      BY <1>2, <2>1, <2>5 DEF RP!PartInv, RP!QuotaInv, RP!TypeOK, RP!KnownQuota
    <3> QED BY <2>2, <2>3, <3>1, FitsLess
  <2> QED BY <2>4, <2>5
<1>8. RP!AskedInv'
  BY <1>1 DEF RP!AskedInv, RP!PartInv
<1>9. RP!LetThroughFitsTheQuota'
  <2>1. v7.used \in Nat /\ v7'.used \in Nat
    BY <1>2, <1>3
  <2> QED BY <1>1, <1>3, <2>1 DEF RP!LetThroughFitsTheQuota, RP!PartInv
<1> QED BY <1>4, <1>6, <1>7, <1>8, <1>9, RpCovers DEF RP!PartInv

(* The fetch of an interval: what it may send, and what the worker then     *)
(* knows of the quota.                                                      *)
LEMMA RpFetchSends ==
    ASSUME RP!PartInv, NEW i \in RP!Intervals, RP!Fetch(i)
    PROVE  /\ UNCHANGED <<v1, v4, v5, v7>> /\ v5 = "run" /\ i \in v6.todo
           /\ RP!TypeOK'
           /\ v2 \subseteq v2'
           /\ v6'.todo = v6.todo \ {i}
           /\ ~v7.repeats => v6'.calls + RP!StillToSend' <= v6.calls + RP!StillToSend
<1> DEFINE misses == MissesIn(v2, v1, i)
           asks == v1.provider = "futu" /\ misses # {}
           b == RP!QuotaBlock(misses)
           sent == IF b.blocked THEN {} ELSE misses
           size == Cardinality(sent)
<1>1. RP!Misses(v1, i) = misses
  BY RpForms
<1>2. PICK got \in SUBSET sent, pages \in RP!PagesSent(v1, i) :
         /\ v2' = v2 \cup {<<s, i>> : s \in got}
         /\ v6' = [todo |-> v6.todo \ {i}, session |-> b.session,
                   calls |-> v6.calls + b.asked + pages * RP!Cardinality(sent),
                   blocked |-> v6.blocked \/ b.blocked]
  BY <1>1 DEF RP!Fetch
<1>3. /\ v3' = IF v1.provider # "futu" \/ sent = {} THEN v3
               ELSE [reusable |-> v3.reusable \cup sent,
                     remaining |-> RP!Max({0, v3.remaining - RP!Cardinality(sent \ v3.reusable)})]
      /\ UNCHANGED <<v1, v4, v5, v7>> /\ v5 = "run" /\ i \in v6.todo
  BY <1>1 DEF RP!Fetch
<1>4. /\ v1 \in RP!Requests /\ v2 \subseteq RP!Items(v1) /\ v3 \in RP!Quotas
      /\ v3.remaining <= MaxQuota /\ v3.remaining \in Nat
      /\ v6.todo \subseteq v1.intervals /\ v6.session \subseteq RP!Quotas /\ v6.calls \in Nat
      /\ v6.blocked \in BOOLEAN /\ \A p, q \in v6.session : p = q
  BY DEF RP!PartInv, RP!TypeOK, RP!Quotas
<1>5. misses \subseteq v1.symbols /\ IsFiniteSet(misses) /\ Cardinality(misses) \in Nat
  BY <1>4, MissesFacts
<1>6. v1.symbols \subseteq Members \cup {RP!Bench}
  BY <1>4, RequestFacts
<1>7. /\ b.asked = (IF asks /\ v6.session = {} THEN 1 ELSE 0)
      /\ b.blocked \in BOOLEAN
      /\ ~asks => ~b.blocked /\ b.session = v6.session
      /\ b.session \subseteq RP!Quotas /\ (\A p, q \in b.session : p = q)
      /\ asks => b.session # {}
  <2> HIDE DEF misses, b
  <2>1. /\ b.asked = (IF asks /\ v6.session = {} THEN 1 ELSE 0)
        /\ b.blocked \in BOOLEAN
        /\ ~asks => ~b.blocked /\ b.session = v6.session
    BY <1>5, BlockFacts DEF RP!PartInv, b
  <2>2. ASSUME asks
        PROVE  /\ b.session \subseteq RP!Quotas /\ (\A p, q \in b.session : p = q)
               /\ b.session # {}
    <3>1. PICK known \in RP!KnownQuota :
             LET new == misses \ known.reusable
             IN  /\ known \in RP!Quotas /\ Cardinality(new) \in Nat
                 /\ b.blocked <=> Cardinality(new) > known.remaining
                 /\ b.blocked => b.session = {known}
                 /\ ~b.blocked =>
                       b.session = {[reusable |-> known.reusable \cup new,
                                     remaining |-> known.remaining - Cardinality(new)]}
      BY <1>5, <2>2, BlockFacts DEF RP!PartInv, b
    <3> DEFINE new == misses \ known.reusable
               left == known.remaining - Cardinality(new)
               reusable == known.reusable \cup new
    <3>2. CASE b.blocked
      BY <3>1, <3>2
    <3>3. CASE ~b.blocked
      <4>1. left \in Nat /\ reusable \in SUBSET (Members \cup {RP!Bench})
        BY <1>5, <1>6, <3>1, <3>3 DEF RP!Quotas
      <4>2. b.session = {[reusable |-> reusable, remaining |-> left]}
        BY <3>1, <3>3
      <4> HIDE DEF left, reusable
      <4> QED BY <4>1, <4>2 DEF RP!Quotas
    <3> QED BY <2>1, <3>2, <3>3
  <2>3. ~asks => /\ b.session \subseteq RP!Quotas /\ (\A p, q \in b.session : p = q)
    BY <1>4, <2>1
  <2> QED BY <2>1, <2>2, <2>3
<1>8. sent \subseteq misses /\ IsFiniteSet(sent) /\ size \in Nat /\ size <= Cardinality(misses)
  <2>1. sent \subseteq misses
    OBVIOUS
  <2> HIDE DEF sent, misses
  <2> QED BY <1>5, <2>1, FS_Subset, FS_CardinalityType
<1>9. pages \in Nat /\ (~v7.repeats => pages <= RP!Pages(v1, i)) /\ RP!Pages(v1, i) \in Nat
  BY <1>4, PagesFacts
<1>10. /\ pages * size \in Nat
       /\ ~v7.repeats => pages * size <= RP!Pages(v1, i) * Cardinality(misses)
  <2> HIDE DEF size, misses
  <2> QED BY <1>5, <1>8, <1>9, Products
<1>11. v6'.calls = v6.calls + b.asked + pages * size
       /\ v6'.todo = v6.todo \ {i} /\ v6'.session = b.session
       /\ v6'.blocked \in BOOLEAN
  BY <1>2, <1>4, SameSize
<1>12. v2 \subseteq v2' /\ v2' \subseteq RP!Items(v1)
  <2>1. \A s \in misses : <<s, i>> \in RP!Items(v1)
    BY <1>3, <1>4, <1>5 DEF RP!Items
  <2> HIDE DEF misses, b
  <2> QED BY <1>2, <1>4, <1>8, <2>1
<1> HIDE DEF misses, b, sent, size
<1>13. RP!TypeOK'
  <2>1. v3' \in RP!Quotas /\ v3'.remaining <= MaxQuota
    <3>1. CASE v3' = v3
      BY <1>4, <3>1
    <3>2. CASE v3' # v3
      <4> DEFINE used == Cardinality(sent \ v3.reusable)
                 gap == v3.remaining - used
                 reusable == v3.reusable \cup sent
                 left == IF gap > 0 THEN gap ELSE 0
      <4>1. used \in Nat
        BY <1>8, FS_Subset, FS_CardinalityType
      <4>2. gap \in Int
        BY <1>4, <4>1
      <4>3. RP!Max({0, gap}) = left
        BY <4>2, MaxZero
      <4>4. v3' = [reusable |-> reusable, remaining |-> left]
        BY <1>3, <3>2, <4>3, SameSize
      <4>5. left \in Nat /\ left <= v3.remaining
        BY <1>4, <4>1
      <4>6. reusable \in SUBSET (Members \cup {RP!Bench})
        BY <1>4, <1>5, <1>6, <1>8 DEF RP!Quotas
      <4> HIDE DEF left, reusable
      <4>7. v3' \in RP!Quotas /\ v3'.remaining = left
        BY <4>4, <4>5, <4>6 DEF RP!Quotas
      <4> QED BY <1>4, <4>5, <4>7, ServicesAssumption
    <3> QED BY <3>1, <3>2
  <2>2. v6' \in [todo : SUBSET v1.intervals, session : SUBSET RP!Quotas, calls : Nat,
                 blocked : BOOLEAN]
    <3> DEFINE calls == v6.calls + b.asked + pages * size
               todo == v6.todo \ {i}
               blocked == v6.blocked \/ b.blocked
    <3>1. b.asked \in Nat
      BY <1>7
    <3>2. calls \in Nat
      BY <1>4, <1>10, <3>1
    <3>3. todo \in SUBSET v1.intervals
      BY <1>4
    <3>4. v6' = [todo |-> todo, session |-> b.session, calls |-> calls, blocked |-> blocked]
      BY <1>2, SameSize DEF size
    <3>5. blocked \in BOOLEAN
      OBVIOUS
    <3> HIDE DEF calls, todo, blocked
    <3> QED BY <1>7, <3>2, <3>3, <3>4, <3>5
  <2>3. \A p, q \in v6'.session : p = q
    BY <1>7, <1>11
  <2> QED BY <1>3, <1>12, <2>1, <2>2, <2>3 DEF RP!PartInv, RP!TypeOK, RP!Items
<1>14. ASSUME ~v7.repeats PROVE v6'.calls + RP!StillToSend' <= v6.calls + RP!StillToSend
  <2> DEFINE todo == v6.todo \ {i}
             N == RP!Pages(v1, i) * Cardinality(misses)
             n == pages * size
             before == CallsIn(v2, v1, v6.todo)
             between == CallsIn(v2, v1, todo)
             after == CallsIn(v2', v1, todo)
             ask == QuotaCall(v2, v1, v6.session, v6.todo)
             askAfter == QuotaCall(v2', v1, b.session, todo)
  <2>1. between \in Nat /\ before = between + N
    BY <1>3, <1>4, CallsWithout DEF misses
  <2>2. after \in Nat /\ after <= between
    BY <1>4, <1>12, CallsFacts
  <2>3. ask \in {0, 1} /\ askAfter \in {0, 1} /\ b.asked \in {0, 1}
    BY <1>4, <1>7, StillFacts
  <2>4. b.asked + askAfter <= ask
    <3>1. CASE askAfter = 1
      <4>1. v1.provider = "futu" /\ b.session = {} /\ UnaskedIn(v2', v1, todo) # {}
        BY <3>1 DEF QuotaCall
      <4>2. ~asks /\ b.asked = 0 /\ v6.session = {}
        BY <1>7, <4>1
      <4>3. UnaskedIn(v2', v1, todo) \subseteq UnaskedIn(v2, v1, v6.todo)
        BY <1>4, <1>12, UnaskedFacts
      <4>4. ask = 1
        BY <4>1, <4>2, <4>3 DEF QuotaCall
      <4> QED BY <3>1, <4>2, <4>4
    <3>2. CASE b.asked = 1 /\ askAfter = 0
      <4>1. v1.provider = "futu" /\ misses # {} /\ v6.session = {}
        BY <1>7, <3>2
      <4>2. misses \subseteq UnaskedIn(v2, v1, v6.todo)
        BY <1>3 DEF misses, UnaskedIn
      <4>3. ask = 1
        BY <4>1, <4>2 DEF QuotaCall
      <4> QED BY <3>2, <4>3
    <3> QED BY <2>3, <3>1, <3>2
  <2>5. RP!StillToSend = before + RP!Annotations(v1) + ask
    BY RpForms
  <2>6. RP!StillToSend' = after + RP!Annotations(v1) + askAfter
    BY <1>3, <1>11, RpFormsNext
  <2>7. RP!Annotations(v1) \in Nat /\ n \in Nat /\ n <= N /\ N \in Nat
    BY <1>4, <1>5, <1>9, <1>10, <1>14, Products DEF RP!Annotations
  <2>8. v6'.calls = v6.calls + b.asked + n
    BY <1>11
  <2> HIDE DEF N, n, before, between, after, ask, askAfter, todo
  <2> QED BY <1>4, <2>1, <2>2, <2>3, <2>4, <2>5, <2>6, <2>7, <2>8
<1> QED BY <1>3, <1>11, <1>12, <1>13, <1>14

(* After a fetch the symbols that are left fit the quota still.             *)
LEMMA RpFetchFits ==
    ASSUME RP!PartInv, NEW i \in RP!Intervals, RP!Fetch(i),
           ~v7.cleared, v7.used = 0, v1.provider = "futu"
    PROVE  /\ ~RP!QuotaBlock(MissesIn(v2, v1, i)).blocked
           /\ \A known \in RP!KnownQuota' : RP!Fits(UnaskedIn(v2', v1, v6.todo \ {i}), known, 0)
<1> DEFINE misses == MissesIn(v2, v1, i)
           b == RP!QuotaBlock(misses)
           U == UnaskedIn(v2, v1, v6.todo)
           V == UnaskedIn(v2', v1, v6.todo \ {i})
<1>1. RP!Misses(v1, i) = misses
  BY RpForms
<1>2. v5 = "run" /\ i \in v6.todo /\ v6'.session = b.session
      /\ (misses = {} => v3' = v3)
  BY <1>1 DEF RP!Fetch
<1>3. v1 \in RP!Requests /\ v6.session \subseteq RP!Quotas /\ v3 \in RP!Quotas
  BY DEF RP!PartInv, RP!TypeOK
<1>4. v2 \subseteq v2'
  BY RpFetchSends
<1>5. IsFiniteSet(U) /\ V \subseteq U /\ misses \subseteq U
  BY <1>2, <1>3, <1>4, UnaskedFacts DEF UnaskedIn
<1>6. misses \subseteq v1.symbols
  BY DEF MissesIn
<1>7. \A known \in RP!KnownQuota : known \in RP!Quotas /\ RP!Fits(U, known, 0)
  <2>1. RP!Unasked(v1, v6.todo) = U
    BY RpForms
  <2>2. \A known \in RP!KnownQuota : RP!Fits(RP!Unasked(v1, v6.todo), known, 0)
    BY <1>2 DEF RP!PartInv, RP!QuotaInv
  <2> QED BY <1>3, <2>1, <2>2 DEF RP!KnownQuota
<1> HIDE DEF U, V, b
<1>8. CASE misses = {}
  <2>1. ~b.blocked /\ b.session = v6.session
    BY <1>6, <1>8, BlockFacts DEF b, RP!PartInv
  <2>2. RP!KnownQuota' = RP!KnownQuota
    BY <1>2, <1>8, <2>1 DEF RP!KnownQuota
  <2>3. ASSUME NEW known \in RP!KnownQuota PROVE RP!Fits(V, known, 0)
    BY <1>5, <1>7, FitsLess
  <2> QED BY <2>1, <2>2, <2>3 DEF b, V
<1>9. CASE misses # {}
  <2> HIDE DEF misses
  <2>1. PICK known \in RP!KnownQuota :
           LET new == misses \ known.reusable
           IN  /\ known \in RP!Quotas /\ Cardinality(new) \in Nat
               /\ b.blocked <=> Cardinality(new) > known.remaining
               /\ b.blocked => b.session = {known}
               /\ ~b.blocked =>
                     b.session = {[reusable |-> known.reusable \cup new,
                                   remaining |-> known.remaining - Cardinality(new)]}
    BY <1>6, <1>9, BlockFacts DEF b, RP!PartInv
  <2> DEFINE new == misses \ known.reusable
             rest0 == U \ known.reusable
             more == V \ (known.reusable \cup new)
             left == known.remaining - Cardinality(new)
             q == [reusable |-> known.reusable \cup new, remaining |-> left]
  <2>2. new \subseteq rest0 /\ more \subseteq rest0 \ new
    BY <1>5
  <2>3. IsFiniteSet(rest0)
    BY <1>5, FS_Subset
  <2>4. Cardinality(rest0) <= known.remaining
    <3>1. RP!Fits(U, known, 0) /\ known.remaining \in Nat
      BY <1>7 DEF RP!Quotas
    <3>2. RP!Fits(U, known, 0) <=> Cardinality(rest0) <= known.remaining + 0
      BY SameSize DEF RP!Fits
    <3> HIDE DEF rest0
    <3> QED BY <3>1, <3>2
  <2>5. known.remaining \in Nat /\ Cardinality(new) \in Nat
    BY <2>1 DEF RP!Quotas
  <2>6. b.blocked <=> Cardinality(new) > known.remaining
    BY <2>1
  <2>7. ~b.blocked => b.session = {q}
    BY <2>1
  <2>8. q.reusable = known.reusable \cup new /\ q.remaining = left
    OBVIOUS
  <2>9. RP!Fits(V, q, 0) <=> Cardinality(V \ q.reusable) <= q.remaining + 0
    BY SameSize DEF RP!Fits
  <2>10. V \ q.reusable = more
    BY <2>8
  <2> HIDE DEF new, rest0, more, q
  <2>11. /\ Cardinality(rest0) \in Nat /\ Cardinality(new) <= Cardinality(rest0)
         /\ IsFiniteSet(new) /\ Cardinality(rest0 \ new) = Cardinality(rest0) - Cardinality(new)
    <3>1. IsFiniteSet(new) /\ Cardinality(new) <= Cardinality(rest0)
      BY <2>2, <2>3, FS_Subset
    <3>2. rest0 \cap new = new
      BY <2>2
    <3>3. Cardinality(rest0 \ new) = Cardinality(rest0) - Cardinality(rest0 \cap new)
      BY <2>3, FS_Difference
    <3> QED BY <2>3, <3>1, <3>2, <3>3, FS_CardinalityType
  <2>12. Cardinality(more) <= Cardinality(rest0 \ new) /\ Cardinality(more) \in Nat
    <3>1. IsFiniteSet(rest0 \ new)
      BY <2>3, FS_Difference
    <3> QED BY <2>2, <3>1, FS_Subset, FS_CardinalityType
  <2>13. ~b.blocked
    BY <2>4, <2>5, <2>6, <2>11
  <2>14. Cardinality(more) <= left + 0
    BY <2>4, <2>5, <2>11, <2>12
  <2>15. RP!Fits(V, q, 0)
    BY <2>8, <2>9, <2>10, <2>14
  <2>16. RP!KnownQuota' = {q}
    BY <1>2, <2>7, <2>13 DEF RP!KnownQuota
  <2> QED BY <2>13, <2>15, <2>16 DEF b, V, misses
<1> QED BY <1>8, <1>9

(* A fetch keeps the invariant.                                             *)
LEMMA RpFetchKeeps ==
    ASSUME RP!PartInv, NEW i \in RP!Intervals, RP!Fetch(i) PROVE RP!PartInv'
<1>1. /\ UNCHANGED <<v1, v4, v5, v7>> /\ v5 = "run" /\ RP!TypeOK'
      /\ v6'.todo = v6.todo \ {i}
      /\ ~v7.repeats => v6'.calls + RP!StillToSend' <= v6.calls + RP!StillToSend
  BY RpFetchSends
<1>2. RP!CallsInv'
  <2> SUFFICES ASSUME ~v7.cleared, ~v7.repeats PROVE v6'.calls + RP!StillToSend' <= v4.calls
    BY <1>1 DEF RP!CallsInv
  <2>1. v6.calls + RP!StillToSend <= v4.calls
    BY <1>1 DEF RP!PartInv, RP!CallsInv
  <2>2. v1 \in RP!Requests /\ v6.calls \in Nat /\ v4.calls \in Nat \cup {-1}
        /\ v6'.calls \in Nat
    BY <1>1 DEF RP!PartInv, RP!TypeOK
  <2>3. RP!StillToSend \in Nat /\ RP!StillToSend' \in Nat
    BY <1>1, <2>2, RpForms, RpFormsNext, StillFacts
  <2> QED BY <1>1, <2>1, <2>2, <2>3
<1>3. RP!QuotaInv'
  <2> SUFFICES ASSUME ~v7.cleared, v7.used = 0, v1.provider = "futu"
               PROVE  \A known \in RP!KnownQuota' : RP!Fits(RP!Unasked(v1, v6.todo)', known, 0)
    BY <1>1 DEF RP!QuotaInv, RP!Fits
  <2>1. RP!Unasked(v1, v6.todo)' = UnaskedIn(v2', v1, v6.todo \ {i})
    BY <1>1, RpFormsNext
  <2> QED BY <2>1, RpFetchFits
<1>4. RP!AskedInv'
  BY <1>1 DEF RP!AskedInv
<1>5. RP!LetThroughFitsTheQuota'
  <2> SUFFICES ASSUME ~v7.cleared, ~(v7.used > 0) PROVE ~v6'.blocked
    BY <1>1 DEF RP!LetThroughFitsTheQuota
  <2>1. RP!Misses(v1, i) = MissesIn(v2, v1, i)
    BY RpForms
  <2>2. ~v6.blocked
    BY DEF RP!PartInv, RP!LetThroughFitsTheQuota
  <2>3. v7.used = 0
    BY DEF RP!PartInv, RP!TypeOK
  <2>4. ~RP!QuotaBlock(MissesIn(v2, v1, i)).blocked
    <3>1. CASE v1.provider = "futu"
      BY <2>3, <3>1, RpFetchFits
    <3>2. CASE v1.provider # "futu"
      <4>1. MissesIn(v2, v1, i) \subseteq v1.symbols
        BY DEF MissesIn
      <4> QED BY <3>2, <4>1, BlockFacts DEF RP!PartInv
    <3> QED BY <3>1, <3>2
  <2>5. v6'.blocked = (v6.blocked \/ RP!QuotaBlock(MissesIn(v2, v1, i)).blocked)
    BY <2>1 DEF RP!Fetch
  <2> QED BY <2>2, <2>4, <2>5
<1> QED BY <1>1, <1>2, <1>3, <1>4, <1>5, RpCovers DEF RP!PartInv

(* Every step of the preflight keeps its invariant.                         *)
LEMMA RpKeeps == ASSUME RP!PartInv, RP!Next PROVE RP!PartInv'
<1>1. CASE RP!Estimate
  BY <1>1, RpEstimateKeeps
<1>2. CASE RP!Confirm \/ RP!UseYahoo \/ RP!Dismiss
  BY <1>2, RpAnswerKeeps
<1>3. CASE \E i \in RP!Intervals : RP!Fetch(i)
  BY <1>3, RpFetchKeeps
<1>4. CASE RP!Finish
  BY <1>4, RpFinishKeeps
<1>5. CASE RP!Others
  BY <1>5, RpOthersKeep
<1> QED BY <1>1, <1>2, <1>3, <1>4, <1>5 DEF RP!Next

-----------------------------------------------------------------------------
(* The services together.  A step of another part, or none, leaves the      *)
(* variables of a part and with them its invariant.                         *)
LEMMA SettingsStutter == SS!PartInv /\ UNCHANGED <<v1, v2, v3, v4, v5, v6>> => SS!PartInv'
BY DEF SS!PartInv, SS!TypeOK, SS!StepsInv, SS!AdaptersInv, SS!RowInv, SS!UsedIsOpen,
       SS!ActiveIsChecked, SS!At, SS!Writes, SS!Lagging

LEMMA CallStutter == FC!PartInv /\ UNCHANGED <<v1, v2, v3, v4, v5, v6, v7>> => FC!PartInv'
BY DEF FC!PartInv, FC!TypeOK, FC!CallIsHonest, FC!HandlerInv, FC!ResultInv, FC!Step

LEMMA PreflightStutter == RP!PartInv /\ UNCHANGED <<v1, v2, v3, v4, v5, v6, v7>> => RP!PartInv'
<1> SUFFICES ASSUME RP!PartInv, UNCHANGED <<v1, v2, v3, v4, v5, v6, v7>> PROVE RP!PartInv'
  OBVIOUS
<1>1. /\ RP!ProviderCalls(v1)' = RP!ProviderCalls(v1) /\ RP!QuotaSymbols(v1)' = RP!QuotaSymbols(v1)
      /\ RP!Unasked(v1, v6.todo)' = RP!Unasked(v1, v6.todo)
      /\ RP!StillToSend' = RP!StillToSend
  BY RpForms, RpFormsNext
<1>2. RP!KnownQuota' = RP!KnownQuota
  BY DEF RP!KnownQuota
<1>3. RP!TypeOK' /\ RP!AskedInv' /\ RP!EstimateCoversTheRun' /\ RP!LetThroughFitsTheQuota'
  BY DEF RP!PartInv, RP!TypeOK, RP!AskedInv, RP!EstimateCoversTheRun, RP!LetThroughFitsTheQuota
<1>4. RP!CallsInv'
  BY <1>1 DEF RP!PartInv, RP!CallsInv
<1>5. RP!QuotaInv'
  BY <1>1, <1>2 DEF RP!PartInv, RP!QuotaInv
<1> QED
  BY <1>3, <1>4, <1>5 DEF RP!PartInv

LEMMA AiStutter == AI!PartInv /\ UNCHANGED <<v1, v2, v3, v4>> => AI!PartInv'
BY DEF AI!PartInv, AI!TypeOK, AI!KeyGoesToItsEndpoint, AI!CancelStopsRequests,
       AI!RetriesAreBounded, AI!ConfigInv, AI!KeyInv, AI!SentInv, AI!At, AI!Registered

LEMMA LogStutter == DL!PartInv /\ UNCHANGED <<v1, v2, v3, v4, v5, v6>> => DL!PartInv'
BY DEF DL!PartInv, DL!TypeOK, DL!DoneMeansDone, DL!QueueInv, DL!HandInv, DL!Item, DL!At,
       DL!Done, DL!InQueue, DL!Numbered

LEMMA UpdateStutter == UC!PartInv /\ UNCHANGED <<v1, v2, v3, v4, v5, v6>> => UC!PartInv'
BY DEF UC!PartInv, UC!TypeOK, UC!AppIsNeverLost, UC!ScriptInv, UC!OneScript, UC!Usable, UC!Running

ServicesInv ==
    /\ IInv /\ UnitCounts
    /\ part = "settings" => SS!PartInv
    /\ part = "call" => FC!PartInv
    /\ part = "preflight" => RP!PartInv
    /\ part = "ai" => AI!PartInv
    /\ part = "log" => DL!PartInv
    /\ part = "update" => UC!PartInv

LEMMA ServicesStart == ServicesInit => ServicesInv
<1> SUFFICES ASSUME ServicesInit PROVE ServicesInv
  OBVIOUS
<1>1. IInv /\ UnitCounts
  BY InitHolds, UnitCountsInit DEF ServicesInit
<1>2. CASE part = "settings"
  BY <1>1, <1>2, SsInit DEF ServicesInit, ServicesInv
<1>3. CASE part = "call"
  BY <1>1, <1>3, CallInit DEF ServicesInit, ServicesInv
<1>4. CASE part = "preflight"
  BY <1>1, <1>4, RpInit DEF ServicesInit, ServicesInv
<1>5. CASE part = "ai"
  BY <1>1, <1>5, AiInit DEF ServicesInit, ServicesInv
<1>6. CASE part = "log"
  BY <1>1, <1>6, LogInit DEF ServicesInit, ServicesInv
<1>7. CASE part = "update"
  BY <1>1, <1>7, UpdateInit DEF ServicesInit, ServicesInv
<1>8. CASE part = "database"
  BY <1>1, <1>8 DEF ServicesInv
<1> QED
  BY <1>2, <1>3, <1>4, <1>5, <1>6, <1>7, <1>8 DEF ServicesInit

LEMMA ServicesStep == ServicesInv /\ [ServicesNext]_allVars => ServicesInv'
<1> SUFFICES ASSUME ServicesInv, [ServicesNext]_allVars PROVE ServicesInv'
  OBVIOUS
<1>0. part' = part
  BY DEF ServicesNext, allVars
<1>1. IInv' /\ UnitCounts'
  <2>1. [Next]_vars
    BY DEF ServicesNext, allVars
  <2> QED
    BY <2>1, StepKeeps, UnitCountsStep DEF ServicesInv
<1>2. CASE part = "settings"
  <2>1. SS!Next \/ UNCHANGED <<v1, v2, v3, v4, v5, v6>>
    BY <1>2 DEF ServicesNext, allVars, rest
  <2>2. SS!PartInv'
    BY <1>2, <2>1, SsKeeps, SettingsStutter DEF ServicesInv
  <2> QED
    BY <1>0, <1>1, <1>2, <2>2 DEF ServicesInv
<1>3. CASE part = "call"
  <2>1. FC!Next \/ UNCHANGED <<v1, v2, v3, v4, v5, v6, v7>>
    BY <1>3 DEF ServicesNext, allVars, rest
  <2>2. FC!PartInv'
    BY <1>3, <2>1, CallKeeps, CallStutter DEF ServicesInv
  <2> QED
    BY <1>0, <1>1, <1>3, <2>2 DEF ServicesInv
<1>4. CASE part = "preflight"
  <2>1. RP!Next \/ UNCHANGED <<v1, v2, v3, v4, v5, v6, v7>>
    BY <1>4 DEF ServicesNext, allVars, rest
  <2>2. RP!PartInv'
    BY <1>4, <2>1, RpKeeps, PreflightStutter DEF ServicesInv
  <2> QED
    BY <1>0, <1>1, <1>4, <2>2 DEF ServicesInv
<1>5. CASE part = "ai"
  <2>1. AI!Next \/ UNCHANGED <<v1, v2, v3, v4>>
    BY <1>5 DEF ServicesNext, allVars, rest
  <2>2. AI!PartInv'
    BY <1>5, <2>1, AiKeeps, AiStutter DEF ServicesInv
  <2> QED
    BY <1>0, <1>1, <1>5, <2>2 DEF ServicesInv
<1>6. CASE part = "log"
  <2>1. DL!Next \/ UNCHANGED <<v1, v2, v3, v4, v5, v6>>
    BY <1>6 DEF ServicesNext, allVars, rest
  <2>2. DL!PartInv'
    BY <1>6, <2>1, LogKeeps, LogStutter DEF ServicesInv
  <2> QED
    BY <1>0, <1>1, <1>6, <2>2 DEF ServicesInv
<1>7. CASE part = "update"
  <2>1. UC!Next \/ UNCHANGED <<v1, v2, v3, v4, v5, v6>>
    BY <1>7 DEF ServicesNext, allVars, rest
  <2>2. UC!PartInv'
    BY <1>7, <2>1, UpdateKeeps, UpdateStutter DEF ServicesInv
  <2> QED
    BY <1>0, <1>1, <1>7, <2>2 DEF ServicesInv
<1>8. CASE part \notin {"settings", "call", "preflight", "ai", "log", "update"}
  BY <1>0, <1>1, <1>8 DEF ServicesInv
<1> QED
  BY <1>2, <1>3, <1>4, <1>5, <1>6, <1>7, <1>8

LEMMA ServicesAlways == ServicesSpec => []ServicesInv
<1>1. ServicesInit => ServicesInv
  BY ServicesStart
<1>2. ServicesInv /\ [ServicesNext]_allVars => ServicesInv'
  BY ServicesStep
<1> QED
  BY <1>1, <1>2, PTL DEF ServicesSpec

(* Type correctness of the database and of the six services.                *)
THEOREM ServicesTypeCorrect == ServicesSpec => []ServicesTypeOK
<1>1. ServicesInv => ServicesTypeOK
  BY DatabaseTyped
     DEF ServicesInv, ServicesTypeOK, SS!PartInv, FC!PartInv, RP!PartInv, AI!PartInv, DL!PartInv,
         UC!PartInv
<1> QED
  BY <1>1, ServicesAlways, PTL

(* The file and every process that serves are right together, whatever      *)
(* crashes or starts at the same time (migrations.py, uow.py).              *)
THEOREM TheFileStaysWhole == ServicesSpec => []DatabaseIsWhole
<1>1. ServicesInv => DatabaseIsWhole
  BY DatabaseHeld DEF ServicesInv
<1> QED
  BY <1>1, ServicesAlways, PTL

(* The adapter in use is open, however saves, checks and resets reload and  *)
(* whichever builder raises; the provider the settings name was checked     *)
(* unless local data were reset while a task ran; and what a call of the    *)
(* facade tells is what the registry and the database have (composition.py).*)
THEOREM SettingsAlwaysHoldTogether == ServicesSpec => []SettingsHoldTogether
<1>1. ServicesInv => SettingsHoldTogether
  BY DEF ServicesInv, SettingsHoldTogether, SS!PartInv, FC!PartInv
<1> QED
  BY <1>1, ServicesAlways, PTL

(* An AI request of an import or a report takes the key of its endpoint, is *)
(* repeated a bounded number of times and stops at a cancellation           *)
(* (request_retry.py, openai_compatible.py).  An analysis sends no more     *)
(* requests than its preflight told if the cache is not cleared and the     *)
(* server repeats no bar, and one let through fits the quota unless others  *)
(* used it or the cache was cleared (request_plan.py, resource_budget.py).  *)
THEOREM RequestsStayBounded == ServicesSpec => []RequestsAreBounded
<1>1. ServicesInv => RequestsAreBounded
  BY DEF ServicesInv, RequestsAreBounded, AI!PartInv, RP!PartInv
<1> QED
  BY <1>1, ServicesAlways, PTL

(* A flush reported done left nothing earlier in the queue (jsonl.py), and  *)
(* an update that fails or is cut short leaves a whole application, as long *)
(* as none was staged before the script of another was over (installer.py). *)
THEOREM NothingIsEverLost == ServicesSpec => []NothingIsLost
<1>1. ServicesInv => NothingIsLost
  BY DEF ServicesInv, NothingIsLost, DL!PartInv, UC!PartInv
<1> QED
  BY <1>1, ServicesAlways, PTL
=============================================================================
