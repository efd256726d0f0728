--------------------------- MODULE RunHistoryProofs ---------------------------
(* Proofs about RunHistory, for any runs, reports, imports and bounds.      *)
EXTENDS RunHistory, FiniteSetTheorems, TLAPS

(* The rows a save evicts are among those that are not pinned, so a pinned  *)
(* row stays listed.                                                        *)
LEMMA EvictedUnpinned ==
    ASSUME NEW r, NEW rows
    PROVE  Evicted(r, rows) \cap pinned = {}
BY DEF Evicted, Excess

LEMMA CommitRowType ==
    ASSUME TypeOK, NEW r \in Runs, CommitRow(r)
    PROVE  /\ listed' \subseteq Rows /\ pinned' \subseteq listed'
           /\ attached' = attached
           /\ saved' \subseteq Runs /\ removed' \subseteq Rows
BY EvictedUnpinned DEF TypeOK, CommitRow, Rows

(* Every action is type correct.                                           *)
THEOREM TypeCorrect == Spec => []TypeOK
<1>1. Init => TypeOK
  BY HistoryAssumption DEF Init, TypeOK
<1>2. TypeOK /\ [Next]_vars => TypeOK'
  <2> SUFFICES ASSUME TypeOK, [Next]_vars PROVE TypeOK'
    OBVIOUS
  <2>1. ASSUME NEW o \in Ops, OpStep(o) PROVE TypeOK'
    <3>1. CASE StartRun(o)
      BY <3>1 DEF TypeOK, StartRun, Begin, rowVars
    <3>2. CASE StartReport(o)
      BY <3>2 DEF TypeOK, StartReport, Begin, rowVars, Rows
    <3>3. CASE Cancel(o)
      BY <3>3 DEF TypeOK, Cancel, rowVars, Outcomes
    <3>4. CASE Fails(o)
      BY <3>4 DEF TypeOK, Fails, Propose, rowVars, Outcomes
    <3>5. CASE Poll(o)
      BY <3>5 DEF TypeOK, Poll, Propose, rowVars, Outcomes
    <3>6. CASE Freeze(o)
      BY <3>6 DEF TypeOK, Freeze, rowVars, Rows
    <3>7. CASE SaveRs(o)
      <4>1. o \in Runs
        BY <3>7, HistoryAssumption DEF SaveRs, Stores
      <4>2. QED
        BY <3>7, <4>1, CommitRowType DEF TypeOK, SaveRs, Stores
    <3>8. CASE SaveRsFails(o)
      BY <3>8 DEF TypeOK, SaveRsFails, rowVars
    <3>9. CASE ExplainUnsaved(o)
      BY <3>9 DEF TypeOK, ExplainUnsaved, Propose, rowVars, Outcomes
    <3>10. CASE EnterCommit(o)
      BY <3>10 DEF TypeOK, EnterCommit, rowVars
    <3>11. CASE GateRefuses(o)
      BY <3>11 DEF TypeOK, GateRefuses, Propose, rowVars, Outcomes
    <3>12. CASE SavePayload(o)
      BY <3>12, CommitRowType DEF TypeOK, SavePayload, Propose, Outcomes
    <3>13. CASE AttachReport(o)
      <4>1. read[o] \cup {o} \in SUBSET Reports
        BY <3>13 DEF TypeOK, AttachReport, AttachTo
      <4>2. QED
        BY <3>13, <4>1 DEF TypeOK, AttachReport, AttachTo, Propose, Outcomes, Rows
    <3>14. CASE CommitFails(o)
      BY <3>14 DEF TypeOK, CommitFails, Propose, rowVars, Outcomes
    <3>17. CASE ReportSaved(o) \/ ReportSavedRaises(o)
      BY <3>17 DEF TypeOK, ReportSaved, ReportSavedRaises, Propose, rowVars, Outcomes
    <3>18. CASE ReadReports(o)
      <4>1. attached[subject[o]] \in SUBSET Reports
        BY <3>18 DEF TypeOK, ReadReports, ReadRow, Rows
      <4>2. QED
        BY <3>18, <4>1 DEF TypeOK, ReadReports, ReadRow, rowVars
    <3>15. CASE Complete(o)
      <4>1. phase' \in [Ops -> {"none", "pending", "committing"} \cup Outcomes]
        BY <3>15 DEF TypeOK, Complete, Outcomes
      <4>2. phase'[o] \in {"none"} \cup Outcomes
        BY <3>15 DEF TypeOK, Complete, Outcomes
      <4>3. QED
        BY <3>15, <4>1, <4>2 DEF TypeOK, Complete, rowVars
    <3>16. QED
      BY <2>1, <3>1, <3>2, <3>3, <3>4, <3>5, <3>6, <3>7, <3>8, <3>9, <3>10,
         <3>11, <3>12, <3>13, <3>14, <3>15, <3>17, <3>18 DEF OpStep
  <2>2. CASE UserStep
    <3>1. ASSUME NEW r \in Rows, NEW value \in BOOLEAN, SetPinned(r, value) PROVE TypeOK'
      BY <3>1 DEF TypeOK, SetPinned, opVars
    <3>2. ASSUME NEW rows \in SUBSET Rows, Remove(rows) PROVE TypeOK'
      BY <3>2 DEF TypeOK, Remove, opVars
    <3>3. ASSUME NEW r \in Rows, Import(r) PROVE TypeOK'
      BY <3>3 DEF TypeOK, Import, opVars, Rows
    <3>4. (listed \cap (RsRuns \cup Imports)) \ pinned \subseteq Rows
      BY DEF TypeOK, Rows
    <3>5. QED
      BY <2>2, <3>1, <3>2, <3>3, <3>4 DEF UserStep, Delete, ClearUnpinned
  <2>3. ASSUME NEW time \in 0..MaxTime, SetClock(time) PROVE TypeOK'
    BY <2>3 DEF TypeOK, SetClock, opVars, rowVars
  <2>4. CASE UNCHANGED vars
    BY <2>4 DEF TypeOK, vars, opVars, rowVars
  <2>5. QED
    BY <2>1, <2>2, <2>3, <2>4 DEF Next
<1>3. QED
  BY <1>1, <1>2, PTL DEF Spec

-----------------------------------------------------------------------------
(* An operation that does not move keeps what its handler knows.  Only the step, the phase, the        *)
(* proposal and what was told matter to it; the sets of saved runs and of   *)
(* attached reports grow exactly when SUCCEEDED is proposed.                *)

LEMMA HandlerFrame ==
    ASSUME NEW o, HandlerInv(o), step'[o] = step[o], phase'[o] = phase[o],
           proposal'[o] = proposal[o], told'[o] = told[o]
    PROVE  HandlerInv(o)'
BY DEF HandlerInv

(* One operation moves; the rows change, if at all, with its proposal.      *)
LEMMA OpStepKeepsHandlers ==
    ASSUME TypeOK, HistoryInv, NEW o \in Ops, OpStep(o)
    PROVE  \A q \in Ops : HandlerInv(q)'
<1> USE DEF TypeOK
<1>1. HandlerInv(o) /\ \A q \in Ops : HandlerInv(q)
  BY DEF HistoryInv
<1>2. ASSUME NEW q \in Ops, q # o PROVE HandlerInv(q)'
  <2>1. /\ step'[q] = step[q] /\ phase'[q] = phase[q]
        /\ proposal'[q] = proposal[q] /\ told'[q] = told[q]
    <3>1. CASE StartRun(o) \/ StartReport(o) \/ Cancel(o) \/ Freeze(o)
               \/ SaveRs(o) \/ SaveRsFails(o) \/ EnterCommit(o) \/ ReadReports(o)
               \/ Complete(o)
      BY <1>2, <3>1 DEF StartRun, StartReport, Begin, Cancel, Freeze, SaveRs, Stores,
         SaveRsFails, EnterCommit, ReadReports, ReadRow, Complete
    <3>2. CASE Fails(o) \/ Poll(o) \/ ExplainUnsaved(o) \/ GateRefuses(o)
               \/ SavePayload(o) \/ CommitFails(o) \/ AttachReport(o)
               \/ ReportSaved(o) \/ ReportSavedRaises(o)
      BY <1>2, <3>2 DEF Fails, Poll, ExplainUnsaved, GateRefuses, SavePayload,
         CommitFails, AttachReport, AttachTo, ReportSaved, ReportSavedRaises, Propose
    <3>3. QED
      BY <3>1, <3>2 DEF OpStep
  <2>2. QED
    BY <2>1, <1>1, HandlerFrame
<1>3. HandlerInv(o)'
  <2>1. CASE StartRun(o)
    BY <2>1, <1>1 DEF StartRun, Begin, HandlerInv, rowVars
  <2>2. CASE StartReport(o)
    BY <2>2, <1>1 DEF StartReport, Begin, HandlerInv, rowVars
  <2>3. CASE Cancel(o)
    BY <2>3, <1>1 DEF Cancel, HandlerInv, Outcomes
  <2>4. CASE Fails(o)
    BY <2>4, <1>1 DEF Fails, Propose, HandlerInv
  <2>5. CASE Poll(o)
    BY <2>5, <1>1 DEF Poll, Propose, HandlerInv
  <2>6. CASE Freeze(o)
    BY <2>6, <1>1 DEF Freeze, HandlerInv
  <2>7. CASE SaveRs(o)
    BY <2>7, <1>1 DEF SaveRs, Stores, HandlerInv
  <2>8. CASE SaveRsFails(o)
    BY <2>8, <1>1, HistoryAssumption DEF SaveRsFails, HandlerInv
  <2>9. CASE ExplainUnsaved(o)
    BY <2>9, <1>1 DEF ExplainUnsaved, Propose, HandlerInv
  <2>10. CASE EnterCommit(o)
    BY <2>10, <1>1 DEF EnterCommit, HandlerInv
  <2>11. CASE GateRefuses(o)
    BY <2>11, <1>1 DEF GateRefuses, Propose, HandlerInv
  <2>12. CASE SavePayload(o)
    BY <2>12, <1>1 DEF SavePayload, Propose, HandlerInv
  <2>13. CASE AttachReport(o)
    BY <2>13, <1>1 DEF AttachReport, AttachTo, Propose, HandlerInv
  <2>14. CASE CommitFails(o)
    BY <2>14, <1>1 DEF CommitFails, Propose, HandlerInv
  <2>15. CASE Complete(o)
    <3>1. phase'[o] = IF phase[o] = "CANCELED" THEN "CANCELED" ELSE proposal[o]
      BY <2>15 DEF Complete
    <3>2. told'[o] = phase'[o] /\ step'[o] = "ended" /\ proposal'[o] = proposal[o]
      BY <2>15 DEF Complete
    <3>3. proposal[o] \in Outcomes
      BY <2>15, <1>1 DEF Complete, HandlerInv
    <3>4. QED
      BY <2>15, <1>1, <3>1, <3>2, <3>3 DEF Complete, HandlerInv, Outcomes
  <2>16. CASE ReportSaved(o) \/ ReportSavedRaises(o)
    BY <2>16, <1>1 DEF ReportSaved, ReportSavedRaises, Propose, HandlerInv
  <2>17. CASE ReadReports(o)
    BY <2>17, <1>1 DEF ReadReports, ReadRow, HandlerInv
  <2>18. QED
    BY <2>1, <2>2, <2>3, <2>4, <2>5, <2>6, <2>7, <2>8, <2>9, <2>10, <2>11,
       <2>12, <2>13, <2>14, <2>15, <2>16, <2>17 DEF OpStep
<1>4. QED
  BY <1>2, <1>3

(* The rows and what is known of them change with the proposals.            *)
Saves ==
    /\ \A r \in Runs :
          r \in saved <=> step[r] = "stored" \/ proposal[r] = "SUCCEEDED" \/ r \in unheard
    /\ \A r \in unheard : proposal[r] = "FAILED"

Attaches ==
    /\ \A p \in Reports : proposal[p] = "SUCCEEDED" => p \in attached[subject[p]]
    /\ \A p \in Reports, r \in Rows : p \in attached[r] => proposal[p] = "SUCCEEDED"

LEMMA SavesFollowProposals ==
    ASSUME TypeOK, HistoryInv, NEW o \in Ops, OpStep(o)
    PROVE  Saves'
<1> USE DEF TypeOK, Ops
<1>a. HandlerInv(o) /\ Saves
  BY DEF HistoryInv, Saves
<1>1. CASE StartRun(o) \/ StartReport(o) \/ Cancel(o) \/ Freeze(o) \/ SaveRsFails(o)
           \/ EnterCommit(o) \/ ReadReports(o) \/ Complete(o)
  <2>1. /\ \/ /\ step[o] # "stored" /\ step'[o] # "stored"
              /\ step' = [step EXCEPT ![o] = step'[o]]
           \/ step' = step
        /\ UNCHANGED <<proposal, unheard, saved>>
    <3>1. CASE StartRun(o) \/ StartReport(o)
      BY <3>1, <1>a DEF StartRun, StartReport, Begin, rowVars, HandlerInv
    <3>2. CASE Cancel(o)
      BY <3>2 DEF Cancel, rowVars
    <3>3. CASE Freeze(o) \/ SaveRsFails(o) \/ EnterCommit(o) \/ ReadReports(o) \/ Complete(o)
      BY <3>3 DEF Freeze, SaveRsFails, EnterCommit, ReadReports, ReadRow, Complete, rowVars
    <3> QED
      BY <1>1, <3>1, <3>2, <3>3
  <2>2. \A r \in Runs : step'[r] = "stored" <=> step[r] = "stored"
    BY <2>1
  <2> QED
    BY <2>1, <2>2, <1>a DEF Saves
<1>2. CASE Fails(o) \/ Poll(o) \/ ExplainUnsaved(o) \/ GateRefuses(o) \/ CommitFails(o)
  <2>1. /\ proposal[o] = "none" /\ step[o] # "stored"
        /\ step' = [step EXCEPT ![o] = "ending"]
        /\ proposal' = [proposal EXCEPT ![o] = proposal'[o]]
        /\ proposal'[o] \in {"FAILED", "CANCELED"}
        /\ UNCHANGED <<saved, unheard>>
    BY <1>2, <1>a DEF Fails, Poll, ExplainUnsaved, GateRefuses, CommitFails, Propose, HandlerInv,
       rowVars
  <2>2. o \notin unheard
    BY <2>1, <1>a DEF Saves
  <2> QED
    BY <2>1, <2>2, <1>a DEF Saves
<1>3. CASE SaveRs(o)
  <2>1. /\ o \in Runs /\ proposal[o] = "none"
        /\ step' = [step EXCEPT ![o] = "stored"]
        /\ saved' = saved \cup {o}
        /\ UNCHANGED <<proposal, unheard>>
    BY <1>3, <1>a, HistoryAssumption DEF SaveRs, Stores, CommitRow, HandlerInv
  <2> QED
    BY <2>1, <1>a DEF Saves
<1>4. CASE SavePayload(o)
  <2>1. /\ o \in Runs /\ proposal[o] = "none"
        /\ step' = [step EXCEPT ![o] = "ending"]
        /\ proposal' = [proposal EXCEPT ![o] = "SUCCEEDED"]
        /\ saved' = saved \cup {o}
        /\ UNCHANGED unheard
    BY <1>4, <1>a DEF SavePayload, Propose, CommitRow, HandlerInv
  <2>2. o \notin unheard
    BY <2>1, <1>a DEF Saves
  <2> QED
    BY <2>1, <2>2, <1>a DEF Saves
<1>5. CASE AttachReport(o)
  <2>1. /\ o \in Reports /\ proposal[o] = "none"
        /\ step' = [step EXCEPT ![o] = "ending"]
        /\ proposal' = [proposal EXCEPT ![o] = "SUCCEEDED"]
        /\ UNCHANGED <<saved, unheard>>
    BY <1>5, <1>a DEF AttachReport, AttachTo, Propose, HandlerInv
  <2>2. o \notin Runs /\ o \notin unheard
    BY <2>1, <1>a, HistoryAssumption DEF Saves
  <2> QED
    BY <2>1, <2>2, <1>a DEF Saves
<1>6. CASE ReportSaved(o) \/ ReportSavedRaises(o)
  <2>1. /\ o \in Runs /\ step[o] = "stored" /\ proposal[o] = "none"
        /\ step' = [step EXCEPT ![o] = "ending"]
        /\ UNCHANGED saved
        /\ \/ /\ proposal' = [proposal EXCEPT ![o] = "SUCCEEDED"]
              /\ unheard' = unheard
           \/ /\ proposal' = [proposal EXCEPT ![o] = "FAILED"]
              /\ unheard' = unheard \cup {o}
    BY <1>6, <1>a, HistoryAssumption
       DEF ReportSaved, ReportSavedRaises, Propose, HandlerInv, rowVars
  <2>2. o \in saved /\ o \notin unheard
    BY <2>1, <1>a DEF Saves
  <2> QED
    BY <2>1, <2>2, <1>a DEF Saves
<1> QED
  BY <1>1, <1>2, <1>3, <1>4, <1>5, <1>6 DEF OpStep

LEMMA ReportsFollowProposals ==
    ASSUME TypeOK, HistoryInv, NEW o \in Ops, OpStep(o)
    PROVE  Attaches'
<1> USE DEF TypeOK, Ops
<1>a. HandlerInv(o) /\ Attaches
  BY DEF HistoryInv, Attaches
<1>1. CASE StartRun(o) \/ Cancel(o) \/ Freeze(o) \/ SaveRs(o) \/ SaveRsFails(o)
           \/ EnterCommit(o) \/ ReadReports(o) \/ Complete(o)
  <2>1. UNCHANGED <<proposal, attached, subject>>
    BY <1>1 DEF StartRun, Begin, Cancel, Freeze, SaveRs, Stores, CommitRow, SaveRsFails,
       EnterCommit, ReadReports, ReadRow, Complete, rowVars
  <2> QED
    BY <2>1, <1>a DEF Attaches
<1>2. CASE StartReport(o)
  <2>1. proposal[o] # "SUCCEEDED"
    BY <1>2, <1>a DEF StartReport, Begin, HandlerInv
  <2>2. QED
    BY <1>2, <1>a, <2>1 DEF StartReport, Begin, rowVars, Attaches
<1>3. CASE \/ Fails(o) \/ Poll(o) \/ ExplainUnsaved(o) \/ GateRefuses(o) \/ CommitFails(o)
           \/ ReportSaved(o) \/ ReportSavedRaises(o) \/ SavePayload(o)
  <2>1. /\ proposal[o] = "none"
        /\ proposal' = [proposal EXCEPT ![o] = proposal'[o]]
        /\ o \in Reports => proposal'[o] # "SUCCEEDED"
        /\ UNCHANGED <<attached, subject>>
    BY <1>3, <1>a, HistoryAssumption DEF Fails, Poll, ExplainUnsaved, GateRefuses, CommitFails,
       ReportSaved, ReportSavedRaises, SavePayload, CommitRow, Propose, HandlerInv, rowVars
  <2>2. QED
    BY <2>1, <1>a DEF Attaches
<1>5. CASE AttachReport(o)
  <2>0. o \in Reports /\ step[o] = "attaching" /\ subject[o] \in listed
    BY <1>5 DEF AttachReport, AttachTo, Propose
  <2>1. /\ subject[o] \in Rows
        /\ proposal' = [proposal EXCEPT ![o] = "SUCCEEDED"]
        /\ attached' = [attached EXCEPT ![subject[o]] = attached[subject[o]] \cup {o}]
        /\ subject' = subject
    BY <1>5, <2>0 DEF AttachReport, AttachTo, Propose, HistoryInv, ReadIsCurrent
  <2>3. \A r \in Rows : attached[r] \subseteq attached'[r]
                         /\ attached'[r] \subseteq attached[r] \cup {o}
    BY <2>1
  <2>4. \A p \in Reports : proposal'[p] = "SUCCEEDED" => p \in attached'[subject'[p]]
    <3>1. o \in attached'[subject[o]]
      BY <2>1
    <3>2. ASSUME NEW p \in Reports, p # o, proposal'[p] = "SUCCEEDED"
          PROVE  p \in attached'[subject[p]]
      <4>1. p \in attached[subject[p]]
        BY <3>2, <2>1, <1>a DEF Attaches
      <4>2. CASE subject[p] = subject[o]
        BY <4>1, <4>2, <2>1
      <4>3. CASE subject[p] # subject[o]
        BY <4>1, <4>3, <2>1
      <4>4. QED
        BY <4>2, <4>3
    <3>3. QED
      BY <3>1, <3>2, <2>1
  <2>5. QED
    BY <2>0, <2>1, <2>3, <2>4, <1>a DEF Attaches
<1> QED
  BY <1>1, <1>2, <1>3, <1>5 DEF OpStep

(* Who holds the write lock reads what is there, and nobody writes a row    *)
(* until it has written back or failed.                                     *)
LEMMA ReadStaysCurrent ==
    ASSUME TypeOK, HistoryInv, NEW o \in Ops, OpStep(o)
    PROVE  ReadIsCurrent'
<1> USE DEF TypeOK, Ops
<1>a. HandlerInv(o) /\ ReadIsCurrent
  BY DEF HistoryInv
<1>1. CASE \/ StartRun(o) \/ Cancel(o) \/ Freeze(o) \/ SaveRsFails(o) \/ EnterCommit(o)
           \/ Complete(o) \/ Fails(o) \/ Poll(o) \/ ExplainUnsaved(o) \/ GateRefuses(o)
           \/ ReportSaved(o) \/ ReportSavedRaises(o)
  <2>1. /\ \/ step' = [step EXCEPT ![o] = step'[o]] /\ step'[o] # "attaching"
           \/ step' = step
        /\ UNCHANGED <<read, subject, attached, listed>>
    BY <1>1 DEF StartRun, Begin, Cancel, Freeze, SaveRsFails, EnterCommit, Complete, Fails, Poll,
       ExplainUnsaved, GateRefuses, ReportSaved, ReportSavedRaises, Propose, rowVars
  <2>2. \A p \in Reports : step'[p] = "attaching" => step[p] = "attaching"
    BY <2>1
  <2> QED
    BY <2>1, <2>2, <1>a DEF ReadIsCurrent
<1>2. CASE StartReport(o)
  <2>1. /\ step[o] = "idle"
        /\ step' = [step EXCEPT ![o] = "working"]
        /\ \A p \in Reports : p # o => subject'[p] = subject[p]
        /\ UNCHANGED <<read, attached, listed>>
    BY <1>2, <1>a DEF StartReport, Begin, rowVars, HandlerInv
  <2>2. \A p \in Reports : step'[p] = "attaching" => step[p] = "attaching" /\ p # o
    BY <2>1
  <2> QED
    BY <2>1, <2>2, <1>a DEF ReadIsCurrent
<1>3. CASE SaveRs(o) \/ SavePayload(o)
  <2>1. WriteLockFree /\ step'[o] # "attaching" /\ step' = [step EXCEPT ![o] = step'[o]]
    BY <1>3 DEF SaveRs, Stores, SavePayload, Propose, CommitRow
  <2>2. \A p \in Reports : step'[p] # "attaching"
    BY <2>1 DEF WriteLockFree
  <2> QED
    BY <2>2 DEF ReadIsCurrent
<1>4. CASE ReadReports(o)
  <2>1. /\ WriteLockFree /\ subject[o] \in listed
        /\ step' = [step EXCEPT ![o] = "attaching"]
        /\ read' = [read EXCEPT ![o] = attached[subject[o]]]
        /\ o \in Reports
        /\ UNCHANGED <<subject, attached, listed>>
    BY <1>4 DEF ReadReports, ReadRow, rowVars
  <2>2. \A p \in Reports : step'[p] = "attaching" => p = o
    BY <2>1 DEF WriteLockFree
  <2> QED
    BY <2>1, <2>2 DEF ReadIsCurrent
<1>5. CASE AttachReport(o) \/ CommitFails(o)
  <2>1. /\ step' = [step EXCEPT ![o] = "ending"]
        /\ step[o] \in {"gated", "attaching"}
        /\ \A p \in Reports : p # o => read'[p] = read[p]
        /\ UNCHANGED <<subject, listed>>
    BY <1>5 DEF AttachReport, AttachTo, CommitFails, Propose, rowVars
  <2>2. CASE CommitFails(o)
    <3>1. UNCHANGED attached
      BY <2>2 DEF CommitFails, rowVars
    <3>2. \A p \in Reports : step'[p] = "attaching" => step[p] = "attaching" /\ p # o
      BY <2>1
    <3> QED
      BY <2>1, <3>1, <3>2, <1>a DEF ReadIsCurrent
  <2>3. CASE AttachReport(o)
    <3>1. step[o] = "attaching" /\ o \in Reports
      BY <2>3 DEF AttachReport, AttachTo, Propose
    <3>2. \A p \in Reports : step'[p] # "attaching"
      BY <2>1, <3>1, <1>a DEF ReadIsCurrent
    <3> QED
      BY <3>2 DEF ReadIsCurrent
  <2> QED
    BY <1>5, <2>2, <2>3
<1> QED
  BY <1>1, <1>2, <1>3, <1>4, <1>5 DEF OpStep

(* The inductive invariant of the handlers and the rows.                    *)
THEOREM HistoryInvariant == Spec => []HistoryInv
<1>1. Init => HistoryInv
  BY DEF Init, HistoryInv, HandlerInv, ReadIsCurrent, Ops, Rows
<1>2. TypeOK /\ HistoryInv /\ [Next]_vars => HistoryInv'
  <2> SUFFICES ASSUME TypeOK, HistoryInv, [Next]_vars PROVE HistoryInv'
    OBVIOUS
  <2>1. ASSUME NEW o \in Ops, OpStep(o) PROVE HistoryInv'
    BY <2>1, OpStepKeepsHandlers, SavesFollowProposals, ReportsFollowProposals,
       ReadStaysCurrent DEF HistoryInv, Saves, Attaches
  <2>2. CASE UserStep \/ (\E time \in 0..MaxTime : SetClock(time)) \/ UNCHANGED vars
    <3>1. UNCHANGED <<opVars, subject, attached, saved>>
      BY <2>2 DEF UserStep, SetPinned, Delete, ClearUnpinned, Remove, Import,
         SetClock, vars, rowVars
    <3>2. WriteLockFree \/ UNCHANGED listed
      BY <2>2 DEF UserStep, SetPinned, Delete, ClearUnpinned, Remove, Import,
         SetClock, vars, rowVars
    <3>3. ReadIsCurrent'
      BY <3>1, <3>2 DEF opVars, HistoryInv, ReadIsCurrent, WriteLockFree
    <3>4. QED
      BY <3>1, <3>3 DEF opVars, HistoryInv, HandlerInv
  <2>3. QED
    BY <2>1, <2>2 DEF Next
<1>3. QED
  BY <1>1, <1>2, TypeCorrect, PTL DEF Spec

(* What the caller of a run is told is what happened to the database, but   *)
(* for a run whose worker lost its reader after the commit, for any number  *)
(* of runs, cancellations and failures.                                     *)
THEOREM RunsAreToldTheTruth == Spec => []ToldTheTruth
<1>1. HistoryInv => ToldTheTruth
  BY DEF HistoryInv, HandlerInv, ToldTheTruth, Ops, Outcomes
<1>2. QED
  BY <1>1, HistoryInvariant, PTL

(* A report is attached if and only if its caller is told so.               *)
THEOREM ReportsAreToldTheTruth == Spec => []ReportToldTheTruth
<1>1. HistoryInv => ReportToldTheTruth
  BY DEF HistoryInv, HandlerInv, ReportToldTheTruth, Ops
<1>2. QED
  BY <1>1, HistoryInvariant, PTL

(* No handler breaks the contract of try_complete.                          *)
THEOREM HandlersKeepGateContract == Spec => []GateContract
<1>1. HistoryInv => GateContract
  BY DEF HistoryInv, HandlerInv, GateContract, Outcomes
<1>2. QED
  BY <1>1, HistoryInvariant, PTL

-----------------------------------------------------------------------------
(* Retention.                                                               *)

(* The history is finite: each step adds one row at most.                   *)
THEOREM HistoryIsFinite == Spec => []IsFiniteSet(listed)
<1>1. Init => IsFiniteSet(listed)
  BY FS_EmptySet DEF Init
<1>2. IsFiniteSet(listed) /\ [Next]_vars => IsFiniteSet(listed)'
  <2> SUFFICES ASSUME IsFiniteSet(listed), [Next]_vars PROVE IsFiniteSet(listed')
    OBVIOUS
  <2>1. \E x : listed' \subseteq listed \cup {x}
    <3>1. CASE UNCHANGED vars
      BY <3>1 DEF vars, rowVars
    <3>2. ASSUME NEW o \in Ops, OpStep(o) PROVE listed' \subseteq listed \cup {o}
      BY <3>2 DEF OpStep, StartRun, StartReport, Begin, Cancel, Fails, Poll, Freeze, SaveRs,
                  Stores, ReportSaved, ReportSavedRaises, SaveRsFails, ExplainUnsaved, EnterCommit,
                  GateRefuses, SavePayload, ReadReports, ReadRow, AttachReport, AttachTo,
                  CommitFails, Complete, CommitRow, rowVars
    <3>3. ASSUME NEW r \in Rows, NEW value \in BOOLEAN, SetPinned(r, value) \/ Delete(r) \/ Import(r)
          PROVE  listed' \subseteq listed \cup {r}
      BY <3>3 DEF SetPinned, Delete, Remove, Import
    <3>4. CASE ClearUnpinned \/ \E time \in 0..MaxTime : SetClock(time)
      BY <3>4 DEF ClearUnpinned, Remove, SetClock, rowVars
    <3> QED
      BY <3>1, <3>2, <3>3, <3>4 DEF Next, UserStep
  <2>2. PICK x : listed' \subseteq listed \cup {x}
    BY <2>1
  <2>3. IsFiniteSet(listed \cup {x})
    BY FS_AddElement
  <2> QED
    BY <2>2, <2>3, FS_Subset
<1> QED
  BY <1>1, <1>2, PTL DEF Spec

(* Newer is a strict total order of the rows.                               *)
LEMMA NewerIsTotal ==
    ASSUME TypeOK
    PROVE  /\ \A q \in Rows : ~Newer(q, q)
           /\ \A p, q, r \in Rows : Newer(p, q) /\ Newer(q, r) => Newer(p, r)
           /\ \A q, r \in Rows : q # r => Newer(q, r) \/ Newer(r, q)
<1>1. \A q \in Rows : stamp[q] \in Nat /\ q \in Nat
  BY HistoryAssumption DEF TypeOK, Rows
<1> QED
  BY <1>1 DEF Newer

(* Among some of the rows one has, for any relation, no fewer related to it *)
(* than another.                                                            *)
LEMMA MinimalSubset ==
    ASSUME NEW U, IsFiniteSet(U), NEW T, T \subseteq SUBSET U, T # {}
    PROVE  \E x \in T : \A y \in T : ~(y \subseteq x /\ y # x)
<1>1. FiniteSubsetsOf(U) = SUBSET U
  BY FS_FiniteSubsetsOfFinite
<1>2. IsWellFoundedOn(StrictSubsetOrdering(U), SUBSET U)
  BY <1>1, FS_StrictSubsetOrderingWellFounded
<1>3. PICK x \in T : \A y \in T : ~(<<y, x>> \in StrictSubsetOrdering(U))
  BY <1>2, WFMin
<1>4. ASSUME NEW y \in T, y \subseteq x, y # x PROVE FALSE
  <2>1. <<y, x>> \in (SUBSET U) \X (SUBSET U)
    OBVIOUS
  <2>2. <<y, x>> \in StrictSubsetOrdering(U)
    BY <1>4, <2>1 DEF StrictSubsetOrdering
  <2> QED
    BY <1>3, <2>2
<1> QED
  BY <1>4

LEMMA OldestAndNewest ==
    ASSUME TypeOK, NEW U \in SUBSET Rows, IsFiniteSet(U), NEW A \in SUBSET U, A # {}
    PROVE  /\ \E m \in A : \A q \in A : q # m => Newer(q, m)
           /\ \E m \in A : \A q \in A : q # m => Newer(m, q)
<1>1. \E m \in A : \A q \in A : q # m => Newer(q, m)
  <2> DEFINE Older(m) == {q \in U : Newer(m, q)}
  <2> DEFINE All == {Older(m) : m \in A}
  <2>a. All \subseteq SUBSET U /\ All # {}
    OBVIOUS
  <2>b. \A q \in A : Older(q) \in All
    OBVIOUS
  <2>1. PICK x \in All : \A y \in All : ~(y \subseteq x /\ y # x)
    <3> HIDE DEF All
    <3> QED BY <2>a, MinimalSubset
  <2>c. PICK m \in A : x = Older(m)
    OBVIOUS
  <2>2. \A q \in A : ~(Older(q) \subseteq Older(m) /\ Older(q) # Older(m))
    <3> HIDE DEF All, Older
    <3> QED BY <2>b, <2>1, <2>c
  <2>3. ASSUME NEW q \in A, q # m, ~Newer(q, m) PROVE FALSE
    <3>1. Newer(m, q)
      BY <2>3, NewerIsTotal
    <3>2. Older(q) \subseteq Older(m) /\ q \in Older(m) /\ q \notin Older(q)
      BY <3>1, NewerIsTotal
    <3> QED
      BY <2>2, <3>2
  <2> QED
    BY <2>3
<1>2. \E m \in A : \A q \in A : q # m => Newer(m, q)
  <2> DEFINE Above(m) == {q \in U : Newer(q, m)}
  <2> DEFINE All == {Above(m) : m \in A}
  <2>a. All \subseteq SUBSET U /\ All # {}
    OBVIOUS
  <2>b. \A q \in A : Above(q) \in All
    OBVIOUS
  <2>1. PICK x \in All : \A y \in All : ~(y \subseteq x /\ y # x)
    <3> HIDE DEF All
    <3> QED BY <2>a, MinimalSubset
  <2>c. PICK m \in A : x = Above(m)
    OBVIOUS
  <2>2. \A q \in A : ~(Above(q) \subseteq Above(m) /\ Above(q) # Above(m))
    <3> HIDE DEF All, Above
    <3> QED BY <2>b, <2>1, <2>c
  <2>3. ASSUME NEW q \in A, q # m, ~Newer(m, q) PROVE FALSE
    <3>1. Newer(q, m)
      BY <2>3, NewerIsTotal
    <3>2. Above(q) \subseteq Above(m) /\ q \in Above(m) /\ q \notin Above(q)
      BY <3>1, NewerIsTotal
    <3> QED
      BY <2>2, <3>2
  <2> QED
    BY <2>3
<1> QED
  BY <1>1, <1>2

(* What Excess leaves of some rows: the Keep newest, or all of them.        *)
LEMMA ExcessLeavesTheNewest ==
    ASSUME TypeOK, NEW U \in SUBSET Rows, IsFiniteSet(U)
    PROVE  /\ Cardinality(U \ Excess(U)) <= Keep
           /\ \A r \in Excess(U) : Cardinality({q \in U \ Excess(U) : Newer(q, r)}) = Keep
<1> DEFINE kept == U \ Excess(U)
           above(r) == {q \in U : Newer(q, r)}
<1>0. Keep \in Nat
  BY HistoryAssumption
<1>1. IsFiniteSet(kept) /\ Cardinality(kept) \in Nat
  BY FS_Subset, FS_CardinalityType
<1>2. \A r : IsFiniteSet(above(r)) /\ Cardinality(above(r)) \in Nat
  BY FS_Subset, FS_CardinalityType
<1>3. Cardinality(kept) <= Keep
  <2>1. CASE kept = {}
    BY <1>0, <2>1, FS_EmptySet
  <2>2. CASE kept # {}
    <3>1. PICK m \in kept : \A q \in kept : q # m => Newer(q, m)
      BY <2>2, OldestAndNewest
    <3>2. kept \subseteq above(m) \cup {m}
      BY <3>1
    <3>3. m \notin above(m)
      BY NewerIsTotal
    <3>4. IsFiniteSet(above(m) \cup {m}) /\ Cardinality(above(m) \cup {m}) = Cardinality(above(m)) + 1
      BY <1>2, <3>3, FS_AddElement
    <3>5. Cardinality(kept) <= Cardinality(above(m)) + 1
      BY <3>2, <3>4, FS_Subset
    <3>6. Cardinality(above(m)) < Keep
      BY <1>0, <1>2 DEF Excess
    <3> QED
      BY <1>0, <1>1, <1>2, <3>5, <3>6
  <2> QED
    BY <2>1, <2>2
<1>4. ASSUME NEW r \in Excess(U)
      PROVE  Cardinality({q \in kept : Newer(q, r)}) = Keep
  <2>1. Excess(U) \subseteq U
    BY DEF Excess
  <2>2. PICK e \in Excess(U) : \A q \in Excess(U) : q # e => Newer(e, q)
    BY <2>1, OldestAndNewest
  <2>3. above(e) \subseteq {q \in kept : Newer(q, r)}
    <3> SUFFICES ASSUME NEW q \in U, Newer(q, e) PROVE q \notin Excess(U) /\ Newer(q, r)
      OBVIOUS
    <3>1. q \notin Excess(U)
      BY <2>1, <2>2, NewerIsTotal
    <3>2. e = r \/ Newer(e, r)
      BY <2>2
    <3> QED
      BY <2>1, <3>1, <3>2, NewerIsTotal
  <2>4. Cardinality(above(e)) >= Keep
    BY DEF Excess
  <2>5. /\ IsFiniteSet({q \in kept : Newer(q, r)})
        /\ Cardinality({q \in kept : Newer(q, r)}) \in Nat
        /\ Cardinality({q \in kept : Newer(q, r)}) <= Cardinality(kept)
    BY <1>1, FS_Subset, FS_CardinalityType
  <2>6. Cardinality(above(e)) <= Cardinality({q \in kept : Newer(q, r)})
    BY <2>3, <2>5, FS_Subset
  <2> QED
    BY <1>0, <1>1, <1>2, <1>3, <2>4, <2>5, <2>6
<1> QED
  BY <1>3, <1>4

(* The rows of the run's own table that a commit leaves unpinned are what   *)
(* Excess leaves of those it found and its own.                             *)
LEMMA CommitEvicts ==
    ASSUME TypeOK, IsFiniteSet(listed), NEW r \in Runs, CommitRow(r)
    PROVE  /\ Cardinality((listed' \cap Table(r)) \ pinned) <= Keep
           /\ \A e \in (listed \cup {r}) \ listed' :
                 /\ e \in Table(r) \ pinned
                 /\ Cardinality({q \in (listed' \cap Table(e)) \ pinned : Newer(q, e)}) = Keep
<1> DEFINE U == ((listed \cup {r}) \cap Table(r)) \ pinned
<1>1. U \in SUBSET Rows /\ IsFiniteSet(U)
  <2>1. IsFiniteSet(listed \cup {r})
    BY FS_AddElement
  <2> QED
    BY <2>1, FS_Subset DEF TypeOK, Rows
<1>2. Excess(U) \subseteq U
  BY DEF Excess
<1>3. listed' = (listed \cup {r}) \ Excess(U)
  BY DEF CommitRow, Evicted
<1>4. \A e \in Table(r) : Table(e) = Table(r)
  BY DEF Table
<1> HIDE DEF U
<1>5. /\ Cardinality(U \ Excess(U)) <= Keep
      /\ \A e \in Excess(U) : Cardinality({q \in U \ Excess(U) : Newer(q, e)}) = Keep
  BY <1>1, ExcessLeavesTheNewest
<1>6. (listed' \cap Table(r)) \ pinned = U \ Excess(U)
  BY <1>3 DEF U
<1>7. ASSUME NEW e \in (listed \cup {r}) \ listed'
      PROVE  /\ e \in Table(r) \ pinned
             /\ Cardinality({q \in (listed' \cap Table(e)) \ pinned : Newer(q, e)}) = Keep
  <2>1. e \in Excess(U)
    BY <1>3
  <2>2. e \in Table(r) \ pinned
    BY <2>1, <1>2 DEF U
  <2>3. (listed' \cap Table(e)) \ pinned = U \ Excess(U)
    BY <2>2, <1>4, <1>6
  <2> QED
    BY <2>1, <2>2, <2>3, <1>5
<1> QED
  BY <1>5, <1>6, <1>7

(* A step saves one run, which was not saved before, or none; and then no   *)
(* row leaves but by the user's hand.                                       *)
LEMMA OneRunIsSaved ==
    ASSUME TypeOK, HistoryInv, [Next]_vars
    PROVE  \/ \E r \in Runs : saved' \ saved = {r} /\ CommitRow(r)
           \/ saved' = saved /\ listed \subseteq listed' \cup removed'
<1>1. ASSUME NEW o \in Ops, OpStep(o), ~UNCHANGED rowVars
      PROVE  \/ o \in Runs /\ o \notin saved /\ CommitRow(o)
             \/ UNCHANGED <<listed, saved>>
  <2>1. CASE SaveRs(o) \/ SavePayload(o)
    <3>1. o \in Runs /\ CommitRow(o)
      BY <2>1, HistoryAssumption DEF SaveRs, Stores, SavePayload
    <3>2. HandlerInv(o) /\ step[o] \in {"saving", "gated"}
      BY <2>1 DEF SaveRs, Stores, SavePayload, Propose, HistoryInv
    <3>3. proposal[o] = "none"
      BY <3>2 DEF HandlerInv
    <3>4. o \notin saved
      BY <3>1, <3>2, <3>3 DEF HistoryInv
    <3> QED
      BY <3>1, <3>4
  <2>2. CASE AttachReport(o)
    BY <2>2 DEF AttachReport, AttachTo
  <2>3. CASE ~(SaveRs(o) \/ SavePayload(o) \/ AttachReport(o))
    BY <1>1, <2>3 DEF OpStep, StartRun, StartReport, Begin, Cancel, Fails, Poll, Freeze,
                      SaveRsFails, ExplainUnsaved, EnterCommit, GateRefuses, CommitFails,
                      ReportSaved, ReportSavedRaises, ReadReports, ReadRow, Complete, rowVars
  <2> QED
    BY <2>1, <2>2, <2>3
<1>2. ASSUME UserStep PROVE saved' = saved /\ listed \subseteq listed' \cup removed'
  BY <1>2 DEF UserStep, SetPinned, Delete, ClearUnpinned, Remove, Import
<1>3. ASSUME NEW time, SetClock(time) PROVE UNCHANGED rowVars
  BY <1>3 DEF SetClock
<1>4. UNCHANGED vars => UNCHANGED rowVars
  BY DEF vars
<1>5. ASSUME NEW r \in Runs, r \notin saved, CommitRow(r) PROVE saved' \ saved = {r}
  BY <1>5 DEF CommitRow
<1>6. UNCHANGED rowVars => saved' = saved /\ listed' = listed
  BY DEF rowVars
<1> QED
  BY <1>1, <1>2, <1>3, <1>4, <1>5, <1>6 DEF Next

(* A save takes the oldest unpinned rows of its table beyond those the      *)
(* history keeps and no others, whatever was unpinned, imported or deleted  *)
(* since the last one, and whichever way the clock went.                    *)
THEOREM SaveEvicts == Spec => SaveEvictsTheOldest
<1>1. TypeOK /\ HistoryInv /\ IsFiniteSet(listed) /\ [Next]_vars
      => [\A r \in saved' \ saved : Cardinality((listed' \cap Table(r)) \ pinned) <= Keep]_vars
  BY OneRunIsSaved, CommitEvicts
<1>2. TypeOK /\ HistoryInv /\ IsFiniteSet(listed) /\ [Next]_vars
      => [LET new == saved' \ saved
              evicted == (listed \cup new) \ (listed' \cup removed')
          IN  \A r \in evicted :
                  /\ r \in Runs \ pinned
                  /\ \E q \in new : r \in Table(q)
                  /\ Cardinality({q \in (listed' \cap Table(r)) \ pinned : Newer(q, r)}) = Keep]_vars
  <2> SUFFICES ASSUME TypeOK, HistoryInv, IsFiniteSet(listed), [Next]_vars,
                      NEW e \in (listed \cup (saved' \ saved)) \ (listed' \cup removed')
               PROVE  /\ e \in Runs \ pinned
                      /\ \E q \in saved' \ saved : e \in Table(q)
                      /\ Cardinality({q \in (listed' \cap Table(e)) \ pinned : Newer(q, e)}) = Keep
    OBVIOUS
  <2>1. PICK r \in Runs : saved' \ saved = {r} /\ CommitRow(r)
    BY OneRunIsSaved
  <2>2. /\ e \in Table(r) \ pinned
        /\ Cardinality({q \in (listed' \cap Table(e)) \ pinned : Newer(q, e)}) = Keep
    BY <2>1, CommitEvicts
  <2>3. Table(r) \subseteq Runs
    BY HistoryAssumption DEF Table
  <2> QED
    BY <2>1, <2>2, <2>3
<1> QED
  BY <1>1, <1>2, TypeCorrect, HistoryInvariant, HistoryIsFinite, PTL
     DEF Spec, SaveEvictsTheOldest, SaveBoundsHistory, EvictedByAgeOnly

(* A row's reports are read in one step and written back in another, yet of *)
(* reports made on the same row none erases another, because the write lock *)
(* is held from the read on (history_service.py, analysis_payload_store.py).*)
THEOREM ReportsAreKept == Spec => ReportsAccumulate
<1>1. TypeOK /\ HistoryInv /\ [Next]_vars
      => [\A r \in listed \cap listed' : attached[r] \subseteq attached'[r]]_vars
  <2> SUFFICES ASSUME TypeOK, HistoryInv, [Next]_vars
               PROVE  \A r \in Rows : attached[r] \subseteq attached'[r]
    BY DEF TypeOK
  <2>1. ASSUME NEW o \in Ops, AttachReport(o) PROVE \A r \in Rows : attached[r] \subseteq attached'[r]
    <3>1. o \in Reports /\ step[o] = "attaching"
      BY <2>1 DEF AttachReport, AttachTo, Propose
    <3>2. read[o] = attached[subject[o]]
      BY <3>1 DEF HistoryInv, ReadIsCurrent
    <3> QED
      BY <2>1, <3>2 DEF AttachReport, AttachTo, TypeOK
  <2>2. ASSUME NEW o \in Ops, OpStep(o), ~AttachReport(o) PROVE UNCHANGED attached
    BY <2>2 DEF OpStep, StartRun, StartReport, Begin, Cancel, Fails, Poll, Freeze, SaveRs, Stores,
                ReportSaved, ReportSavedRaises, SaveRsFails, ExplainUnsaved, EnterCommit,
                GateRefuses, SavePayload, ReadReports, ReadRow, CommitFails, Complete,
                CommitRow, rowVars
  <2>3. CASE UserStep \/ (\E time \in 0..MaxTime : SetClock(time)) \/ UNCHANGED vars
    BY <2>3 DEF UserStep, SetPinned, Delete, ClearUnpinned, Remove, Import, SetClock, vars, rowVars
  <2> QED
    BY <2>1, <2>2, <2>3 DEF Next
<1> QED
  BY <1>1, TypeCorrect, HistoryInvariant, PTL DEF Spec, ReportsAccumulate

-----------------------------------------------------------------------------
(* The operations are those of the abstract registry.                       *)

(* What a step of a handler is to the registry.                             *)
LEMMA OpStepIsLifecycleStep ==
    ASSUME TypeOK, HistoryInv, NEW o \in Ops, OpStep(o)
    PROVE  \/ Lifecycle!Submit(o)
           \/ Lifecycle!EnterCommit(o)
           \/ \E outcome \in Lifecycle!Outcomes : Lifecycle!Decide(o, outcome)
           \/ UNCHANGED phase
<1>1. CASE StartRun(o) \/ StartReport(o)
  BY <1>1 DEF StartRun, StartReport, Begin, Lifecycle!Submit
<1>2. CASE Cancel(o)
  BY <1>2 DEF Cancel, Lifecycle!Decide, Lifecycle!Outcomes
<1>3. CASE SaveRs(o) \/ SaveRsFails(o) \/ EnterCommit(o)
  BY <1>3 DEF SaveRs, Stores, SaveRsFails, EnterCommit, Lifecycle!EnterCommit
<1>4. CASE Complete(o)
  <2>1. HandlerInv(o) /\ step[o] = "ending"
    BY <1>4 DEF Complete, HistoryInv
  <2>2. CASE phase[o] = "CANCELED"
    BY <1>4, <2>2 DEF Complete, TypeOK
  <2>3. CASE phase[o] # "CANCELED"
    <3>1. phase' = [phase EXCEPT ![o] = proposal[o]]
      BY <1>4, <2>3 DEF Complete
    <3>2. /\ phase[o] = "pending" \/ (phase[o] = "committing" /\ proposal[o] # "CANCELED")
          /\ proposal[o] # "none"
      BY <2>1, <2>3 DEF HandlerInv
    <3>3. proposal[o] \in Lifecycle!Outcomes
      BY <3>2 DEF TypeOK, Outcomes, Lifecycle!Outcomes
    <3> QED
      BY <3>1, <3>2, <3>3 DEF Lifecycle!Decide
  <2> QED
    BY <2>2, <2>3
<1>5. CASE Fails(o) \/ Poll(o) \/ Freeze(o) \/ ExplainUnsaved(o) \/ GateRefuses(o)
           \/ SavePayload(o) \/ ReadReports(o) \/ AttachReport(o) \/ CommitFails(o)
           \/ ReportSaved(o) \/ ReportSavedRaises(o)
  BY <1>5 DEF Fails, Poll, Freeze, ExplainUnsaved, GateRefuses, SavePayload, ReadReports, ReadRow,
              AttachReport, AttachTo, CommitFails, ReportSaved, ReportSavedRaises
<1> QED
  BY <1>1, <1>2, <1>3, <1>4, <1>5 DEF OpStep

(* Every run and report is an operation of the abstract registry: decided   *)
(* once, by a cancellation or by entering its commit, and no handler takes  *)
(* back what the registry has decided.                                      *)
THEOREM HistoryImplementsLifecycle == Spec => ImplementsLifecycle
<1>1. Init => Lifecycle!Init
  BY DEF Init, Lifecycle!Init
<1>2. TypeOK /\ HistoryInv /\ [Next]_vars => [Lifecycle!Next]_(Lifecycle!lifecycleVars)
  <2> SUFFICES ASSUME TypeOK, HistoryInv, [Next]_vars
               PROVE  Lifecycle!Next \/ UNCHANGED phase
    BY DEF Lifecycle!lifecycleVars
  <2>1. ASSUME NEW o \in Ops, OpStep(o) PROVE Lifecycle!Next \/ UNCHANGED phase
    BY <2>1, OpStepIsLifecycleStep DEF Lifecycle!Next
  <2>2. CASE UserStep \/ (\E time \in 0..MaxTime : SetClock(time)) \/ UNCHANGED vars
    BY <2>2 DEF UserStep, SetPinned, Delete, ClearUnpinned, Remove, Import, SetClock, vars, opVars
  <2> QED
    BY <2>1, <2>2 DEF Next
<1> QED
  BY <1>1, <1>2, TypeCorrect, HistoryInvariant, PTL DEF Spec, ImplementsLifecycle, Lifecycle!Spec
=============================================================================
