--------------------------- MODULE RunProcessProofs ---------------------------
(***************************************************************************)
(* What RunProcess promises of a run in a worker process, for any number of *)
(* runs: its end is told once and as it was, the registry holds it as long  *)
(* as the bridge is attached, and the data of a saved run is of one source, *)
(* to which the user agreed.                                                *)
(*                                                                          *)
(* An answer and an output line are in a pipe between the step that wrote   *)
(* them and the one that reads them, so each invariant follows its fact     *)
(* from the worker through the pipe and the bridge to the user.             *)
(***************************************************************************)
EXTENDS RunProcess, SequenceTheorems, TLAPS

(* What the bridge knows of its latest run: nothing is started while one    *)
(* runs, the end of a run is announced once, and the registry was told.     *)
BridgeInv ==
    /\ preflight # "none" => ~running /\ run < MaxRuns
    /\ attached => running /\ held = "none"
    /\ run = 0 => child = "none" /\ ~attached /\ held = "none" /\ ~pending
    /\ attached \/ held # "none" => reports[run] = 0
    /\ \A r \in Runs : r > run => reports[r] = 0 /\ opStatus[r] = "unknown"
    /\ ReportedOnce
    /\ ExecutingWhileAttached

(* A success, wherever it is on its way to the user, was committed.         *)
SuccessIsKnown ==
    \/ payload \in Saving
    \/ held \in Saving
    \/ child = "committed"
    \/ \E i \in DOMAIN stdout : stdout[i] \in Saving

SavedInv == ReadyIsSaved /\ (SuccessIsKnown => run \in SavedRuns)

(* What the worker holds is of one source, and of Yahoo by the user's word: *)
(* an acceptance on its way was given for this run.                         *)
ConsentInv ==
    /\ SourceIsConsented
    /\ child # "none" => \E s \in {"primary", "yahoo"} : sources = {s}
    /\ "yahoo" \in sources => forced \/ run \in accepted
    /\ decision = "accept" => run \in accepted
    /\ \A i \in DOMAIN stdin : stdin[i] = "accept" => run \in accepted

RunInv == BridgeInv /\ SavedInv /\ ConsentInv

-----------------------------------------------------------------------------
(* Types.                                                                   *)

LEMMA ReportedIsReport ==
    ASSUME BridgeTypes PROVE Reported("FAILED") \in Reports
BY DEF BridgeTypes, Reported, Reports, Saving

LEMMA FinalizeTypes ==
    ASSUME BridgeTypes, run \in Runs, NEW status \in Reports, Finalize(status)
    PROVE  /\ running' = FALSE /\ held' = "none"
           /\ shown' \in [Runs -> Reports \cup {"none"}]
           /\ reports' \in [Runs -> Nat]
<1>1. running' = FALSE /\ held' = "none"
  BY DEF Finalize
<1>2. shown' \in [Runs -> Reports \cup {"none"}]
  BY DEF Finalize, BridgeTypes
<1>3. reports' \in [Runs -> Nat]
  <2>1. reports[run] + 1 \in Nat
    BY DEF BridgeTypes
  <2> QED
    BY <2>1 DEF Finalize, BridgeTypes
<1> QED
  BY <1>1, <1>2, <1>3

(* What a step leaves alone keeps its type.                                 *)
LEMMA TypesFrame ==
    ASSUME TypeOK
    PROVE  /\ UNCHANGED bridgeVars => BridgeTypes'
           /\ UNCHANGED gateVars => GateTypes'
           /\ UNCHANGED registryVars => RegistryTypes'
           /\ UNCHANGED windowVars => WindowTypes'
           /\ UNCHANGED childVars => ChildTypes'
           /\ UNCHANGED accepted => accepted' \subseteq Runs
<1>1. UNCHANGED bridgeVars => BridgeTypes'
  BY DEF TypeOK, BridgeTypes, bridgeVars
<1>2. UNCHANGED gateVars => GateTypes'
  BY DEF TypeOK, GateTypes, gateVars
<1>3. UNCHANGED registryVars => RegistryTypes'
  BY DEF TypeOK, RegistryTypes, registryVars
<1>4. UNCHANGED windowVars => WindowTypes'
  BY DEF TypeOK, WindowTypes, windowVars
<1>5. UNCHANGED childVars => ChildTypes'
  BY DEF TypeOK, ChildTypes, childVars
<1> QED
  BY <1>1, <1>2, <1>3, <1>4, <1>5 DEF TypeOK

LEMMA NextTypeOK == TypeOK /\ BridgeInv /\ [Next]_vars => TypeOK'
<1> SUFFICES ASSUME TypeOK, BridgeInv, [Next]_vars PROVE TypeOK'
  OBVIOUS
<1> USE RunsAssumption, TypesFrame
<1>0. run # 0 => run \in Runs
  BY DEF TypeOK, BridgeTypes, Runs
<1>1. CASE UNCHANGED vars
  BY <1>1 DEF vars, TypeOK
<1>2. CASE Start \/ DismissBudget
  <2>1. BridgeTypes'
    BY <1>2 DEF Start, DismissBudget, TypeOK, BridgeTypes
  <2> QED
    BY <1>2, <2>1 DEF Start, DismissBudget, TypeOK
<1>3. ASSUME NEW f \in BOOLEAN, Launch(f), preflight # "none" PROVE TypeOK'
  <2>0. run' \in 0..MaxRuns
    BY <1>3 DEF Launch, LaunchWith, BridgeInv, TypeOK, BridgeTypes
  <2>1. BridgeTypes' /\ GateTypes'
    BY <1>3, <2>0 DEF Launch, LaunchWith, TypeOK, BridgeTypes, GateTypes
  <2>2. RegistryTypes'
    BY <1>3 DEF Launch, LaunchWith, TypeOK, RegistryTypes
  <2>3. stdout' \in Seq(Reports \cup {"fallback"}) /\ stdin' \in Seq({"accept", "decline"})
    BY <1>3, EmptySeq DEF Launch, LaunchWith
  <2>4. ChildTypes'
    BY <1>3, <2>3 DEF Launch, LaunchWith, TypeOK, ChildTypes
  <2> QED
    BY <1>3, <2>1, <2>2, <2>4 DEF Launch, LaunchWith, TypeOK
<1>4. CASE BudgetReturns
  <2>1. CASE Launch(FALSE)
    BY <1>3, <1>4, <2>1 DEF BudgetReturns
  <2>2. CASE ~Launch(FALSE)
    <3>1. BridgeTypes'
      BY <1>4, <2>2 DEF BudgetReturns, TypeOK, BridgeTypes
    <3> QED
      BY <1>4, <2>2, <3>1 DEF BudgetReturns, TypeOK
  <2> QED
    BY <2>1, <2>2
<1>5. CASE ConfirmBudget
  BY <1>3, <1>5 DEF ConfirmBudget

\* the worker
<1>6. ASSUME NEW from, NEW to \in {"notStarted", "working", "waiting", "committed", "done", "exited"},
             NEW out \in Seq(Reports \cup {"fallback"}), ChildStep(from, to, out),
             stdin' \in Seq({"accept", "decline"}), asked' \in BOOLEAN,
             sources' \subseteq {"primary", "yahoo"},
             saved' \subseteq [run : Runs, sources : SUBSET {"primary", "yahoo"}, forced : BOOLEAN],
             UNCHANGED <<crashed, sigterm, forced>>
      PROVE  TypeOK'
  <2>1. stdout' \in Seq(Reports \cup {"fallback"})
    BY <1>6, ConcatProperties DEF ChildStep, TypeOK, ChildTypes
  <2>2. ChildTypes'
    BY <1>6, <2>1 DEF ChildStep, TypeOK, ChildTypes
  <2> QED
    BY <1>6, <2>2 DEF ChildStep, TypeOK
<1>7. CASE ChildStarts \/ ChildCannotStart \/ ChildExits
  BY <1>6, <1>7, EmptySeq DEF ChildStarts, ChildCannotStart, ChildExits, TypeOK, ChildTypes
<1>8. CASE ChildAsks \/ ChildFails
  <2>1. /\ <<"fallback">> \in Seq(Reports \cup {"fallback"})
        /\ <<"FAILED">> \in Seq(Reports \cup {"fallback"})
    BY DEF Reports
  <2> QED
    BY <1>6, <1>8, <2>1 DEF ChildAsks, ChildFails, TypeOK, ChildTypes
<1>9. ASSUME NEW answer \in {"accept", "decline"}, ChildAnswered(answer) PROVE TypeOK'
  <2>1. stdin' \in Seq({"accept", "decline"})
    BY <1>9, HeadTailProperties DEF ChildAnswered, Answered, TypeOK, ChildTypes
  <2>2. sources' \subseteq {"primary", "yahoo"}
    BY <1>9 DEF ChildAnswered, Answered, TypeOK, ChildTypes
  <2> QED
    BY <1>6, <1>9, <2>1, <2>2, EmptySeq DEF ChildAnswered, Answered, TypeOK, ChildTypes
<1>10. CASE ChildCommits
  <2>1. run \in Runs
    BY <1>0, <1>10 DEF ChildCommits, ChildStep, BridgeInv
  <2>2. [run |-> run, sources |-> sources, forced |-> forced]
            \in [run : Runs, sources : SUBSET {"primary", "yahoo"}, forced : BOOLEAN]
    BY <2>1 DEF TypeOK, ChildTypes
  <2>3. saved' \subseteq [run : Runs, sources : SUBSET {"primary", "yahoo"}, forced : BOOLEAN]
    BY <1>10, <2>2 DEF ChildCommits, TypeOK, ChildTypes
  <2> QED
    BY <1>6, <1>10, <2>3, EmptySeq DEF ChildCommits, TypeOK, ChildTypes
<1>11. CASE ChildReports
  <2>1. PICK status \in Saving : ChildStep("committed", "done", <<status>>)
    BY <1>11 DEF ChildReports
  <2>2. <<status>> \in Seq(Reports \cup {"fallback"})
    BY DEF Reports
  <2> QED
    BY <1>6, <1>11, <2>1, <2>2 DEF ChildReports, TypeOK, ChildTypes
<1>12. CASE ChildDies
  <2>1. ChildTypes'
    BY <1>12 DEF ChildDies, TypeOK, ChildTypes
  <2> QED
    BY <1>12, <2>1 DEF ChildDies, TypeOK

\* the bridge
<1>13. CASE ReadOutput
  <2>1. Head(stdout) \in Reports \cup {"fallback"} /\ stdout' \in Seq(Reports \cup {"fallback"})
    BY <1>13, HeadTailProperties DEF ReadOutput, TypeOK, ChildTypes
  <2>2. stdin' \in Seq({"accept", "decline"})
    <3>1. CASE stdin' = stdin
      BY <3>1 DEF TypeOK, ChildTypes
    <3>2. CASE stdin' = Append(stdin, decision) /\ decision # "none"
      BY <3>2, AppendProperties DEF TypeOK, ChildTypes, GateTypes
    <3> QED
      BY <1>13, <3>1, <3>2 DEF ReadOutput
  <2>3. BridgeTypes' /\ GateTypes'
    BY <1>13, <2>1 DEF ReadOutput, TypeOK, BridgeTypes, GateTypes
  <2>4. ChildTypes'
    BY <1>13, <2>1, <2>2 DEF ReadOutput, TypeOK, ChildTypes
  <2> QED
    BY <1>13, <2>3, <2>4 DEF ReadOutput, TypeOK
<1>14. ASSUME NEW answer \in {"accept", "decline"}, Resolve(answer) PROVE TypeOK'
  <2>1. stdin' \in Seq({"accept", "decline"})
    BY <1>14, AppendProperties DEF Resolve, TypeOK, ChildTypes
  <2>2. accepted' \subseteq Runs
    BY <1>0, <1>14 DEF Resolve, TypeOK, BridgeInv
  <2>3. GateTypes' /\ ChildTypes'
    BY <1>14, <2>1 DEF Resolve, TypeOK, GateTypes, ChildTypes
  <2> QED
    BY <1>14, <2>2, <2>3 DEF Resolve, TypeOK
<1>15. CASE Cancel
  <2>1. stdin' \in Seq({"accept", "decline"})
    BY <1>15, AppendProperties DEF Cancel, TypeOK, ChildTypes
  <2>2. BridgeTypes' /\ GateTypes'
    BY <1>15 DEF Cancel, TypeOK, BridgeTypes, GateTypes
  <2>3. ChildTypes'
    BY <1>15, <2>1 DEF Cancel, TypeOK, ChildTypes
  <2> QED
    BY <1>15, <2>2, <2>3 DEF Cancel, TypeOK
<1>16. ASSUME NEW status \in Reports, NEW mayHold \in BOOLEAN,
              attached, EndRun(status, mayHold, TRUE),
              cancelRequested' \in BOOLEAN, payload' \in Reports \cup {"none"}, GateTypes'
       PROVE  TypeOK'
  <2>1. CASE opStatus[run] = "unknown"
    <3>1. BridgeTypes'
      BY <1>16, <2>1 DEF EndRun, TypeOK, BridgeTypes
    <3> QED
      BY <1>16, <2>1, <3>1 DEF EndRun, TypeOK
  <2>2. CASE opStatus[run] # "unknown"
    <3>1. RegistryTypes'
      BY <1>16, <2>2 DEF EndRun, Complete, TypeOK, RegistryTypes, Reports
    <3>2. /\ shown' \in [Runs -> Reports \cup {"none"}]
          /\ reports' \in [Runs -> Nat]
          /\ held' \in Saving \cup {"none"}
          /\ running' \in BOOLEAN
      <4>1. CASE Finalize(status)
        BY <1>0, <1>16, <4>1, FinalizeTypes DEF TypeOK, BridgeInv
      <4>2. CASE status \in Saving /\ held' = status /\ UNCHANGED <<running, shown, reports>>
        BY <4>2 DEF TypeOK, BridgeTypes
      <4> QED
        BY <1>16, <2>2, <4>1, <4>2 DEF EndRun
    <3>3. BridgeTypes'
      BY <1>16, <3>2 DEF EndRun, TypeOK, BridgeTypes
    <3> QED
      BY <1>16, <3>1, <3>3 DEF EndRun, TypeOK
  <2> QED
    BY <2>1, <2>2
<1>17. CASE OnFinished
  <2>1. (IF cancelRequested THEN "CANCELED" ELSE Reported("FAILED")) \in Reports
    BY ReportedIsReport DEF Reports, TypeOK
  <2>2. GateTypes'
    BY <1>17 DEF OnFinished, Finished, TypeOK, GateTypes, gateVars
  <2>3. "none" \in Reports \cup {"none"}
    OBVIOUS
  <2> QED
    BY <1>16, <1>17, <2>1, <2>2, <2>3 DEF OnFinished, Finished
<1>18. CASE OnError
  <2>1. /\ cancelRequested' \in BOOLEAN /\ payload' \in Reports \cup {"none"} /\ GateTypes'
        /\ attached /\ EndRun("FAILED", FALSE, TRUE)
    BY <1>18 DEF OnError, FailedBeforeFinished, TypeOK, BridgeTypes
  <2>2. "FAILED" \in Reports
    BY DEF Reports
  <2> QED
    BY <1>16, <2>1, <2>2
<1>19. CASE PresentationEnds
  <2>1. run \in Runs /\ held \in Reports
    BY <1>0, <1>19 DEF PresentationEnds, TypeOK, BridgeTypes, BridgeInv, Reports
  <2>2. BridgeTypes'
    BY <1>19, <2>1, FinalizeTypes DEF PresentationEnds, TypeOK, BridgeTypes
  <2> QED
    BY <1>19, <2>2 DEF PresentationEnds, TypeOK

\* the window and the other pages
<1>20. CASE OtherStarts \/ OtherEnds
  <2>1. RegistryTypes'
    BY <1>20 DEF OtherStarts, OtherEnds, TypeOK, RegistryTypes
  <2> QED
    BY <1>20, <2>1 DEF OtherStarts, OtherEnds, TypeOK
<1>21. CASE UserCloses \/ CloseAfterCancel
  <2>1. Active \in BOOLEAN
    BY DEF Active, TypeOK, RegistryTypes
  <2>2. RegistryTypes' /\ WindowTypes'
    BY <1>21, <2>1 DEF UserCloses, CloseAfterCancel, CloseWindow, TypeOK, RegistryTypes, WindowTypes
  <2> QED
    BY <1>21, <2>2 DEF UserCloses, CloseAfterCancel, CloseWindow, TypeOK
<1>22. CASE DismissCloseGuard \/ CancelAndClose
  <2>1. RegistryTypes' /\ WindowTypes'
    BY <1>22 DEF DismissCloseGuard, CancelAndClose, TypeOK, RegistryTypes, WindowTypes
  <2> QED
    BY <1>22, <2>1 DEF DismissCloseGuard, CancelAndClose, TypeOK
<1> QED
  BY <1>1, <1>2, <1>4, <1>5, <1>7, <1>8, <1>9, <1>10, <1>11, <1>12, <1>13, <1>14, <1>15,
     <1>17, <1>18, <1>19, <1>20, <1>21, <1>22 DEF Next, QtRuns, ChildRuns

-----------------------------------------------------------------------------
(* One run at a time, announced once, and held by the registry.             *)
LEMMA BridgeFrame ==
    ASSUME BridgeInv, UNCHANGED <<run, running, attached, held, reports, opStatus, executing>>,
           run = 0 => child' = "none" /\ ~pending',
           preflight' # "none" => preflight # "none" \/ (~running /\ run < MaxRuns)
    PROVE  BridgeInv'
BY DEF BridgeInv, ReportedOnce, ExecutingWhileAttached

LEMMA LaunchKeepsBridge ==
    ASSUME TypeOK, BridgeInv, NEW f \in BOOLEAN, Launch(f), preflight # "none"
    PROVE  BridgeInv'
<1>1. ~attached /\ run < MaxRuns /\ run \in Nat /\ run + 1 \in Runs
  BY RunsAssumption DEF BridgeInv, TypeOK, BridgeTypes, Runs
<1>2. /\ run' = run + 1 /\ preflight' = "none" /\ running' /\ attached' /\ held' = "none"
      /\ pending' = FALSE /\ reports' = reports
  BY DEF Launch, LaunchWith
<1>3. \A r \in Runs : r > run => reports[r] = 0 /\ opStatus[r] = "unknown"
  BY DEF BridgeInv
<1>4. /\ opStatus'[run + 1] = IF admissionOpen THEN "RUNNING" ELSE opStatus[run + 1]
      /\ executing'[run + 1] = admissionOpen
      /\ \A r \in Runs \ {run + 1} : opStatus'[r] = opStatus[r] /\ executing'[r] = executing[r]
  BY <1>1 DEF Launch, LaunchWith, TypeOK, RegistryTypes
<1>5. ReportedOnce'
  BY <1>2 DEF BridgeInv, ReportedOnce
<1>6. \A r \in Runs : r > run + 1 => reports[r] = 0 /\ opStatus'[r] = "unknown"
  BY <1>1, <1>3, <1>4 DEF Runs
<1>7. ExecutingWhileAttached'
  <2> SUFFICES ASSUME NEW r \in Runs
               PROVE  executing'[r] <=> r = run + 1 /\ opStatus'[r] # "unknown"
    BY <1>2 DEF ExecutingWhileAttached
  <2>1. CASE r = run + 1
    BY <1>1, <1>3, <1>4, <2>1
  <2>2. CASE r # run + 1
    BY <1>1, <1>4, <2>2 DEF BridgeInv, ExecutingWhileAttached
  <2> QED
    BY <2>1, <2>2
<1> QED
  BY <1>1, <1>2, <1>3, <1>5, <1>6, <1>7 DEF BridgeInv

(* The run is announced in this step, or held back, or, unknown to the      *)
(* registry, never.                                                         *)
LEMMA EndKeepsBridge ==
    ASSUME TypeOK, BridgeInv, attached, NEW status \in Reports, NEW mayHold \in BOOLEAN,
           EndRun(status, mayHold, TRUE), pending' \in BOOLEAN
    PROVE  BridgeInv'
<1>1. run \in Runs /\ held = "none" /\ reports[run] = 0
  BY DEF BridgeInv, TypeOK, BridgeTypes, Runs
<1>2. /\ ~attached' /\ UNCHANGED <<run, preflight, child>>
      /\ running' => running
  BY DEF EndRun, Finalize, childVars
<1>3. \A r \in Runs \ {run} : ~executing[r]
  BY DEF BridgeInv, ExecutingWhileAttached
<1>4. CASE opStatus[run] = "unknown"
  <2>1. UNCHANGED <<opStatus, executing, running, held, reports>>
    BY <1>4 DEF EndRun, registryVars
  <2> QED
    BY <1>1, <1>2, <1>4, <2>1 DEF BridgeInv, ReportedOnce, ExecutingWhileAttached
<1>5. CASE opStatus[run] # "unknown"
  <2>1. \A r \in Runs : ~executing'[r]
    BY <1>1, <1>3, <1>5 DEF EndRun, Complete, TypeOK, RegistryTypes
  <2>2. \A r \in Runs \ {run} : opStatus'[r] = opStatus[r]
    BY <1>1, <1>5 DEF EndRun, Complete, TypeOK, RegistryTypes
  <2>3. \/ held' = "none" /\ reports' = [reports EXCEPT ![run] = @ + 1]
        \/ held' # "none" /\ UNCHANGED reports
    BY <1>5 DEF EndRun, Finalize, Saving
  <2>4. /\ held' # "none" => reports'[run] = 0
        /\ \A r \in Runs \ {run} : reports'[r] = reports[r]
        /\ reports'[run] <= 1
    BY <1>1, <2>3 DEF TypeOK, BridgeTypes
  <2>5. ReportedOnce' /\ ExecutingWhileAttached'
    BY <1>2, <2>1, <2>4 DEF BridgeInv, ReportedOnce, ExecutingWhileAttached
  <2>6. \A r \in Runs : r > run => reports'[r] = 0 /\ opStatus'[r] = "unknown"
    BY <1>1, <2>2, <2>4 DEF BridgeInv, Runs
  <2> QED
    BY <1>1, <1>2, <2>4, <2>5, <2>6 DEF BridgeInv, Runs
<1> QED
  BY <1>4, <1>5

LEMMA NextBridge == TypeOK /\ BridgeInv /\ [Next]_vars => BridgeInv'
<1> SUFFICES ASSUME TypeOK, BridgeInv, [Next]_vars PROVE BridgeInv'
  OBVIOUS
<1> USE DEF bridgeVars, gateVars, registryVars, windowVars, childVars
<1>0. run = 0 => child = "none" /\ ~attached /\ held = "none" /\ ~pending
  BY DEF BridgeInv
<1>1. CASE UNCHANGED vars
  BY <1>1, <1>0, BridgeFrame DEF vars
<1>2. CASE Start \/ DismissBudget
  BY <1>0, <1>2, BridgeFrame DEF Start, DismissBudget
<1>3. CASE BudgetReturns
  <2>1. CASE Launch(FALSE)
    BY <1>3, <2>1, LaunchKeepsBridge DEF BudgetReturns
  <2>2. CASE ~Launch(FALSE)
    <3>1. /\ preflight # "none" /\ UNCHANGED <<gateVars, registryVars, childVars>>
          /\ UNCHANGED <<run, running, attached, held, reports>>
      BY <1>3, <2>2 DEF BudgetReturns
    <3> QED
      BY <1>0, <3>1, BridgeFrame
  <2> QED
    BY <2>1, <2>2
<1>4. CASE ConfirmBudget
  BY <1>4, LaunchKeepsBridge DEF ConfirmBudget
<1>5. CASE ChildRuns \/ ChildCannotStart \/ ChildDies
  <2>1. UNCHANGED <<bridgeVars, gateVars, registryVars>> /\ child # "none"
    BY <1>5 DEF ChildRuns, ChildStarts, ChildCannotStart, ChildAsks, ChildAnswered, Answered,
                ChildCommits, ChildReports, ChildFails, ChildExits, ChildDies, ChildStep, Alive
  <2> QED
    BY <1>0, <2>1, BridgeFrame
<1>6. CASE ReadOutput \/ Cancel
  BY <1>0, <1>6, BridgeFrame DEF ReadOutput, Cancel
<1>7. ASSUME NEW answer \in {"accept", "decline"}, Resolve(answer) PROVE BridgeInv'
  BY <1>0, <1>7, BridgeFrame DEF Resolve
<1>8. CASE OnFinished
  <2>1. (IF cancelRequested THEN "CANCELED" ELSE Reported("FAILED")) \in Reports
    BY ReportedIsReport DEF Reports, TypeOK
  <2>2. pending' \in BOOLEAN
    BY <1>8 DEF OnFinished, Finished, TypeOK, GateTypes
  <2> QED
    BY <1>8, <2>1, <2>2, EndKeepsBridge DEF OnFinished, Finished
<1>9. CASE OnError
  <2>1. "FAILED" \in Reports /\ pending' \in BOOLEAN
    BY <1>9 DEF OnError, FailedBeforeFinished, TypeOK, GateTypes, Reports
  <2> QED
    BY <1>9, <2>1, EndKeepsBridge DEF OnError, FailedBeforeFinished
<1>10. CASE PresentationEnds
  <2>1. run \in Runs /\ ~attached /\ reports[run] = 0
    BY <1>10 DEF PresentationEnds, BridgeInv, TypeOK, BridgeTypes, Runs
  <2>2. /\ running' = FALSE /\ held' = "none" /\ reports' = [reports EXCEPT ![run] = @ + 1]
        /\ UNCHANGED <<run, preflight, attached, opStatus, executing, child, pending>>
    BY <1>10 DEF PresentationEnds, Finalize
  <2>3. reports'[run] = 1 /\ \A r \in Runs \ {run} : reports'[r] = reports[r]
    BY <2>1, <2>2 DEF TypeOK, BridgeTypes
  <2>4. ReportedOnce' /\ ExecutingWhileAttached'
    BY <2>2, <2>3 DEF BridgeInv, ReportedOnce, ExecutingWhileAttached
  <2>5. \A r \in Runs : r > run => reports'[r] = 0
    BY <2>1, <2>3 DEF BridgeInv, Runs
  <2> QED
    BY <2>1, <2>2, <2>4, <2>5 DEF BridgeInv
<1>11. CASE OtherStarts \/ OtherEnds \/ UserCloses \/ DismissCloseGuard \/ CloseAfterCancel
  BY <1>0, <1>11, BridgeFrame
     DEF OtherStarts, OtherEnds, UserCloses, DismissCloseGuard, CloseAfterCancel, CloseWindow
<1>12. CASE CancelAndClose
  <2>1. /\ \A r \in Runs : opStatus'[r] = "unknown" <=> opStatus[r] = "unknown"
        /\ UNCHANGED <<bridgeVars, executing, child, pending>>
    BY <1>12 DEF CancelAndClose
  <2> QED
    BY <2>1 DEF BridgeInv, ReportedOnce, ExecutingWhileAttached
<1> QED
  BY <1>1, <1>2, <1>3, <1>4, <1>5, <1>6, <1>7, <1>8, <1>9, <1>10, <1>11, <1>12
     DEF Next, QtRuns

LEMMA InitOK == Init => TypeOK /\ BridgeInv
<1> SUFFICES ASSUME Init PROVE TypeOK /\ BridgeInv
  OBVIOUS
<1>1. BridgeTypes /\ GateTypes /\ RegistryTypes /\ WindowTypes
  <2>1. BridgeTypes
    <3>1. run \in 0..MaxRuns
      BY RunsAssumption DEF Init
    <3>2. shown \in [Runs -> Reports \cup {"none"}] /\ reports \in [Runs -> Nat]
      BY DEF Init
    <3> QED
      BY <3>1, <3>2 DEF Init, BridgeTypes
  <2>2. GateTypes /\ RegistryTypes /\ WindowTypes
    BY DEF Init, GateTypes, RegistryTypes, WindowTypes
  <2> QED
    BY <2>1, <2>2
<1>2. ChildTypes
  BY EmptySeq DEF Init, ChildTypes
<1>3. BridgeInv
  BY DEF Init, BridgeInv, ReportedOnce, ExecutingWhileAttached
<1> QED
  BY <1>1, <1>2, <1>3 DEF Init, TypeOK

(* What each stage of a run means for the process, its pipes, the registry  *)
(* and what the user was told (rs_run_bridge.py).                           *)
THEOREM TypesAndBridge == Spec => [](TypeOK /\ BridgeInv)
<1>1. TypeOK /\ BridgeInv /\ [Next]_vars => (TypeOK /\ BridgeInv)'
  BY NextTypeOK, NextBridge
<1> QED
  BY <1>1, InitOK, PTL DEF Spec

(* The page, the gate, the registry, the window and both ends of the        *)
(* process have their types (rs_run_bridge.py, cli.py).                     *)
THEOREM TypeCorrect == Spec => []TypeOK
BY TypesAndBridge, PTL

-----------------------------------------------------------------------------
(* A success is told of what is saved.                                      *)

(* A step that neither starts a run nor makes a success keeps SavedInv.     *)
LEMMA SavedFrame ==
    ASSUME SavedInv, run' = run, SavedRuns \subseteq SavedRuns',
           SuccessIsKnown' => SuccessIsKnown \/ run \in SavedRuns',
           \A r \in Runs : shown'[r] \in Saving => shown[r] \in Saving \/ r \in SavedRuns'
    PROVE  SavedInv'
BY DEF SavedInv, ReadyIsSaved

LEMMA SavedGrows == saved \subseteq saved' => SavedRuns \subseteq SavedRuns'
BY DEF SavedRuns

LEMMA ChildKeepsSaved ==
    ASSUME TypeOK, SavedInv, NEW from, NEW to, NEW out \in Seq(Reports \cup {"fallback"}),
           ChildStep(from, to, out), saved \subseteq saved',
           to = "committed" => run \in SavedRuns',
           \A i \in DOMAIN out : out[i] \in Saving => SuccessIsKnown
    PROVE  SavedInv'
<1>1. SavedRuns \subseteq SavedRuns'
  BY SavedGrows
<1>2. \A i \in DOMAIN stdout' : stdout'[i] \in Saving => SuccessIsKnown
  <2>1. stdout \in Seq(Reports \cup {"fallback"}) /\ stdout' = stdout \o out
    BY DEF TypeOK, ChildTypes, ChildStep
  <2> SUFFICES ASSUME NEW i \in DOMAIN stdout', stdout'[i] \in Saving PROVE SuccessIsKnown
    OBVIOUS
  <2>2. /\ i \in 1..(Len(stdout) + Len(out)) /\ Len(stdout) \in Nat /\ Len(out) \in Nat
        /\ stdout'[i] = IF i <= Len(stdout) THEN stdout[i] ELSE out[i - Len(stdout)]
        /\ DOMAIN stdout = 1..Len(stdout) /\ DOMAIN out = 1..Len(out)
    BY <2>1, ConcatProperties, LenProperties
  <2>3. CASE i <= Len(stdout)
    BY <2>2, <2>3 DEF SuccessIsKnown
  <2>4. CASE ~(i <= Len(stdout))
    <3>1. i - Len(stdout) \in DOMAIN out
      BY <2>2, <2>4
    <3> QED
      BY <2>2, <2>4, <3>1
  <2> QED
    BY <2>3, <2>4
<1>3. UNCHANGED <<run, payload, held, shown>> /\ child' = to
  BY DEF ChildStep, bridgeVars
<1>4. SuccessIsKnown' => SuccessIsKnown \/ run \in SavedRuns'
  BY <1>2, <1>3 DEF SuccessIsKnown
<1> QED
  BY <1>1, <1>3, <1>4, SavedFrame

LEMMA EndKeepsSaved ==
    ASSUME TypeOK, BridgeInv, SavedInv, attached, NEW status, NEW mayHold,
           EndRun(status, mayHold, TRUE), status \in Saving => SuccessIsKnown,
           payload' \in {payload, "none"}
    PROVE  SavedInv'
<1>1. run \in Runs /\ UNCHANGED <<run, childVars>>
  BY DEF EndRun, BridgeInv, TypeOK, BridgeTypes, Runs
<1>2. SavedRuns' = SavedRuns
  BY <1>1 DEF childVars, SavedRuns
<1>3. held' \in {held, "none"} \/ held' = status
  BY DEF EndRun, Finalize
<1>4. SuccessIsKnown' => SuccessIsKnown
  BY <1>1, <1>3 DEF SuccessIsKnown, childVars, Saving
<1>5. shown' = shown \/ shown' = [shown EXCEPT ![run] = status]
  BY DEF EndRun, Finalize
<1>6. \A r \in Runs : shown'[r] \in Saving => shown[r] \in Saving \/ r \in SavedRuns
  BY <1>1, <1>5 DEF TypeOK, BridgeTypes, SavedInv
<1> QED
  BY <1>1, <1>2, <1>4, <1>6, SavedFrame

LEMMA NextSaved == TypeOK /\ BridgeInv /\ SavedInv /\ [Next]_vars => SavedInv'
<1> SUFFICES ASSUME TypeOK, BridgeInv, SavedInv, [Next]_vars PROVE SavedInv'
  OBVIOUS
<1> USE DEF bridgeVars, gateVars, registryVars, windowVars, childVars
<1>0. ASSUME UNCHANGED <<run, shown, payload, held, child, saved, stdout>> PROVE SavedInv'
  BY <1>0 DEF SavedInv, ReadyIsSaved, SuccessIsKnown, SavedRuns
<1>a. <<>> \in Seq(Reports \cup {"fallback"}) /\ \A i \in DOMAIN <<>> : <<>>[i] \notin Saving
  OBVIOUS
<1>1. CASE UNCHANGED vars
  BY <1>0, <1>1 DEF vars
<1>2. CASE Start \/ DismissBudget
  BY <1>0, <1>2 DEF Start, DismissBudget
<1>3. ASSUME NEW f \in BOOLEAN, Launch(f) PROVE SavedInv'
  <2>1. ~SuccessIsKnown' /\ UNCHANGED <<shown, saved>>
    BY <1>3 DEF Launch, LaunchWith, SuccessIsKnown, Saving
  <2> QED
    BY <2>1 DEF SavedInv, ReadyIsSaved, SavedRuns
<1>4. CASE BudgetReturns
  <2>1. CASE Launch(FALSE)
    BY <1>3, <2>1
  <2>2. CASE ~Launch(FALSE)
    BY <1>0, <1>4, <2>2 DEF BudgetReturns
  <2> QED
    BY <2>1, <2>2
<1>5. CASE ConfirmBudget
  BY <1>3, <1>5 DEF ConfirmBudget
<1>6. CASE ChildStarts \/ ChildCannotStart \/ ChildExits
  BY <1>6, <1>a, ChildKeepsSaved DEF ChildStarts, ChildCannotStart, ChildExits
<1>7. CASE ChildAsks \/ ChildFails
  <2>1. ASSUME NEW m \in {"fallback", "FAILED"}
        PROVE  <<m>> \in Seq(Reports \cup {"fallback"}) /\ \A i \in DOMAIN <<m>> : <<m>>[i] \notin Saving
    BY DEF Reports, Saving
  <2>2. CASE ChildAsks
    BY <2>1, <2>2, ChildKeepsSaved DEF ChildAsks
  <2>3. CASE ChildFails
    BY <2>1, <2>3, ChildKeepsSaved DEF ChildFails
  <2> QED
    BY <1>7, <2>2, <2>3
<1>8. ASSUME NEW answer \in {"accept", "decline"}, ChildAnswered(answer) PROVE SavedInv'
  BY <1>8, <1>a, ChildKeepsSaved DEF ChildAnswered, Answered
<1>9. CASE ChildCommits
  <2> DEFINE row == [run |-> run, sources |-> sources, forced |-> forced]
  <2>1. row \in saved' /\ row.run = run /\ run' = run
    BY <1>9 DEF ChildCommits, ChildStep
  <2>2. run \in SavedRuns'
    BY <2>1 DEF SavedRuns
  <2> QED
    BY <1>9, <1>a, <2>2, ChildKeepsSaved DEF ChildCommits
<1>10. CASE ChildReports
  <2>1. PICK status \in Saving : ChildStep("committed", "done", <<status>>)
    BY <1>10 DEF ChildReports
  <2>2. <<status>> \in Seq(Reports \cup {"fallback"})
    BY DEF Reports
  <2>3. SuccessIsKnown
    BY <2>1 DEF ChildStep, SuccessIsKnown
  <2> QED
    BY <1>10, <2>1, <2>2, <2>3, ChildKeepsSaved DEF ChildReports
<1>11. CASE ChildDies
  <2>1. SuccessIsKnown' => SuccessIsKnown
    BY <1>11 DEF ChildDies, SuccessIsKnown
  <2> QED
    BY <1>11, <2>1 DEF ChildDies, SavedInv, ReadyIsSaved, SavedRuns
<1>12. CASE ReadOutput
  <2>1. /\ stdout \in Seq(Reports \cup {"fallback"}) /\ stdout # <<>> /\ stdout' = Tail(stdout)
        /\ payload' \in {payload, Head(stdout)}
        /\ UNCHANGED <<run, held, shown, child, saved>>
    BY <1>12 DEF ReadOutput, TypeOK, ChildTypes
  <2>2. \A i \in DOMAIN stdout' : i + 1 \in DOMAIN stdout /\ stdout'[i] = stdout[i + 1]
    BY <2>1, HeadTailProperties, LenProperties
  <2>3. 1 \in DOMAIN stdout /\ Head(stdout) = stdout[1]
    BY <2>1, LenProperties, EmptySeq
  <2>4. SuccessIsKnown' => SuccessIsKnown
    BY <2>1, <2>2, <2>3 DEF SuccessIsKnown
  <2> QED
    BY <2>1, <2>4 DEF SavedInv, ReadyIsSaved, SavedRuns
<1>13. ASSUME NEW answer \in {"accept", "decline"}, Resolve(answer) PROVE SavedInv'
  BY <1>0, <1>13 DEF Resolve
<1>14. CASE Cancel
  BY <1>0, <1>14 DEF Cancel
<1>15. CASE OnFinished
  <2>1. (IF cancelRequested THEN "CANCELED" ELSE Reported("FAILED")) \in Saving => SuccessIsKnown
    BY DEF Reported, SuccessIsKnown, Saving
  <2> QED
    BY <1>15, <2>1, EndKeepsSaved DEF OnFinished, Finished
<1>16. CASE OnError
  <2>1. "FAILED" \notin Saving
    BY DEF Saving
  <2> QED
    BY <1>16, <2>1, EndKeepsSaved DEF OnError, FailedBeforeFinished
<1>17. CASE PresentationEnds
  <2>1. run \in Runs /\ held \in Saving
    BY <1>17 DEF PresentationEnds, BridgeInv, TypeOK, BridgeTypes, Runs
  <2>2. run \in SavedRuns
    BY <2>1 DEF SavedInv, SuccessIsKnown
  <2>3. /\ held' = "none" /\ shown' = [shown EXCEPT ![run] = held]
        /\ UNCHANGED <<run, payload, child, stdout, saved>>
    BY <1>17 DEF PresentationEnds, Finalize
  <2>4. \A r \in Runs \ {run} : shown'[r] = shown[r]
    BY <2>3 DEF TypeOK, BridgeTypes
  <2> QED
    BY <2>2, <2>3, <2>4 DEF SavedInv, ReadyIsSaved, SavedRuns
<1>18. CASE OtherStarts \/ OtherEnds
  BY <1>0, <1>18 DEF OtherStarts, OtherEnds
<1>19. CASE UserCloses \/ CloseAfterCancel
  BY <1>0, <1>19 DEF UserCloses, CloseAfterCancel, CloseWindow
<1>20. CASE DismissCloseGuard \/ CancelAndClose
  BY <1>0, <1>20 DEF DismissCloseGuard, CancelAndClose
<1> QED
  BY <1>1, <1>2, <1>4, <1>5, <1>6, <1>7, <1>8, <1>9, <1>10, <1>11, <1>12, <1>13, <1>14, <1>15,
     <1>16, <1>17, <1>18, <1>19, <1>20 DEF Next, QtRuns, ChildRuns

(* A run shown as complete is in the history, its end is shown once, and    *)
(* the registry is busy exactly while the bridge holds the process          *)
(* (rs_run_bridge.py _on_finished, _on_run_process_error).                  *)
THEOREM PageIsRight == Spec => []PageTellsItsRun
<1>1. Init => SavedInv
  BY DEF Init, SavedInv, ReadyIsSaved, SuccessIsKnown, Saving
<1>2. TypeOK /\ BridgeInv /\ SavedInv /\ [Next]_vars => SavedInv'
  BY NextSaved
<1>3. BridgeInv /\ SavedInv => PageTellsItsRun
  BY DEF BridgeInv, SavedInv, PageTellsItsRun
<1> QED
  BY <1>1, <1>2, <1>3, TypesAndBridge, PTL DEF Spec

-----------------------------------------------------------------------------
(* The source of a saved run.                                               *)
LEMMA ConsentFrame ==
    ASSUME ConsentInv,
           UNCHANGED <<run, saved, child, sources, forced, accepted, decision, stdin>>
    PROVE  ConsentInv'
BY DEF ConsentInv, SourceIsConsented, SingleSource, YahooNeedsConsent

LEMMA WorkerKeepsConsent ==
    ASSUME ConsentInv, child # "none", UNCHANGED <<run, saved, sources, forced, decision, stdin, accepted>>
    PROVE  ConsentInv'
BY DEF ConsentInv, SourceIsConsented, SingleSource, YahooNeedsConsent

(* An answer enters the pipe only when it was given for this run.           *)
LEMMA AnswerKeepsConsent ==
    ASSUME TypeOK, ConsentInv, NEW answer \in {"accept", "decline"},
           stdin' \in {stdin, Append(stdin, answer)}, decision' \in {decision, answer, "decline"},
           answer = "accept" => run \in accepted',
           accepted \subseteq accepted', UNCHANGED <<run, saved, child, sources, forced>>
    PROVE  ConsentInv'
<1>1. \A i \in DOMAIN stdin' : stdin'[i] = "accept" => run \in accepted'
  <2>1. CASE stdin' = stdin
    BY <2>1 DEF ConsentInv
  <2>2. CASE stdin' = Append(stdin, answer)
    <3>1. stdin \in Seq({"accept", "decline"})
      BY DEF TypeOK, ChildTypes
    <3> SUFFICES ASSUME NEW i \in DOMAIN stdin', stdin'[i] = "accept" PROVE run \in accepted'
      OBVIOUS
    <3>2. /\ i \in 1..(Len(stdin) + 1) /\ Len(stdin) \in Nat /\ DOMAIN stdin = 1..Len(stdin)
          /\ i \in 1..Len(stdin) => stdin'[i] = stdin[i]
          /\ stdin'[Len(stdin) + 1] = answer
      BY <2>2, <3>1, AppendProperties, LenProperties
    <3>3. CASE i \in 1..Len(stdin)
      BY <3>2, <3>3 DEF ConsentInv
    <3>4. CASE i = Len(stdin) + 1
      BY <3>2, <3>4
    <3> QED
      BY <3>2, <3>3, <3>4
  <2> QED
    BY <2>1, <2>2
<1>2. decision' = "accept" => run \in accepted'
  BY DEF ConsentInv
<1>3. SourceIsConsented'
  BY DEF ConsentInv, SourceIsConsented, SingleSource, YahooNeedsConsent
<1> QED
  BY <1>1, <1>2, <1>3 DEF ConsentInv

LEMMA NextConsent == TypeOK /\ BridgeInv /\ ConsentInv /\ [Next]_vars => ConsentInv'
<1> SUFFICES ASSUME TypeOK, BridgeInv, ConsentInv, [Next]_vars PROVE ConsentInv'
  OBVIOUS
<1> USE DEF bridgeVars, gateVars, registryVars, windowVars, childVars
<1>1. CASE UNCHANGED vars
  BY <1>1, ConsentFrame DEF vars
<1>2. CASE Start \/ DismissBudget
  BY <1>2, ConsentFrame DEF Start, DismissBudget
<1>3. ASSUME NEW f \in BOOLEAN, Launch(f) PROVE ConsentInv'
  <2>1. /\ sources' = {IF f THEN "yahoo" ELSE "primary"} /\ forced' = f
        /\ decision' = "none" /\ stdin' = <<>> /\ UNCHANGED <<saved, accepted>>
    BY <1>3 DEF Launch, LaunchWith
  <2> QED
    BY <2>1 DEF ConsentInv, SourceIsConsented, SingleSource, YahooNeedsConsent
<1>4. CASE BudgetReturns
  <2>1. CASE Launch(FALSE)
    BY <1>3, <2>1
  <2>2. CASE ~Launch(FALSE)
    BY <1>4, <2>2, ConsentFrame DEF BudgetReturns
  <2> QED
    BY <2>1, <2>2
<1>5. ConfirmBudget => ConsentInv'
  BY <1>3 DEF ConfirmBudget
<1>6. CASE ChildStarts \/ ChildCannotStart \/ ChildAsks \/ ChildReports \/ ChildFails \/ ChildExits
           \/ ChildDies
  <2>1. child # "none" /\ UNCHANGED <<run, saved, sources, forced, decision, stdin, accepted>>
    BY <1>6 DEF ChildStarts, ChildCannotStart, ChildAsks, ChildReports, ChildFails, ChildExits,
                ChildDies, ChildStep, Alive
  <2> QED
    BY <2>1, WorkerKeepsConsent
<1>7. ASSUME NEW answer \in {"accept", "decline"}, ChildAnswered(answer) PROVE ConsentInv'
  <2>1. /\ child = "waiting" /\ stdin # <<>> /\ answer = Head(stdin) /\ stdin' = Tail(stdin)
        /\ sources' = IF answer = "accept" THEN {"yahoo"} ELSE sources
        /\ UNCHANGED <<run, saved, forced, decision, accepted>>
    BY <1>7 DEF ChildAnswered, Answered, ChildStep
  <2>2. stdin \in Seq({"accept", "decline"})
    BY DEF TypeOK, ChildTypes
  <2>3. \A i \in DOMAIN stdin' : i + 1 \in DOMAIN stdin /\ stdin'[i] = stdin[i + 1]
    BY <2>1, <2>2, HeadTailProperties, LenProperties
  <2>4. 1 \in DOMAIN stdin /\ Head(stdin) = stdin[1]
    BY <2>1, <2>2, LenProperties, EmptySeq
  <2>5. answer = "accept" => run \in accepted
    BY <2>1, <2>4 DEF ConsentInv
  <2>6. SourceIsConsented'
    BY <2>1 DEF ConsentInv, SourceIsConsented, SingleSource, YahooNeedsConsent
  <2>7. /\ child' # "none" => \E s \in {"primary", "yahoo"} : sources' = {s}
        /\ "yahoo" \in sources' => forced \/ run \in accepted
    BY <2>1, <2>5 DEF ConsentInv
  <2>8. \A i \in DOMAIN stdin' : stdin'[i] = "accept" => run \in accepted
    BY <2>3 DEF ConsentInv
  <2> QED
    BY <2>1, <2>6, <2>7, <2>8 DEF ConsentInv
<1>8. CASE ChildCommits
  <2>1. /\ child # "none" /\ saved' = saved \cup {[run |-> run, sources |-> sources, forced |-> forced]}
        /\ UNCHANGED <<run, sources, forced, decision, stdin, accepted>>
    BY <1>8 DEF ChildCommits, ChildStep
  <2>2. SourceIsConsented'
    BY <2>1 DEF ConsentInv, SourceIsConsented, SingleSource, YahooNeedsConsent
  <2> QED
    BY <2>1, <2>2 DEF ConsentInv
<1>9. CASE ReadOutput
  <2>1. UNCHANGED <<run, saved, child, sources, forced, accepted, decision>>
    BY <1>9 DEF ReadOutput
  <2>a. stdin' = stdin \/ (decision # "none" /\ stdin' = Append(stdin, decision))
    BY <1>9 DEF ReadOutput
  <2>2. CASE stdin' = stdin
    BY <2>1, <2>2, ConsentFrame
  <2>3. CASE decision # "none" /\ stdin' = Append(stdin, decision)
    <3>1. decision \in {"accept", "decline"} /\ decision = "accept" => run \in accepted
      BY <2>3 DEF TypeOK, GateTypes, ConsentInv
    <3> QED
      BY <2>1, <2>3, <3>1, AnswerKeepsConsent DEF TypeOK, GateTypes
  <2> QED
    BY <2>a, <2>2, <2>3
<1>10. ASSUME NEW answer \in {"accept", "decline"}, Resolve(answer) PROVE ConsentInv'
  <2>1. /\ stdin' \in {stdin, Append(stdin, answer)} /\ decision' = answer
        /\ answer = "accept" => run \in accepted'
        /\ accepted \subseteq accepted' /\ UNCHANGED <<run, saved, child, sources, forced>>
    BY <1>10 DEF Resolve
  <2> QED
    BY <2>1, AnswerKeepsConsent
<1>11. CASE Cancel
  <2>1. /\ stdin' \in {stdin, Append(stdin, "decline")} /\ decision' \in {decision, "decline"}
        /\ UNCHANGED <<run, saved, child, sources, forced, accepted>>
    BY <1>11 DEF Cancel
  <2> QED
    BY <2>1, AnswerKeepsConsent
<1>12. CASE OnFinished \/ OnError
  <2>1. /\ stdin' = stdin /\ decision' \in {decision, "decline"}
        /\ UNCHANGED <<run, saved, child, sources, forced, accepted>>
    BY <1>12 DEF OnFinished, Finished, OnError, FailedBeforeFinished, EndRun
  <2> QED
    BY <2>1, AnswerKeepsConsent
<1>13. CASE PresentationEnds
  BY <1>13, ConsentFrame DEF PresentationEnds
<1>14. CASE OtherStarts \/ OtherEnds
  BY <1>14, ConsentFrame DEF OtherStarts, OtherEnds
<1>15. CASE UserCloses \/ CloseAfterCancel
  BY <1>15, ConsentFrame DEF UserCloses, CloseAfterCancel, CloseWindow
<1>16. CASE DismissCloseGuard \/ CancelAndClose
  BY <1>16, ConsentFrame DEF DismissCloseGuard, CancelAndClose
<1> QED
  BY <1>1, <1>2, <1>4, <1>5, <1>6, <1>7, <1>8, <1>9, <1>10, <1>11, <1>12, <1>13, <1>14, <1>15,
     <1>16 DEF Next, QtRuns, ChildRuns

(* A saved run is of one source, and of Yahoo only by the consent given for *)
(* this very run (fallback_consent.py, core/market_data/fallback.py).       *)
THEOREM ConsentIsKept == Spec => []SourceIsConsented
<1>1. Init => ConsentInv
  BY DEF Init, ConsentInv, SourceIsConsented, SingleSource, YahooNeedsConsent
<1>2. TypeOK /\ BridgeInv /\ ConsentInv /\ [Next]_vars => ConsentInv'
  BY NextConsent
<1>3. ConsentInv => SourceIsConsented
  BY DEF ConsentInv
<1> QED
  BY <1>1, <1>2, <1>3, TypesAndBridge, PTL DEF Spec
=============================================================================
