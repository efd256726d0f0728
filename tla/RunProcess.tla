----------------------------- MODULE RunProcess -----------------------------
(***************************************************************************)
(* An analysis that runs in a worker process: the RS bridge on the Qt       *)
(* thread (desktop_qml/rs_run_bridge.py), the consent gate it shows         *)
(* (fallback_consent.py), the CLI worker (cli.py, _rs_strength_worker) with *)
(* the restart on Yahoo of composition.run, the two pipes between them, and *)
(* the close guard of the window.                                           *)
(*                                                                          *)
(* Everything the bridge and the shell do happens on the Qt thread, one     *)
(* slot at a time.  The worker runs at its own speed and dies wherever      *)
(* SIGTERM finds it, some steps after it was sent: the program installs no  *)
(* handler for it.                                                          *)
(***************************************************************************)
EXTENDS Naturals, Sequences

CONSTANT MaxRuns      \* runs started in one session of the model
ASSUME RunsAssumption == MaxRuns \in Nat \ {0}

Runs == 1..MaxRuns
Saving == {"READY", "PARTIAL"}
Reports == Saving \cup {"FAILED", "CANCELED"}

VARIABLES
    \* the bridge
    run,             \* number of the latest run
    preflight,       \* the resource budget check that precedes it
    running,         \* _running
    attached,        \* _run_process is not None
    cancelRequested, \* _run_cancel_requested
    payload,         \* _run_process_result, the status it carries
    held,            \* _pending_result: a success held back by the stage display
    shown,           \* what _finalize_finished told the user of each run
    reports,         \* how often it did
    \* the consent gate of the current run
    decision, pending,
    \* the registry, as far as these runs use it
    opStatus, executing, admissionOpen,
    otherActive,     \* an operation of another page
    \* the window
    window, guardOpen, closeAfterCancel,
    \* the worker process of the current run, and the database
    child, crashed, sigterm, forced, asked, sources, stdout, stdin, saved,
    \* runs whose offer the user accepted, for the properties
    accepted

bridgeVars == <<run, preflight, running, attached, cancelRequested, payload, held, shown, reports>>
gateVars   == <<decision, pending>>
registryVars == <<opStatus, executing, admissionOpen, otherActive>>
windowVars == <<window, guardOpen, closeAfterCancel>>
childVars  == <<child, crashed, sigterm, forced, asked, sources, stdout, stdin, saved>>
vars == <<bridgeVars, gateVars, registryVars, windowVars, childVars, accepted>>

Init ==
    /\ run = 0 /\ preflight = "none" /\ running = FALSE /\ attached = FALSE
    /\ cancelRequested = FALSE /\ payload = "none" /\ held = "none"
    /\ shown = [r \in Runs |-> "none"] /\ reports = [r \in Runs |-> 0]
    /\ decision = "none" /\ pending = FALSE
    /\ opStatus = [r \in Runs |-> "unknown"]
    /\ executing = [r \in Runs |-> FALSE]
    /\ admissionOpen = TRUE /\ otherActive = FALSE
    /\ window = "open" /\ guardOpen = FALSE /\ closeAfterCancel = FALSE
    /\ child = "none" /\ crashed = FALSE /\ sigterm = FALSE
    /\ forced = FALSE /\ asked = FALSE /\ sources = {}
    /\ stdout = <<>> /\ stdin = <<>> /\ saved = {}
    /\ accepted = {}

Active == otherActive \/ \E r \in Runs : executing[r]

(* The close guard covers the pages (z 2000, modal): their buttons cannot   *)
(* be reached while it is up.                                               *)
QtAlive == window = "open"
PagesReachable == QtAlive /\ ~guardOpen

-----------------------------------------------------------------------------
(* Starting a run.                                                          *)

Start ==
    /\ PagesReachable
    /\ ~running
    /\ preflight # "checking"
    /\ run < MaxRuns
    /\ preflight' = "checking"
    /\ UNCHANGED <<run, running, attached, cancelRequested, payload, held, shown, reports>>
    /\ UNCHANGED <<gateVars, registryVars, windowVars, childVars, accepted>>

LaunchWith(forceYahoo, nextDecision) ==
    /\ run' = run + 1
    /\ preflight' = "none"
    /\ running' = TRUE
    /\ attached' = TRUE
    /\ cancelRequested' = FALSE
    /\ payload' = "none"
    /\ held' = "none"
    /\ decision' = nextDecision
    /\ pending' = FALSE
    /\ opStatus' = [opStatus EXCEPT ![run + 1] = IF admissionOpen THEN "RUNNING" ELSE @]
    /\ executing' = [executing EXCEPT ![run + 1] = admissionOpen]
    /\ child' = "starting"
    /\ crashed' = FALSE
    /\ sigterm' = FALSE
    /\ forced' = forceYahoo
    /\ asked' = FALSE
    /\ sources' = {IF forceYahoo THEN "yahoo" ELSE "primary"}
    /\ stdout' = <<>>
    /\ stdin' = <<>>
    /\ UNCHANGED <<shown, reports, admissionOpen, otherActive, saved, windowVars, accepted>>

FaultyLaunchKeepsGate(forceYahoo) == LaunchWith(forceYahoo, decision)

(* _launch_run: a fresh gate, a reservation whose result is not looked at,  *)
(* and the process.                                                         *)
Launch(forceYahoo) == LaunchWith(forceYahoo, "none")

(* _on_budget_finished runs whenever the check returns, even under a guard. *)
BudgetReturns ==
    /\ QtAlive
    /\ preflight = "checking"
    /\ \/ Launch(FALSE)
       \/ /\ preflight' \in {"confirm", "none"}
          /\ UNCHANGED <<run, running, attached, cancelRequested, payload, held, shown, reports>>
          /\ UNCHANGED <<gateVars, registryVars, windowVars, childVars, accepted>>

ConfirmBudget ==
    /\ PagesReachable
    /\ preflight = "confirm"
    /\ ~running
    /\ \E forceYahoo \in BOOLEAN : Launch(forceYahoo)

DismissBudget ==
    /\ PagesReachable
    /\ preflight = "confirm"
    /\ preflight' = "none"
    /\ UNCHANGED <<run, running, attached, cancelRequested, payload, held, shown, reports>>
    /\ UNCHANGED <<gateVars, registryVars, windowVars, childVars, accepted>>

-----------------------------------------------------------------------------
(* The worker process.                                                      *)

Alive == child \in {"starting", "working", "waiting", "committed", "done"}

ChildStep(from, to, newOut) ==
    /\ child = from
    /\ child' = to
    /\ stdout' = stdout \o newOut
    /\ UNCHANGED <<bridgeVars, gateVars, registryVars, windowVars, accepted>>

ChildStarts ==
    /\ ChildStep("starting", "working", <<>>)
    /\ UNCHANGED <<crashed, sigterm, forced, asked, sources, stdin, saved>>

(* The executable cannot be started: errorOccurred, never finished.         *)
ChildCannotStart ==
    /\ ChildStep("starting", "notStarted", <<>>)
    /\ UNCHANGED <<crashed, sigterm, forced, asked, sources, stdin, saved>>

(* Eligible failures of the primary source: FallbackSession asks once, and  *)
(* not at all when the run was forced to Yahoo.                             *)
ChildAsks ==
    /\ ~forced /\ ~asked
    /\ ChildStep("working", "waiting", <<"fallback">>)
    /\ asked' = TRUE
    /\ UNCHANGED <<crashed, sigterm, forced, sources, stdin, saved>>

Answered(answer, newSources) ==
    /\ stdin # <<>>
    /\ answer = Head(stdin)
    /\ ChildStep("waiting", "working", <<>>)
    /\ stdin' = Tail(stdin)
    /\ sources' = IF answer = "accept" THEN newSources ELSE sources
    /\ UNCHANGED <<crashed, sigterm, forced, asked, saved>>

FaultyChildMerges(answer) == Answered(answer, sources \cup {"yahoo"})

(* WholeRunFallbackRequested discards the primary work and starts again.    *)
ChildAnswered(answer) == Answered(answer, {"yahoo"})

(* The run's transaction commits; killed before that it leaves no trace.    *)
ChildCommits ==
    /\ ChildStep("working", "committed", <<>>)
    /\ saved' = saved \cup {[run |-> run, sources |-> sources, forced |-> forced]}
    /\ UNCHANGED <<crashed, sigterm, forced, asked, sources, stdin>>

ChildReports ==
    /\ \E status \in Saving : ChildStep("committed", "done", <<status>>)
    /\ UNCHANGED <<crashed, sigterm, forced, asked, sources, stdin, saved>>

(* No reliable result, a failed save or an exception.                       *)
ChildFails ==
    /\ ChildStep("working", "done", <<"FAILED">>)
    /\ UNCHANGED <<crashed, sigterm, forced, asked, sources, stdin, saved>>

ChildExits ==
    /\ ChildStep("done", "exited", <<>>)
    /\ UNCHANGED <<crashed, sigterm, forced, asked, sources, stdin, saved>>

(* Killed by a pending SIGTERM, or by a fault of its own.                   *)
ChildDies ==
    /\ Alive
    /\ child' = "exited"
    /\ crashed' = TRUE
    /\ UNCHANGED <<sigterm, forced, asked, sources, stdout, stdin, saved>>
    /\ UNCHANGED <<bridgeVars, gateVars, registryVars, windowVars, accepted>>

-----------------------------------------------------------------------------
(* The bridge while the worker runs.                                        *)

FaultyReadOutput ==
    /\ QtAlive /\ attached
    /\ stdout # <<>>
    /\ stdout' = Tail(stdout)
    /\ payload' = Head(stdout)
    /\ UNCHANGED <<run, preflight, running, attached, cancelRequested, held, shown, reports>>
    /\ UNCHANGED <<gateVars, registryVars, windowVars, accepted>>
    /\ UNCHANGED <<child, crashed, sigterm, forced, asked, sources, stdin, saved>>

(* _consume_run_process_line.  A decision taken before the offer arrives is *)
(* sent at once (present).                                                  *)
ReadOutput ==
    /\ QtAlive /\ attached
    /\ stdout # <<>>
    /\ stdout' = Tail(stdout)
    /\ IF Head(stdout) = "fallback"
       THEN /\ pending' = (decision = "none")
            /\ stdin' = IF decision = "none" THEN stdin ELSE Append(stdin, decision)
            /\ UNCHANGED payload
       ELSE payload' = Head(stdout) /\ UNCHANGED <<pending, stdin>>
    /\ UNCHANGED <<run, preflight, running, attached, cancelRequested, held, shown, reports>>
    /\ UNCHANGED <<decision, registryVars, windowVars, accepted>>
    /\ UNCHANGED <<child, crashed, sigterm, forced, asked, sources, saved>>

(* The user answers the offer; the gate takes one decision per run.         *)
Resolve(answer) ==
    /\ PagesReachable
    /\ pending /\ decision = "none"
    /\ decision' = answer
    /\ pending' = FALSE
    /\ stdin' = IF attached THEN Append(stdin, answer) ELSE stdin
    /\ accepted' = IF answer = "accept" THEN accepted \cup {run} ELSE accepted
    /\ UNCHANGED <<bridgeVars, registryVars, windowVars>>
    /\ UNCHANGED <<child, crashed, sigterm, forced, asked, sources, stdout, saved>>

(* A cancellation that only raises its flag.                                *)
FaultyCancel ==
    /\ PagesReachable
    /\ attached
    /\ cancelRequested' = TRUE
    /\ UNCHANGED <<run, preflight, running, attached, payload, held, shown, reports>>
    /\ UNCHANGED <<gateVars, registryVars, windowVars, childVars, accepted>>

(* cancel(), from its button or from "open network settings": the gate      *)
(* declines, then the process is terminated.                                *)
Cancel ==
    /\ PagesReachable
    /\ attached
    /\ cancelRequested' = TRUE
    /\ decision' = IF decision = "none" THEN "decline" ELSE decision
    /\ stdin' = IF decision = "none" THEN Append(stdin, "decline") ELSE stdin
    /\ pending' = FALSE
    /\ sigterm' = TRUE
    /\ UNCHANGED <<run, preflight, running, attached, payload, held, shown, reports>>
    /\ UNCHANGED <<registryVars, windowVars, accepted>>
    /\ UNCHANGED <<child, crashed, forced, asked, sources, stdout, saved>>

(* try_complete on the run's operation: an earlier cancellation wins.       *)
Complete(terminal) ==
    /\ opStatus' = [opStatus EXCEPT ![run] = IF @ = "RUNNING" THEN terminal ELSE @]
    /\ executing' = [executing EXCEPT ![run] = FALSE]
    /\ UNCHANGED <<admissionOpen, otherActive>>

Finalize(status) ==
    /\ running' = FALSE
    /\ held' = "none"
    /\ shown' = [shown EXCEPT ![run] = status]
    /\ reports' = [reports EXCEPT ![run] = @ + 1]

(* The end of a process slot.  An operation the registry does not know      *)
(* makes try_complete raise, and nothing after it happens.                  *)
EndRun(status, mayHold, detached) ==
    /\ attached' = ~detached
    /\ IF opStatus[run] = "unknown"
       THEN UNCHANGED <<registryVars, running, held, shown, reports>>
       ELSE /\ Complete(IF status \in Saving THEN "SUCCEEDED" ELSE status)
            /\ \/ Finalize(status)
               \/ /\ mayHold /\ status \in Saving
                  /\ held' = status
                  /\ UNCHANGED <<running, shown, reports>>
    /\ UNCHANGED <<run, preflight, windowVars, childVars, accepted>>

(* What a finished worker reported, once the rest of its output is read.    *)
Reported(default) == IF payload = "none" THEN default ELSE payload

Finished(default) ==
    /\ QtAlive /\ attached
    /\ child = "exited"
    /\ stdout = <<>>
    /\ cancelRequested' = FALSE
    /\ payload' = "none"
    /\ EndRun(IF cancelRequested THEN "CANCELED" ELSE Reported(default), TRUE, TRUE)
    /\ IF opStatus[run] = "unknown"
       THEN UNCHANGED gateVars
       ELSE /\ decision' = IF decision = "none" THEN "decline" ELSE decision
            /\ pending' = FALSE

FaultyOnFinished == Finished("READY")

(* _on_run_process_finished reads the remaining output first.               *)
OnFinished == Finished("FAILED")

FailedBeforeFinished(detached) ==
    /\ QtAlive /\ attached
    /\ child = "notStarted" \/ (child = "exited" /\ crashed)
    /\ EndRun("FAILED", FALSE, detached)
    /\ UNCHANGED <<cancelRequested, payload, gateVars>>

FaultyOnErrorStaysAttached == FailedBeforeFinished(FALSE)

(* _on_run_process_error acts when the process is no longer running: it     *)
(* could not be started, or it crashed and Qt reports that first.           *)
OnError == FailedBeforeFinished(TRUE)

FaultyPresentationEnds ==
    /\ QtAlive
    /\ held # "none"
    /\ running' = FALSE
    /\ shown' = [shown EXCEPT ![run] = held]
    /\ reports' = [reports EXCEPT ![run] = @ + 1]
    /\ UNCHANGED <<run, preflight, attached, cancelRequested, payload, held>>
    /\ UNCHANGED <<gateVars, registryVars, windowVars, childVars, accepted>>

(* _advance_stage_presentation shows the last queued stage, then the result.*)
PresentationEnds ==
    /\ QtAlive
    /\ held # "none"
    /\ Finalize(held)
    /\ UNCHANGED <<run, preflight, attached, cancelRequested, payload>>
    /\ UNCHANGED <<gateVars, registryVars, windowVars, childVars, accepted>>

-----------------------------------------------------------------------------
(* The window and the operations of other pages.                            *)

OtherStarts ==
    /\ PagesReachable
    /\ admissionOpen /\ ~otherActive
    /\ otherActive' = TRUE
    /\ UNCHANGED <<opStatus, executing, admissionOpen>>
    /\ UNCHANGED <<bridgeVars, gateVars, windowVars, childVars, accepted>>

OtherEnds ==
    /\ otherActive
    /\ otherActive' = FALSE
    /\ UNCHANGED <<opStatus, executing, admissionOpen>>
    /\ UNCHANGED <<bridgeVars, gateVars, windowVars, childVars, accepted>>

(* onClosing.                                                               *)
CloseWindow ==
    /\ admissionOpen' = FALSE
    /\ window' = IF Active THEN window ELSE "closed"
    /\ guardOpen' = Active
    /\ UNCHANGED <<otherActive, bridgeVars, gateVars, childVars, accepted>>

UserCloses ==
    /\ PagesReachable
    /\ CloseWindow
    /\ UNCHANGED <<opStatus, executing, closeAfterCancel>>

DismissCloseGuard ==
    /\ QtAlive /\ guardOpen /\ ~closeAfterCancel
    /\ guardOpen' = FALSE
    /\ admissionOpen' = TRUE
    /\ UNCHANGED <<opStatus, executing, otherActive, window, closeAfterCancel>>
    /\ UNCHANGED <<bridgeVars, gateVars, childVars, accepted>>

(* cancelAndClose cancels in the registry only: no bridge hears of it.      *)
CancelAndClose ==
    /\ QtAlive /\ guardOpen /\ ~closeAfterCancel
    /\ closeAfterCancel' = TRUE
    /\ opStatus' = [r \in Runs |-> IF opStatus[r] = "RUNNING" THEN "CANCELED" ELSE opStatus[r]]
    /\ UNCHANGED <<executing, admissionOpen, otherActive, window, guardOpen>>
    /\ UNCHANGED <<bridgeVars, gateVars, childVars, accepted>>

(* onActive_operation_changed; ShellShutdown has its steps.                 *)
CloseAfterCancel ==
    /\ QtAlive /\ closeAfterCancel
    /\ ~Active
    /\ closeAfterCancel' = FALSE
    /\ CloseWindow
    /\ UNCHANGED <<opStatus, executing>>

-----------------------------------------------------------------------------
ChildRuns ==
    \/ ChildStarts
    \/ ChildAsks
    \/ \E answer \in {"accept", "decline"} : ChildAnswered(answer)
    \/ ChildCommits
    \/ ChildReports
    \/ ChildFails
    \/ ChildExits

QtRuns ==
    \/ BudgetReturns
    \/ ReadOutput
    \/ OnFinished
    \/ OnError
    \/ PresentationEnds
    \/ CloseAfterCancel

Next ==
    \/ Start
    \/ ConfirmBudget
    \/ DismissBudget
    \/ Cancel
    \/ \E answer \in {"accept", "decline"} : Resolve(answer)
    \/ UserCloses
    \/ DismissCloseGuard
    \/ CancelAndClose
    \/ QtRuns
    \/ ChildRuns
    \/ ChildCannotStart
    \/ ChildDies
    \/ OtherStarts
    \/ OtherEnds

Spec == Init /\ [][Next]_vars

(* The event loop and the processes run; a SIGTERM is delivered; the        *)
(* operations of other pages end.  The user owes nothing.                   *)
LiveSpec ==
    /\ Spec
    /\ WF_vars(QtRuns)
    /\ WF_vars(ChildRuns)
    /\ WF_vars(sigterm /\ ChildDies)
    /\ WF_vars(OtherEnds)

-----------------------------------------------------------------------------
BridgeTypes ==
    /\ run \in 0..MaxRuns
    /\ preflight \in {"none", "checking", "confirm"}
    /\ running \in BOOLEAN /\ attached \in BOOLEAN /\ cancelRequested \in BOOLEAN
    /\ payload \in Reports \cup {"none"}
    /\ held \in Saving \cup {"none"}
    /\ shown \in [Runs -> Reports \cup {"none"}]
    /\ reports \in [Runs -> Nat]

GateTypes == decision \in {"none", "accept", "decline"} /\ pending \in BOOLEAN

RegistryTypes ==
    /\ opStatus \in [Runs -> {"unknown", "RUNNING", "SUCCEEDED", "FAILED", "CANCELED"}]
    /\ executing \in [Runs -> BOOLEAN]
    /\ admissionOpen \in BOOLEAN /\ otherActive \in BOOLEAN

WindowTypes ==
    /\ window \in {"open", "closed"}
    /\ guardOpen \in BOOLEAN /\ closeAfterCancel \in BOOLEAN

ChildTypes ==
    /\ child \in {"none", "starting", "notStarted", "working", "waiting",
                  "committed", "done", "exited"}
    /\ crashed \in BOOLEAN /\ sigterm \in BOOLEAN /\ forced \in BOOLEAN /\ asked \in BOOLEAN
    /\ sources \subseteq {"primary", "yahoo"}
    /\ stdout \in Seq(Reports \cup {"fallback"})
    /\ stdin \in Seq({"accept", "decline"})
    /\ saved \subseteq [run : Runs, sources : SUBSET {"primary", "yahoo"}, forced : BOOLEAN]

TypeOK ==
    BridgeTypes /\ GateTypes /\ RegistryTypes /\ WindowTypes /\ ChildTypes /\ accepted \subseteq Runs

SavedRuns == {row.run : row \in saved}

(* A run shown as complete is in the history: a crash after the commit may  *)
(* hide a saved run, never the reverse.                                     *)
ReadyIsSaved == \A r \in Runs : shown[r] \in Saving => r \in SavedRuns

(* The end of a run is shown at most once, although Qt announces a crashed  *)
(* worker with errorOccurred and with finished.                             *)
ReportedOnce == \A r \in Runs : reports[r] <= 1

(* A registered run keeps the registry busy exactly as long as its process  *)
(* is attached: the close guard neither misses it nor waits for a ghost.    *)
ExecutingWhileAttached ==
    \A r \in Runs : executing[r] <=> attached /\ r = run /\ opStatus[r] # "unknown"

(* Every saved run holds data of one source only.                           *)
SingleSource == \A row \in saved : \E s \in {"primary", "yahoo"} : row.sources = {s}

(* Data of the fallback source needs a consent given for this very run: an  *)
(* answer to an earlier offer, or one that crosses a cancellation in the    *)
(* pipe, is none.                                                           *)
YahooNeedsConsent ==
    \A row \in saved : "yahoo" \in row.sources => row.forced \/ row.run \in accepted

(* A run that is shown as saved is saved, it is reported once, and the      *)
(* registry holds it as long as the bridge is attached to its worker        *)
(* (rs_run_bridge.py).                                                      *)
PageTellsItsRun == ReadyIsSaved /\ ReportedOnce /\ ExecutingWhileAttached

(* A saved run is of one source, and of Yahoo only when the user consented  *)
(* (fallback_consent.py, fallback.py).                                      *)
SourceIsConsented == SingleSource /\ YahooNeedsConsent

(* A cancellation of a registered run releases the page, also while the     *)
(* worker waits for a decision about the fallback source.                   *)
CancelTaken == cancelRequested /\ opStatus[run] # "unknown"
PageIsFree == ~running \/ window = "closed"
CancelReleasesPage == CancelTaken ~> PageIsFree

-----------------------------------------------------------------------------
(* What the documentation says, and the code does not do.                   *)

(* docs/product/README.md:162: a run the user canceled is not saved.        *)
CanceledIsNotSaved == \A r \in Runs : shown[r] = "CANCELED" => r \notin SavedRuns

(* The same for a cancellation accepted by the registry, as cancelAndClose  *)
(* asks for.                                                                *)
AcceptedCancelNeverSaves == \A r \in Runs : opStatus[r] = "CANCELED" => r \notin SavedRuns

(* docs/technical/ARCHITECTURE.md:118: the registry protects the closing    *)
(* window, so a closed one has left no worker behind.                       *)
ClosedWindowHasNoWorker == window = "closed" => ~Alive

(* tests/qml/test_shutdown_tasks.py:116: a run that admission refused ends  *)
(* quietly, with the page released.                                         *)
RunningHasWorker == running => attached \/ held # "none"

(* PilotWindow.qml:86: the window closes by itself when the requests end.   *)
CancelAndCloseCloses == closeAfterCancel ~> (window = "closed")
=============================================================================
