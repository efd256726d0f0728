---------------------------- MODULE ShellShutdown ----------------------------
(***************************************************************************)
(* The application shell and its close guard, composed with the operation   *)
(* registry: desktop_qml/shell_bridge.py, qml/PilotWindow.qml (onClosing,   *)
(* cancelAndClose, dismissCloseGuard, onActive_operation_changed) and       *)
(* desktop_qml/app.py.                                                      *)
(*                                                                          *)
(* The shell is a listener of the registry.  Its callback only emits a      *)
(* QUEUED Qt signal, so edges reach the Qt thread later, through uiQueue.   *)
(* cancel_active_operation walks a snapshot and cancels one operation per   *)
(* critical section, so workers run between those cancellations.            *)
(***************************************************************************)
EXTENDS OperationRegistry

CONSTANTS Ui,      \* the Qt main thread
          Shell    \* the token of the shell's subscription

ASSUME ShellAssumption == Ui \in Threads /\ Shell \in Listeners

VARIABLES
    mirror,            \* ShellBridge._has_active_operation
    uiQueue,           \* emitted registry_state_changed signals
    window,            \* "starting", "open" or "closed"
    closeGuardOpen,    \* PilotWindow.closeGuardOpen
    closeAfterCancel,  \* PilotWindow.closeAfterCancel
    uiStep,            \* what the Qt thread is in the middle of
    toCancel           \* the rest of the snapshot cancel_active_operation walks

shellVars == <<mirror, uiQueue, window, closeGuardOpen, closeAfterCancel, uiStep, toCancel>>
allVars == <<vars, shellVars>>

ShellInit ==
    /\ Init
    /\ mirror = FALSE
    /\ uiQueue = <<>>
    /\ window = "starting"
    /\ closeGuardOpen = FALSE
    /\ closeAfterCancel = FALSE
    /\ uiStep = "idle"
    /\ toCancel = {}

(* The Qt thread runs one handler at a time, and none while it drains.      *)
UiFree == window = "open" /\ pc[Ui] = "idle"
UiIdle == UiFree /\ uiStep = "idle"

Cancelable == {o \in Ops : status[o] \in {"QUEUED", "RUNNING"}}

-----------------------------------------------------------------------------
Begin(initialMirror) ==
    /\ window = "starting"
    /\ admissionOpen
    /\ SubscribeWithSnapshot(Ui, Shell)
    /\ mirror' = initialMirror
    /\ window' = "open"
    /\ UNCHANGED <<uiQueue, closeGuardOpen, closeAfterCancel, uiStep, toCancel>>

FaultyStart == Begin(None)

(* build_pilot_engine: reset_admission, then ShellBridge.__init__ connects  *)
(* the queued signal and subscribes with a snapshot.                        *)
Start == Begin(Active)

FaultyOnClosing ==
    /\ CloseAdmissionAndHasActive(Ui)
    /\ closeGuardOpen' = (closeGuardOpen \/ mirror)
    /\ window' = IF mirror THEN window ELSE "closed"

(* onClosing: begin_operation_shutdown closes admission and captures        *)
(* activity in one critical section; activity refuses the close.            *)
OnClosing ==
    /\ CloseAdmissionAndHasActive(Ui)
    /\ closeGuardOpen' = (closeGuardOpen \/ Active)
    /\ window' = IF Active THEN window ELSE "closed"

UserCloses ==
    /\ UiIdle
    /\ OnClosing
    /\ UNCHANGED <<mirror, uiQueue, closeAfterCancel, uiStep, toCancel>>

(* window.close() called by a handler that found nothing active.            *)
CloseWindow ==
    /\ UiFree
    /\ uiStep = "closing"
    /\ uiStep' = "idle"
    /\ OnClosing
    /\ UNCHANGED <<mirror, uiQueue, closeAfterCancel, toCancel>>

FaultyDismissKeepsClosed ==
    /\ UiIdle
    /\ closeGuardOpen /\ ~closeAfterCancel
    /\ closeGuardOpen' = FALSE
    /\ UNCHANGED <<vars, mirror, uiQueue, window, closeAfterCancel, uiStep, toCancel>>

(* dismissCloseGuard: "keep waiting" reopens admission.                     *)
DismissCloseGuard ==
    /\ UiIdle
    /\ closeGuardOpen /\ ~closeAfterCancel
    /\ closeGuardOpen' = FALSE
    /\ ResetAdmission(Ui)
    /\ UNCHANGED <<mirror, uiQueue, window, closeAfterCancel, uiStep, toCancel>>

(* cancelAndClose, up to the snapshot of cancel_active_operation; the guard *)
(* is open, so onClosing has closed admission already.                      *)
CancelAndClose ==
    /\ UiIdle
    /\ closeGuardOpen /\ ~closeAfterCancel
    /\ closeAfterCancel' = TRUE
    /\ toCancel' = Cancelable
    /\ uiStep' = "cancelThenCheck"
    /\ UNCHANGED <<vars, mirror, uiQueue, window, closeGuardOpen>>

(* One iteration: cancel() answers TOO_LATE for an operation that has       *)
(* entered its commit or ended since the snapshot.                          *)
CancelNext(o) ==
    /\ UiFree
    /\ o \in toCancel
    /\ toCancel' = toCancel \ {o}
    /\ IF o \in Cancelable THEN Cancel(Ui, o) ELSE UNCHANGED vars
    /\ UNCHANGED <<mirror, uiQueue, window, closeGuardOpen, closeAfterCancel, uiStep>>

(* The end of cancelAndClose: read has_active_operation again.              *)
CheckAfterCancel ==
    /\ UiFree
    /\ uiStep = "cancelThenCheck"
    /\ toCancel = {}
    /\ uiStep' = IF Active THEN "idle" ELSE "closing"
    /\ closeAfterCancel' = Active
    /\ closeGuardOpen' = Active
    /\ UNCHANGED <<vars, mirror, uiQueue, window, toCancel>>

CancelAgainDone ==
    /\ UiFree
    /\ uiStep = "cancelAgain"
    /\ toCancel = {}
    /\ uiStep' = "idle"
    /\ UNCHANGED <<vars, mirror, uiQueue, window, closeGuardOpen, closeAfterCancel, toCancel>>

Handle(active, reconciles) ==
    /\ UiIdle
    /\ uiQueue # <<>>
    /\ active = Head(uiQueue)
    /\ uiQueue' = Tail(uiQueue)
    /\ IF active # mirror /\ closeAfterCancel /\ ~active
       THEN IF reconciles /\ Active
            THEN /\ mirror' = TRUE
                 /\ toCancel' = Cancelable
                 /\ uiStep' = "cancelAgain"
                 /\ UNCHANGED <<closeGuardOpen, closeAfterCancel>>
            ELSE /\ mirror' = active
                 /\ closeAfterCancel' = FALSE
                 /\ closeGuardOpen' = FALSE
                 /\ uiStep' = "closing"
                 /\ UNCHANGED toCancel
       ELSE /\ mirror' = active
            /\ UNCHANGED <<closeGuardOpen, closeAfterCancel, uiStep, toCancel>>
    /\ UNCHANGED <<vars, window>>

FaultyHandleSignal(active) == Handle(active, FALSE)

(* _refresh_active_operation on a queued edge; a changed mirror runs        *)
(* onActive_operation_changed, which reconciles with the registry before    *)
(* it trusts an edge that may be old, and cancels again if it is.           *)
HandleSignal(active) == Handle(active, TRUE)

-----------------------------------------------------------------------------
(* The rest of the application: threads reserve and run operations; the Qt  *)
(* thread does so too, but only between its own handlers.                   *)
RunOperations(t) ==
    /\ t = Ui => UiIdle
    /\ window # "starting"
    /\ \E o \in Ops : OperationStep(t, o)
    /\ UNCHANGED shellVars

FaultyShellCallback(t) ==
    /\ DeliverReturn(t)
    /\ uiQueue' = <<edge[t]>> \o uiQueue
    /\ UNCHANGED <<mirror, window, closeGuardOpen, closeAfterCancel, uiStep, toCancel>>

(* registry_state_changed.emit: the edge is queued for the Qt thread.       *)
ShellCallback(t) ==
    /\ DeliverReturn(t)
    /\ uiQueue' = Append(uiQueue, edge[t])
    /\ UNCHANGED <<mirror, window, closeGuardOpen, closeAfterCancel, uiStep, toCancel>>

Drain(t) ==
    \/ /\ TakeEdge(t) \/ FinishDrain(t) \/ \E l \in Listeners : DeliverStart(t, l)
       /\ UNCHANGED shellVars
    \/ ShellCallback(t)

UiStep ==
    \/ Start
    \/ UserCloses
    \/ CloseWindow
    \/ DismissCloseGuard
    \/ CancelAndClose
    \/ \E o \in Ops : CancelNext(o)
    \/ CheckAfterCancel
    \/ CancelAgainDone
    \/ \E active \in BOOLEAN : HandleSignal(active)

ShellNext == UiStep \/ \E t \in Threads : RunOperations(t) \/ Drain(t)

ShellSpec == ShellInit /\ [][ShellNext]_allVars

(* The Qt event loop runs and draining threads run.  The user owes nothing, *)
(* and a worker owes no return: one that waits for a consent the close      *)
(* guard hides never polls its cancellation.                                *)
UiProgress ==
    \/ CloseWindow
    \/ \E o \in Ops : CancelNext(o)
    \/ CheckAfterCancel
    \/ CancelAgainDone
    \/ \E active \in BOOLEAN : HandleSignal(active)

ShellLiveSpec ==
    /\ ShellSpec
    /\ WF_allVars(UiProgress)
    /\ \A t \in Threads : WF_allVars(Drain(t))

-----------------------------------------------------------------------------
(* Types of the shell's variables, with those of the registry.              *)
ShellTypeOK ==
    /\ TypeOK
    /\ mirror \in BOOLEAN
    /\ uiQueue \in Seq(BOOLEAN)
    /\ window \in {"starting", "open", "closed"}
    /\ closeGuardOpen \in BOOLEAN
    /\ closeAfterCancel \in BOOLEAN
    /\ uiStep \in {"idle", "cancelThenCheck", "cancelAgain", "closing"}
    /\ toCancel \in SUBSET Ops

(* A window that closed left nothing running, not even a canceled worker    *)
(* on its way back, and nothing can start behind it.                        *)
ClosedWindowIsIdle == window = "closed" => ~Active /\ ~admissionOpen

(* Admission is closed exactly while the close guard is up or the window is *)
(* closing: a dismissed guard never leaves the application refusing runs,   *)
(* and a shown guard never lets one start.                                  *)
AdmissionFollowsGuard ==
    window = "open" => (admissionOpen <=> ~(closeGuardOpen \/ uiStep = "closing"))

(* What the shell shows converges: with no edge queued or in flight the     *)
(* mirror is the registry's activity, whatever reconcile wrote meanwhile.   *)
MirrorConverges ==
    window # "starting" /\ ~dispatching /\ uiQueue = <<>> => mirror = Active

(* "Cancel and close" closes the window, unless some worker never returns   *)
(* (then the registry stays active): no stale, coalesced or late edge makes *)
(* the shell wait for a registry that has become quiet.                     *)
CancelAndCloseCloses == closeAfterCancel ~> (window = "closed" \/ []Active)
=============================================================================
