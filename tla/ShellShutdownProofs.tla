------------------------- MODULE ShellShutdownProofs -------------------------
(***************************************************************************)
(* What ShellShutdown promises of the window and its close guard, for any   *)
(* operations, keys, listeners and threads.                                 *)
(*                                                                          *)
(* Every step of the shell is a step of the registry or leaves it alone, so *)
(* the shell inherits the registry's theorems.  On top of them the proofs   *)
(* need what each handler of the window knows when it starts and when it    *)
(* ends (GuardInv), and where the last activity edge is on its way to the   *)
(* mirror (EdgeInv).                                                        *)
(***************************************************************************)
EXTENDS ShellShutdown, OperationRegistryProofs, SequenceTheorems

(* Nothing has happened before the window is open; the shell stays          *)
(* subscribed, and nobody else is.                                          *)
SubscribedInv ==
    /\ window = "starting" =>
          /\ ~dispatching /\ uiQueue = <<>>
          /\ ~closeGuardOpen /\ ~closeAfterCancel /\ uiStep = "idle"
    /\ window # "starting" => Shell \in listeners /\ subActive[Shell]
    /\ listeners \subseteq {Shell}
    /\ \A t \in Threads : todo[t] \subseteq {Shell}

(* A closed window was told that nothing is active, and admission is closed *)
(* while a handler of the guard runs.                                       *)
GuardInv ==
    /\ window = "closed" => shutdown = "quiet"
    /\ closeAfterCancel => closeGuardOpen
    /\ uiStep = "cancelThenCheck" => closeAfterCancel
    /\ AdmissionFollowsGuard

(* The last activity of the registry is in its queue, with the thread that  *)
(* is about to call the shell, in the shell's queue, or in the mirror.      *)
Overtaken == queue # <<>> \/ \E t \in Threads : todo[t] # {}

EdgeInv ==
    window # "starting" /\ ~Overtaken =>
        IF \E t \in Threads : pc[t] = "callback"
        THEN \A t \in Threads : pc[t] = "callback" => edge[t] = lastEnqueued
        ELSE lastEnqueued = IF uiQueue = <<>> THEN mirror ELSE uiQueue[Len(uiQueue)]

ShellInv == SubscribedInv /\ GuardInv /\ EdgeInv

-----------------------------------------------------------------------------
(* The shell runs the registry as the registry's specification says.        *)
LEMMA ShellStepIsRegistryStep == ShellNext => [Next]_vars
<1> SUFFICES ASSUME ShellNext PROVE [Next]_vars
  OBVIOUS
<1> USE ShellAssumption
<1>1. CASE Start
  BY <1>1 DEF Start, Begin, Next, SubscriptionStep
<1>2. CASE UserCloses \/ CloseWindow \/ DismissCloseGuard
  BY <1>2 DEF UserCloses, CloseWindow, OnClosing, DismissCloseGuard, Next, AdmissionStep
<1>3. ASSUME NEW o \in Ops, CancelNext(o) PROVE [Next]_vars
  BY <1>3 DEF CancelNext, Next, OperationStep
<1>4. CASE CancelAndClose \/ CheckAfterCancel \/ CancelAgainDone
  BY <1>4 DEF CancelAndClose, CheckAfterCancel, CancelAgainDone
<1>5. ASSUME NEW active \in BOOLEAN, HandleSignal(active) PROVE [Next]_vars
  BY <1>5 DEF HandleSignal, Handle
<1>6. ASSUME NEW t \in Threads, RunOperations(t) \/ Drain(t) PROVE [Next]_vars
  BY <1>6 DEF RunOperations, Drain, ShellCallback, Next, DrainStep
<1> QED
  BY <1>1, <1>2, <1>3, <1>4, <1>5, <1>6 DEF ShellNext, UiStep

(* Composing the shell with the registry adds no behaviour to the registry. *)
THEOREM ShellKeepsTheRegistry == ShellSpec => Spec
<1>1. ShellInit => Init
  BY DEF ShellInit
<1>2. [ShellNext]_allVars => [Next]_vars
  BY ShellStepIsRegistryStep DEF allVars
<1> QED
  BY <1>1, <1>2, PTL DEF ShellSpec, Spec

(* Types.                                                                   *)
THEOREM ShellTypeCorrect == ShellSpec => []ShellTypeOK
<1>1. ShellInit => ShellTypeOK
  <2> SUFFICES ASSUME ShellInit PROVE ShellTypeOK
    OBVIOUS
  <2>1. uiQueue \in Seq(BOOLEAN)
    BY DEF ShellInit
  <2> QED
    BY <2>1, InitTypeOK DEF ShellInit, ShellTypeOK
<1>2. ShellTypeOK /\ [ShellNext]_allVars => ShellTypeOK'
  <2> SUFFICES ASSUME ShellTypeOK, [ShellNext]_allVars PROVE ShellTypeOK'
    OBVIOUS
  <2>1. TypeOK'
    BY ShellStepIsRegistryStep, NextTypeOK DEF ShellTypeOK, allVars
  <2>2. Active \in BOOLEAN /\ Cancelable \in SUBSET Ops
    BY ActiveIsBoolean DEF Cancelable
  <2> USE DEF shellVars
  <2>3. CASE UNCHANGED allVars
    BY <2>1, <2>3 DEF ShellTypeOK, allVars
  <2>4. CASE Start
    BY <2>1, <2>2, <2>4 DEF ShellTypeOK, Start, Begin
  <2>5. CASE UserCloses \/ CloseWindow \/ DismissCloseGuard
    BY <2>1, <2>2, <2>5 DEF ShellTypeOK, UserCloses, CloseWindow, OnClosing, DismissCloseGuard
  <2>6. CASE CancelAndClose \/ CheckAfterCancel \/ CancelAgainDone
    BY <2>1, <2>2, <2>6 DEF ShellTypeOK, CancelAndClose, CheckAfterCancel, CancelAgainDone
  <2>7. ASSUME NEW o \in Ops, CancelNext(o) PROVE ShellTypeOK'
    BY <2>1, <2>7 DEF ShellTypeOK, CancelNext
  <2>8. ASSUME NEW active \in BOOLEAN, HandleSignal(active) PROVE ShellTypeOK'
    <3>1. uiQueue' \in Seq(BOOLEAN) /\ mirror' \in BOOLEAN /\ window' = window
      <4>1. uiQueue # <<>> /\ uiQueue' = Tail(uiQueue) /\ window' = window
        BY <2>8 DEF HandleSignal, Handle
      <4>2. mirror' \in {TRUE, active}
        BY <2>8 DEF HandleSignal, Handle
      <4>3. uiQueue' \in Seq(BOOLEAN)
        BY <4>1, HeadTailProperties DEF ShellTypeOK
      <4> QED
        BY <4>1, <4>2, <4>3
    <3>2. /\ closeGuardOpen' \in BOOLEAN /\ closeAfterCancel' \in BOOLEAN
          /\ uiStep' \in {"idle", "cancelThenCheck", "cancelAgain", "closing"}
          /\ toCancel' \in SUBSET Ops
      BY <2>2, <2>8 DEF ShellTypeOK, HandleSignal, Handle
    <3> QED
      BY <2>1, <3>1, <3>2 DEF ShellTypeOK
  <2>9. ASSUME NEW t \in Threads, RunOperations(t) PROVE ShellTypeOK'
    BY <2>1, <2>9 DEF ShellTypeOK, RunOperations
  <2>10. ASSUME NEW t \in Threads, Drain(t) PROVE ShellTypeOK'
    <3>1. CASE ShellCallback(t)
      <4>1. edge[t] \in BOOLEAN
        BY DEF ShellTypeOK, TypeOK
      <4> QED
        BY <2>1, <3>1, <4>1 DEF ShellTypeOK, ShellCallback
    <3>2. CASE UNCHANGED shellVars
      BY <2>1, <3>2 DEF ShellTypeOK
    <3> QED
      BY <2>10, <3>1, <3>2 DEF Drain
  <2> QED
    BY <2>3, <2>4, <2>5, <2>6, <2>7, <2>8, <2>9, <2>10 DEF ShellNext, UiStep
<1> QED
  BY <1>1, <1>2, PTL DEF ShellSpec

-----------------------------------------------------------------------------
(* The subscription.                                                        *)

(* The steps of the registry the shell lets happen, other than the          *)
(* subscription itself, leave the listeners alone.                          *)
LEMMA SubscriptionStays ==
    ASSUME NEW t \in Threads, NEW o \in Ops,
           OperationStep(t, o)
    PROVE  UNCHANGED subVars /\ UNCHANGED todo /\ UNCHANGED admitVars
BY DEF OperationStep, Reserve, InsertEntry, BeginReserved, BeginRefused, Cancel, CancelFrom,
       TryEnterCommitting, TryComplete, FinishExecution, Notify, threadVars

LEMMA NextSubscribed ==
    ShellTypeOK /\ NotifyInv /\ SubscribedInv /\ [ShellNext]_allVars => SubscribedInv'
<1> SUFFICES ASSUME ShellTypeOK, NotifyInv, SubscribedInv, [ShellNext]_allVars
             PROVE  SubscribedInv'
  OBVIOUS
<1> USE ShellAssumption
        DEF vars, shellVars, opVars, admitVars, subVars, notifyVars, threadVars
<1>1. CASE UNCHANGED allVars
  BY <1>1 DEF SubscribedInv, allVars
<1>2. CASE Start
  BY <1>2 DEF SubscribedInv, Start, Begin, SubscribeWithSnapshot, Register, ShellTypeOK, TypeOK
<1>3. CASE UserCloses \/ CloseWindow \/ DismissCloseGuard
  BY <1>3 DEF SubscribedInv, UserCloses, CloseWindow, OnClosing, DismissCloseGuard,
              CloseAdmissionAndHasActive, ResetAdmission, UiIdle, UiFree
<1>4. CASE CancelAndClose \/ CheckAfterCancel \/ CancelAgainDone
  BY <1>4 DEF SubscribedInv, CancelAndClose, CheckAfterCancel, CancelAgainDone, UiIdle, UiFree
<1>5. ASSUME NEW o \in Ops, CancelNext(o) PROVE SubscribedInv'
  <2>1. UNCHANGED <<listeners, subActive, todo>>
    BY <1>5, SubscriptionStays DEF CancelNext, OperationStep
  <2> QED
    BY <1>5, <2>1 DEF SubscribedInv, CancelNext, UiFree
<1>6. ASSUME NEW active \in BOOLEAN, HandleSignal(active) PROVE SubscribedInv'
  BY <1>6 DEF SubscribedInv, HandleSignal, Handle, UiIdle, UiFree
<1>7. ASSUME NEW t \in Threads, RunOperations(t) PROVE SubscribedInv'
  <2>1. UNCHANGED <<listeners, subActive, todo>>
    BY <1>7, SubscriptionStays DEF RunOperations
  <2> QED
    BY <1>7, <2>1 DEF SubscribedInv, RunOperations
<1>8. ASSUME NEW t \in Threads, Drain(t) PROVE SubscribedInv'
  <2>1. dispatching
    BY <1>8 DEF Drain, ShellCallback, TakeEdge, FinishDrain, LeaveDrain, DeliverStart,
                DeliverReturn, NotifyInv, SingleDrainer, Draining
  <2>2. listeners' = listeners /\ subActive' = subActive
    BY <1>8 DEF Drain, ShellCallback, TakeEdge, FinishDrain, LeaveDrain, DeliverStart,
                DeliverReturn
  <2>3. \A u \in Threads : todo'[u] \subseteq {Shell}
    BY <1>8 DEF Drain, ShellCallback, TakeEdge, FinishDrain, LeaveDrain, DeliverStart,
                DeliverReturn, SubscribedInv, ShellTypeOK, TypeOK
  <2>4. window' = window
    BY <1>8 DEF Drain, ShellCallback
  <2> QED
    BY <2>1, <2>2, <2>3, <2>4 DEF SubscribedInv
<1> QED
  BY <1>1, <1>2, <1>3, <1>4, <1>5, <1>6, <1>7, <1>8 DEF ShellNext, UiStep

-----------------------------------------------------------------------------
(* The close guard.                                                         *)
LEMMA NextGuard ==
    ShellTypeOK /\ SubscribedInv /\ GuardInv /\ [ShellNext]_allVars => GuardInv'
<1> SUFFICES ASSUME ShellTypeOK, SubscribedInv, GuardInv, [ShellNext]_allVars
             PROVE  GuardInv'
  OBVIOUS
<1> USE DEF vars, shellVars, admitVars, GuardInv, AdmissionFollowsGuard, UiIdle, UiFree
<1>1. CASE UNCHANGED allVars
  BY <1>1 DEF allVars
<1>2. CASE Start
  BY <1>2 DEF Start, Begin, SubscribeWithSnapshot, Register, SubscribedInv
<1>3. CASE UserCloses \/ CloseWindow
  BY <1>3, ActiveIsBoolean
     DEF UserCloses, CloseWindow, OnClosing, CloseAdmissionAndHasActive, ShellTypeOK
<1>4. CASE DismissCloseGuard
  BY <1>4 DEF DismissCloseGuard, ResetAdmission
<1>5. CASE CancelAndClose \/ CheckAfterCancel \/ CancelAgainDone
  BY <1>5, ActiveIsBoolean DEF CancelAndClose, CheckAfterCancel, CancelAgainDone
<1>6. ASSUME NEW o \in Ops, CancelNext(o) PROVE GuardInv'
  <2>1. UNCHANGED admitVars
    BY <1>6, SubscriptionStays, ShellAssumption DEF CancelNext, OperationStep
  <2> QED
    BY <1>6, <2>1 DEF CancelNext
<1>7. ASSUME NEW active \in BOOLEAN, HandleSignal(active) PROVE GuardInv'
  BY <1>7 DEF HandleSignal, Handle, ShellTypeOK
<1>8. ASSUME NEW t \in Threads, RunOperations(t) PROVE GuardInv'
  <2>1. UNCHANGED admitVars
    BY <1>8, SubscriptionStays DEF RunOperations
  <2> QED
    BY <1>8, <2>1 DEF RunOperations
<1>9. ASSUME NEW t \in Threads, Drain(t) PROVE GuardInv'
  BY <1>9 DEF Drain, ShellCallback, TakeEdge, FinishDrain, LeaveDrain, DeliverStart,
              DeliverReturn
<1> QED
  BY <1>1, <1>2, <1>3, <1>4, <1>5, <1>6, <1>7, <1>8, <1>9 DEF ShellNext, UiStep

-----------------------------------------------------------------------------
(* The last edge on its way to the mirror.                                  *)

(* An operation either leaves the activity and the drain alone or queues    *)
(* its edge.                                                                *)
LEMMA OperationKeepsEdge ==
    ASSUME NotifyInv, EdgeInv, ShellTypeOK, window # "starting",
           NEW t \in Threads, NEW o \in Ops, OperationStep(t, o),
           UNCHANGED <<mirror, uiQueue, window>>
    PROVE  EdgeInv'
<1>1. CASE UNCHANGED <<queue, lastEnqueued, pc, edge, todo>>
  BY <1>1 DEF EdgeInv, Overtaken
<1>2. CASE Notify(t)
  <2>1. CASE Active' # lastEnqueued
    <3>1. queue' = Append(queue, Active')
      BY <1>2, <2>1 DEF Notify
    <3>2. queue' # <<>>
      BY <3>1, ActiveIsBoolean, AppendProperties DEF ShellTypeOK, TypeOK
    <3> QED
      BY <3>2 DEF EdgeInv, Overtaken
  <2>2. CASE Active' = lastEnqueued
    <3>1. UNCHANGED <<queue, lastEnqueued, pc, edge, todo>>
      BY <1>2, <2>2 DEF Notify, NotifyInv, SingleDrainer
    <3> QED
      BY <3>1, <1>1
  <2> QED
    BY <2>1, <2>2
<1> QED
  BY <1>1, <1>2
     DEF OperationStep, Reserve, InsertEntry, BeginReserved, BeginRefused, Cancel, CancelFrom,
         TryEnterCommitting, TryComplete, FinishExecution, notifyVars, threadVars

LEMMA NextEdge ==
    ShellTypeOK /\ NotifyInv /\ SubscribedInv /\ EdgeInv /\ [ShellNext]_allVars => EdgeInv'
<1> SUFFICES ASSUME ShellTypeOK, NotifyInv, SubscribedInv, EdgeInv, [ShellNext]_allVars
             PROVE  EdgeInv'
  OBVIOUS
<1> USE ShellAssumption DEF vars, shellVars, notifyVars, threadVars
<1>0. ASSUME UNCHANGED <<notifyVars, threadVars, mirror, uiQueue>>, window # "starting"
      PROVE  EdgeInv'
  BY <1>0 DEF EdgeInv, Overtaken
<1>1. CASE UNCHANGED allVars
  BY <1>1 DEF EdgeInv, Overtaken, allVars
<1>2. CASE Start
  <2>1. UNCHANGED <<notifyVars, threadVars>> /\ uiQueue' = uiQueue /\ mirror' = Active
    BY <1>2 DEF Start, Begin, SubscribeWithSnapshot, Register
  <2>2. ~dispatching /\ uiQueue = <<>>
    BY <1>2 DEF SubscribedInv, Start, Begin
  <2>3. \A t \in Threads : pc[t] # "callback"
    BY <2>2 DEF NotifyInv, SingleDrainer, Draining
  <2>4. lastEnqueued = Active
    BY DEF NotifyInv
  <2> QED
    BY <2>1, <2>2, <2>3, <2>4 DEF EdgeInv
<1>3. CASE UserCloses \/ CloseWindow \/ DismissCloseGuard
  BY <1>3, <1>0 DEF UserCloses, CloseWindow, OnClosing, DismissCloseGuard,
                    CloseAdmissionAndHasActive, ResetAdmission, UiIdle, UiFree
<1>4. CASE CancelAndClose \/ CheckAfterCancel \/ CancelAgainDone
  BY <1>4, <1>0 DEF CancelAndClose, CheckAfterCancel, CancelAgainDone, UiIdle, UiFree
<1>5. ASSUME NEW o \in Ops, CancelNext(o) PROVE EdgeInv'
  <2>1. window # "starting" /\ UNCHANGED <<mirror, uiQueue, window>>
    BY <1>5 DEF CancelNext, UiFree
  <2>2. CASE o \in Cancelable
    <3>1. OperationStep(Ui, o)
      BY <1>5, <2>2 DEF CancelNext, OperationStep
    <3> QED
      BY <2>1, <3>1, OperationKeepsEdge
  <2>3. CASE o \notin Cancelable
    BY <1>5, <1>0, <2>1, <2>3 DEF CancelNext
  <2> QED
    BY <2>2, <2>3
<1>6. ASSUME NEW active \in BOOLEAN, HandleSignal(active) PROVE EdgeInv'
  <2>1. /\ window # "starting" /\ window' = window /\ uiQueue # <<>>
        /\ active = Head(uiQueue) /\ uiQueue' = Tail(uiQueue)
    BY <1>6 DEF HandleSignal, Handle, UiIdle, UiFree
  <2>2. UNCHANGED <<notifyVars, threadVars>>
    BY <1>6 DEF HandleSignal, Handle
  <2>3. mirror' = active \/ (Active /\ ~active)
    BY <1>6 DEF HandleSignal, Handle
  <2>4. uiQueue \in Seq(BOOLEAN)
    BY DEF ShellTypeOK
  <2> SUFFICES ASSUME ~Overtaken, \A t \in Threads : pc[t] # "callback"
               PROVE  lastEnqueued = IF uiQueue' = <<>> THEN mirror' ELSE uiQueue'[Len(uiQueue')]
    BY <2>1, <2>2 DEF EdgeInv, Overtaken
  <2>5. lastEnqueued = uiQueue[Len(uiQueue)]
    BY <2>1 DEF EdgeInv
  <2>6. CASE uiQueue' = <<>>
    <3>1. Len(uiQueue) = 1
      <4>1. Len(Tail(uiQueue)) = Len(uiQueue) - 1
        BY <2>1, <2>4, HeadTailProperties
      <4>2. Len(Tail(uiQueue)) = 0 /\ Len(uiQueue) \in Nat
        BY <2>1, <2>4, <2>6, EmptySeq, LenProperties
      <4> QED
        BY <4>1, <4>2
    <3>2. active = lastEnqueued
      BY <2>1, <2>5, <3>1
    <3> QED
      BY <2>3, <2>6, <3>2 DEF NotifyInv
  <2>7. CASE uiQueue' # <<>>
    <3>1. uiQueue'[Len(uiQueue')] = uiQueue[Len(uiQueue)]
      BY <2>1, <2>4, <2>7, HeadTailProperties, EmptySeq
    <3> QED
      BY <2>5, <2>7, <3>1
  <2> QED
    BY <2>6, <2>7
<1>7. ASSUME NEW t \in Threads, RunOperations(t) PROVE EdgeInv'
  BY <1>7, OperationKeepsEdge DEF RunOperations
<1>8. ASSUME NEW t \in Threads, Drain(t) PROVE EdgeInv'
  <2>1. Draining(t) /\ window # "starting" /\ window' = window
    <3>1. Draining(t) /\ window' = window
      BY <1>8 DEF Drain, ShellCallback, TakeEdge, FinishDrain, LeaveDrain, DeliverStart,
                  DeliverReturn, Draining
    <3> QED
      BY <3>1 DEF SubscribedInv, NotifyInv, SingleDrainer
  <2>2. \A u \in Threads \ {t} : pc[u] # "callback" /\ todo[u] = {}
    BY <2>1 DEF NotifyInv, SingleDrainer, Draining
  <2>3. CASE TakeEdge(t) /\ UNCHANGED shellVars
    <3>1. todo'[t] = listeners
      BY <2>3 DEF TakeEdge, ShellTypeOK, TypeOK
    <3> QED
      BY <2>1, <3>1 DEF SubscribedInv, EdgeInv, Overtaken
  <2>4. CASE FinishDrain(t) /\ UNCHANGED shellVars
    <3>1. \A u \in Threads : pc'[u] = "callback" <=> pc[u] = "callback"
      BY <2>4 DEF FinishDrain, LeaveDrain, ShellTypeOK, TypeOK
    <3>2. UNCHANGED <<queue, todo, edge, lastEnqueued, mirror, uiQueue>>
      BY <2>4 DEF FinishDrain, LeaveDrain
    <3> QED
      BY <2>1, <3>1, <3>2 DEF EdgeInv, Overtaken
  <2>5. ASSUME NEW l \in Listeners, DeliverStart(t, l), UNCHANGED shellVars PROVE EdgeInv'
    <3>1. queue = <<>> => edge[t] = lastEnqueued
      BY <2>5 DEF DeliverStart, NotifyInv
    <3>2. pc'[t] = "callback" /\ \A u \in Threads : pc'[u] = "callback" => u = t
      BY <2>2, <2>5 DEF DeliverStart, ShellTypeOK, TypeOK
    <3> QED
      BY <2>5, <3>1, <3>2 DEF DeliverStart, EdgeInv, Overtaken
  <2>6. CASE ShellCallback(t)
    <3>1. /\ pc[t] = "callback" /\ uiQueue' = Append(uiQueue, edge[t])
          /\ UNCHANGED <<notifyVars, todo, edge, mirror>>
      BY <2>6 DEF ShellCallback, DeliverReturn
    <3>2. \A u \in Threads : pc'[u] # "callback"
      BY <2>2, <2>6 DEF ShellCallback, DeliverReturn, ShellTypeOK, TypeOK
    <3>3. uiQueue' # <<>> /\ uiQueue'[Len(uiQueue')] = edge[t]
      BY <3>1 DEF ShellTypeOK, TypeOK
    <3>4. ~Overtaken => edge[t] = lastEnqueued
      BY <2>1, <3>1 DEF EdgeInv
    <3> QED
      BY <3>1, <3>2, <3>3, <3>4 DEF EdgeInv, Overtaken
  <2> QED
    BY <1>8, <2>3, <2>4, <2>5, <2>6 DEF Drain
<1> QED
  BY <1>1, <1>2, <1>3, <1>4, <1>5, <1>6, <1>7, <1>8 DEF ShellNext, UiStep

-----------------------------------------------------------------------------
(* The invariant of the shell, on top of the registry's own.                *)
THEOREM ShellInvariant == ShellSpec => []ShellInv
<1>1. ShellInit => ShellInv
  BY DEF ShellInit, Init, ShellInv, SubscribedInv, GuardInv, AdmissionFollowsGuard, EdgeInv
<1>2. ShellTypeOK /\ NotifyInv /\ ShellInv /\ [ShellNext]_allVars => ShellInv'
  BY NextSubscribed, NextGuard, NextEdge DEF ShellInv
<1> QED
  BY <1>1, <1>2, ShellKeepsTheRegistry, ShellTypeCorrect, NotificationInvariant, PTL DEF ShellSpec

(* begin_operation_shutdown (shell_bridge.py): the window closes only on an *)
(* answer "nothing is active" that stays true.                              *)
THEOREM ClosedIsIdle == ShellSpec => []ClosedWindowIsIdle
<1>1. ShellInv /\ LifecycleInv => ClosedWindowIsIdle
  BY DEF ShellInv, GuardInv, LifecycleInv, ClosedWindowIsIdle
<1> QED
  BY <1>1, ShellInvariant, ShellKeepsTheRegistry, LifecycleInvariant, PTL

(* Admission is closed exactly while the guard is up or the window closes   *)
(* (PilotWindow.qml).                                                       *)
THEOREM GuardKeepsAdmission == ShellSpec => []AdmissionFollowsGuard
<1>1. ShellInv => AdmissionFollowsGuard
  BY DEF ShellInv, GuardInv
<1> QED
  BY <1>1, ShellInvariant, PTL

(* With nothing queued or in flight, what the shell shows is the registry's *)
(* activity (_refresh_active_operation and its reconcile).                  *)
THEOREM MirrorIsRight == ShellSpec => []MirrorConverges
<1>1. ShellInv /\ NotifyInv => MirrorConverges
  <2> SUFFICES ASSUME ShellInv, NotifyInv, window # "starting", ~dispatching, uiQueue = <<>>
               PROVE  mirror = Active
    BY DEF MirrorConverges
  <2>1. \A t \in Threads : pc[t] # "callback" /\ todo[t] = {}
    BY DEF NotifyInv, SingleDrainer, Draining
  <2>2. queue = <<>> /\ lastEnqueued = Active
    BY DEF NotifyInv, SingleDrainer
  <2> QED
    BY <2>1, <2>2 DEF ShellInv, EdgeInv, Overtaken
<1> QED
  BY <1>1, ShellInvariant, ShellKeepsTheRegistry, NotificationInvariant, PTL
=============================================================================
