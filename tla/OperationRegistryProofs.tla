----------------------- MODULE OperationRegistryProofs -----------------------
(* Machine-checked theorems about OperationRegistry, for any number of      *)
(* operations, identities, listeners and threads.                           *)
EXTENDS OperationRegistry, TLAPS

-----------------------------------------------------------------------------
(* Type correctness.                                                        *)

LEMMA ActiveIsBoolean == Active \in BOOLEAN /\ Active' \in BOOLEAN
BY DEF Active

LEMMA NotifyTypes ==
    ASSUME TypeOK, NEW t \in Threads, Notify(t)
    PROVE  /\ queue' \in Seq(BOOLEAN)
           /\ lastEnqueued' \in BOOLEAN
           /\ dispatching' \in BOOLEAN
           /\ pc' \in [Threads -> {"idle", "drain", "callback", "prune", "unsub"}]
           /\ edge' \in [Threads -> BOOLEAN]
           /\ todo' \in [Threads -> SUBSET Listeners]
           /\ target' \in [Threads -> Listeners \cup {None}]
           /\ \A u \in Threads : pc'[u] \in {"callback", "prune", "unsub"}
                                      => target'[u] \in Listeners
<1>1. Active' \in BOOLEAN
  BY ActiveIsBoolean
<1>2. lastEnqueued' = Active' /\ queue' \in {queue, Append(queue, Active')}
  BY DEF Notify
<1>3. queue' \in Seq(BOOLEAN) /\ lastEnqueued' \in BOOLEAN
  <2>1. PICK b \in BOOLEAN : b = Active'
    BY <1>1
  <2>2. queue \in Seq(BOOLEAN)
    BY DEF TypeOK
  <2>3. Append(queue, b) \in Seq(BOOLEAN)
    BY <2>2
  <2> QED
    BY <1>1, <1>2, <2>1, <2>2, <2>3
<1>4. dispatching' \in BOOLEAN
  BY DEF Notify
<1>5. pc' \in [Threads -> {"idle", "drain", "callback", "prune", "unsub"}]
  BY DEF Notify, TypeOK
<1>6. UNCHANGED <<edge, todo, target>>
  BY DEF Notify
<1>7. \A u \in Threads : pc'[u] \in {"callback", "prune", "unsub"}
                            => target'[u] \in Listeners
  BY <1>6 DEF Notify, TypeOK
<1> QED
  BY <1>3, <1>4, <1>5, <1>6, <1>7 DEF TypeOK

LEMMA InitTypeOK == Init => TypeOK
<1> SUFFICES ASSUME Init PROVE TypeOK
  OBVIOUS
<1>1. queue \in Seq(BOOLEAN)
  BY DEF Init
<1>2. listeners \in SUBSET Listeners /\ fresh \in SUBSET Listeners
      /\ quiet \in SUBSET Listeners
  BY DEF Init
<1>3. todo \in [Threads -> SUBSET Listeners]
  BY DEF Init
<1> QED
  BY <1>1, <1>2, <1>3 DEF Init, TypeOK, Statuses, Terminal

LEMMA NextTypeOK == TypeOK /\ [Next]_vars => TypeOK'
<1> SUFFICES ASSUME TypeOK, [Next]_vars PROVE TypeOK'
  OBVIOUS
<1> USE DEF opVars, admitVars, subVars, notifyVars, threadVars
<1>1. CASE UNCHANGED vars
  BY <1>1 DEF vars, TypeOK
<1>2. ASSUME NEW t \in Threads, NEW o \in Ops, NEW k \in Keys, Reserve(t, o, k)
      PROVE  TypeOK'
  <2>1. Notify(t)
    BY <1>2 DEF Reserve, InsertEntry
  <2> QED
    BY <1>2, <2>1, NotifyTypes DEF Reserve, InsertEntry, TypeOK, Statuses
<1>3. ASSUME NEW t \in Threads, NEW o \in Ops, BeginReserved(t, o)
      PROVE  TypeOK'
  BY <1>3, NotifyTypes DEF BeginReserved, TypeOK, Statuses
<1>4. ASSUME NEW t \in Threads, NEW o \in Ops, BeginRefused(t, o)
      PROVE  TypeOK'
  BY <1>4 DEF BeginRefused, TypeOK
<1>5. ASSUME NEW t \in Threads, NEW o \in Ops, Cancel(t, o)
      PROVE  TypeOK'
  BY <1>5, NotifyTypes DEF Cancel, CancelFrom, TypeOK, Statuses, Terminal
<1>6. ASSUME NEW t \in Threads, NEW o \in Ops, TryEnterCommitting(t, o)
      PROVE  TypeOK'
  BY <1>6, NotifyTypes DEF TryEnterCommitting, TypeOK, Statuses
<1>7. ASSUME NEW t \in Threads, NEW o \in Ops, NEW proposed \in Terminal,
             NEW e \in BOOLEAN, TryComplete(t, o, proposed, e)
      PROVE  TypeOK'
  <2>1. Notify(t)
    BY <1>7 DEF TryComplete, FinishExecution
  <2>2. Answer(o, proposed, e) \in Terminal \cup {"pending", "none"}
    BY <1>7 DEF Answer
  <2>3. result' \in [Ops -> Terminal \cup {"pending", "none"}]
    BY <1>7, <2>2 DEF TryComplete, FinishExecution, TypeOK
  <2>4. status' \in [Ops -> Statuses]
    BY <1>7 DEF TryComplete, FinishExecution, TypeOK, Statuses
  <2>5. canceled' \in [Ops -> BOOLEAN]
    BY <1>7 DEF TryComplete, FinishExecution, TypeOK
  <2>6. executionActive' \in [Ops -> BOOLEAN]
    BY <1>7 DEF TryComplete, FinishExecution, TypeOK
  <2>7. UNCHANGED <<identity, owner, admitVars, subVars>>
    BY <1>7 DEF TryComplete, FinishExecution
  <2> QED
    BY <2>1, <2>3, <2>4, <2>5, <2>6, <2>7, NotifyTypes DEF TypeOK
<1>8. ASSUME NEW t \in Threads, AdmissionStep(t)
      PROVE  TypeOK'
  BY <1>8 DEF AdmissionStep, CloseAdmission, CloseAdmissionAndHasActive,
              ResetAdmission, TypeOK
<1>9. ASSUME NEW t \in Threads, NEW l \in Listeners, SubscribeWithSnapshot(t, l)
      PROVE  TypeOK'
  BY <1>9, ActiveIsBoolean DEF SubscribeWithSnapshot, Register, TypeOK
<1>10. ASSUME NEW t \in Threads, NEW l \in Listeners,
              UnsubscribePop(t, l) \/ UnsubscribeInCallback(t, l)
       PROVE  TypeOK'
  BY <1>10 DEF UnsubscribePop, UnsubscribeInCallback, TypeOK
<1>11. ASSUME NEW t \in Threads, UnsubscribeDeactivate(t)
       PROVE  TypeOK'
  <2>1. quiet' \in SUBSET Listeners
    BY <1>11 DEF UnsubscribeDeactivate, Deactivate, TypeOK
  <2> QED
    BY <1>11, <2>1 DEF UnsubscribeDeactivate, Deactivate, TypeOK
<1>12. ASSUME NEW t \in Threads, TakeEdge(t)
       PROVE  TypeOK'
  <2>1. Head(queue) \in BOOLEAN /\ Tail(queue) \in Seq(BOOLEAN)
    BY <1>12 DEF TakeEdge, TypeOK
  <2> QED
    BY <1>12, <2>1 DEF TakeEdge, TypeOK
<1>13. ASSUME NEW t \in Threads, FinishDrain(t)
       PROVE  TypeOK'
  BY <1>13 DEF FinishDrain, LeaveDrain, TypeOK
<1>14. ASSUME NEW t \in Threads, NEW l \in Listeners,
              SkipInactive(t, l) \/ DeliverStart(t, l)
       PROVE  TypeOK'
  <2>1. CASE SkipInactive(t, l)
    BY <2>1 DEF SkipInactive, TypeOK
  <2>2. CASE DeliverStart(t, l)
    BY <2>2 DEF DeliverStart, TypeOK
  <2> QED
    BY <1>14, <2>1, <2>2
<1>15. ASSUME NEW t \in Threads,
              DeliverReturn(t) \/ DeliverRaise(t) \/ PruneQuarantined(t)
       PROVE  TypeOK'
  BY <1>15 DEF DeliverReturn, DeliverRaise, PruneQuarantined, TypeOK
<1> QED
  BY <1>1, <1>2, <1>3, <1>4, <1>5, <1>6, <1>7, <1>8, <1>9, <1>10, <1>11,
     <1>12, <1>13, <1>14, <1>15
     DEF Next, OperationStep, SubscriptionStep, DrainStep, UnsubscribeAgain

(* Every variable keeps its type in every reachable state.                  *)
THEOREM TypeCorrect == Spec => []TypeOK
<1>1. Init => TypeOK
  BY InitTypeOK
<1>2. TypeOK /\ [Next]_vars => TypeOK'
  BY NextTypeOK
<1> QED
  BY <1>1, <1>2, PTL DEF Spec

-----------------------------------------------------------------------------
(* Notifications.                                                           *)

LEMMA ActiveUnchanged ==
    ASSUME UNCHANGED <<status, executionActive>>
    PROVE  Active' = Active
BY DEF Active, IsActive

LEMMA InitNotifyInv == Init => NotifyInv
<1> SUFFICES ASSUME Init PROVE NotifyInv
  OBVIOUS
<1>1. ~Active
  BY DEF Init, Active, IsActive
<1>2. SingleDrainer
  BY DEF Init, SingleDrainer, Draining
<1>3. lastEnqueued = Active
  BY <1>1, ActiveIsBoolean DEF Init
<1>4. queue = <<>> /\ (\A t \in Threads : todo[t] = {}) /\ listeners = {}
  BY DEF Init
<1> QED
  BY <1>2, <1>3, <1>4 DEF NotifyInv, Live

(* A critical section that changes the entries queues the new activity and  *)
(* leaves exactly one drainer behind.                                       *)
LEMMA NotifyKeepsInv ==
    ASSUME TypeOK, NotifyInv, NEW t \in Threads, Notify(t), CanCall(t),
           UNCHANGED subVars
    PROVE  NotifyInv'
<1> USE DEF subVars
<1>1. PICK b \in BOOLEAN : b = Active'
  BY ActiveIsBoolean
<1>2. lastEnqueued' = b /\ UNCHANGED <<edge, todo, target>>
  BY <1>1 DEF Notify
<1>3. queue \in Seq(BOOLEAN) /\ lastEnqueued \in BOOLEAN /\ dispatching \in BOOLEAN
  BY DEF TypeOK
<1>4. CASE b # lastEnqueued
  <2>1. queue' = Append(queue, b)
    BY <1>1, <1>4 DEF Notify
  <2>2. queue' # <<>> /\ queue'[Len(queue')] = b
    BY <2>1, <1>3
  <2>3. dispatching' /\ pc' = IF dispatching THEN pc ELSE [pc EXCEPT ![t] = "drain"]
    BY <1>1, <1>4, <2>1, <2>2 DEF Notify
  <2>4. SingleDrainer'
    <3>1. CASE dispatching
      BY <3>1, <2>3 DEF NotifyInv, SingleDrainer, Draining
    <3>2. CASE ~dispatching
      <4>1. \A u \in Threads : ~Draining(u)
        BY <3>2 DEF NotifyInv, SingleDrainer
      <4>2. \A u \in Threads : Draining(u)' <=> u = t
        BY <4>1, <3>2, <2>3 DEF Draining, TypeOK
      <4> QED
        BY <4>2, <2>3 DEF SingleDrainer
    <3> QED
      BY <3>1, <3>2
  <2>5. \A u \in Threads : todo'[u] # {} => Draining(u)'
    BY <1>2, <2>3 DEF NotifyInv, Draining, TypeOK
  <2> QED
    BY <1>1, <1>2, <2>2, <2>4, <2>5 DEF NotifyInv
<1>5. CASE b = lastEnqueued
  <2>1. queue' = queue
    BY <1>1, <1>5 DEF Notify
  <2>2. dispatching' = dispatching /\ pc' = pc
    BY <1>1, <1>5, <1>3 DEF Notify, NotifyInv, SingleDrainer
  <2>3. SingleDrainer'
    BY <2>1, <2>2 DEF NotifyInv, SingleDrainer, Draining
  <2> QED
    BY <1>1, <1>2, <1>5, <2>1, <2>2, <2>3 DEF NotifyInv, Draining, Live
<1> QED
  BY <1>4, <1>5

(* Steps that leave the entries and the queue alone, and only shrink the    *)
(* set of live listeners and what the drainer still has to visit.           *)
LEMMA QuietStepKeepsInv ==
    ASSUME TypeOK, NotifyInv,
           UNCHANGED <<status, executionActive, notifyVars, edge>>,
           \A u \in Threads : Draining(u)' <=> Draining(u),
           UNCHANGED <<todo, seen>>,
           \A l \in Listeners : Live(l)' => Live(l)
    PROVE  NotifyInv'
<1> USE DEF notifyVars
<1>1. Active' = Active
  BY ActiveUnchanged
<1>2. SingleDrainer'
  BY DEF NotifyInv, SingleDrainer
<1> QED
  BY <1>1, <1>2 DEF NotifyInv

LEMMA NextNotifyInv == TypeOK /\ NotifyInv /\ [Next]_vars => NotifyInv'
<1> SUFFICES ASSUME TypeOK, NotifyInv, [Next]_vars PROVE NotifyInv'
  OBVIOUS
<1> USE DEF opVars, admitVars, subVars, notifyVars, threadVars
<1>1. CASE UNCHANGED vars
  BY <1>1, QuietStepKeepsInv DEF vars, Draining, Live
<1>2. ASSUME NEW t \in Threads, NEW o \in Ops, OperationStep(t, o)
      PROVE  NotifyInv'
  <2>1. CASE BeginRefused(t, o)
    BY <2>1, QuietStepKeepsInv DEF BeginRefused, Draining, Live
  <2>2. CASE ~BeginRefused(t, o)
    <3>1. Notify(t) /\ CanCall(t) /\ UNCHANGED subVars
      BY <1>2, <2>2 DEF OperationStep, Reserve, InsertEntry, BeginReserved,
           Cancel, CancelFrom, TryEnterCommitting, TryComplete, FinishExecution
    <3> QED
      BY <3>1, NotifyKeepsInv
  <2> QED
    BY <2>1, <2>2
<1>3. ASSUME NEW t \in Threads, AdmissionStep(t)
      PROVE  NotifyInv'
  BY <1>3, QuietStepKeepsInv
     DEF AdmissionStep, CloseAdmission, CloseAdmissionAndHasActive,
         ResetAdmission, Draining, Live
<1>4. ASSUME NEW t \in Threads, NEW l \in Listeners, SubscribeWithSnapshot(t, l)
      PROVE  NotifyInv'
  <2>1. Active' = Active
    BY <1>4, ActiveUnchanged DEF SubscribeWithSnapshot, Register
  <2>2. SingleDrainer'
    BY <1>4 DEF SubscribeWithSnapshot, Register, NotifyInv, SingleDrainer, Draining
  <2>3. ASSUME NEW m \in Listeners, Live(m)', queue = <<>>,
               \A u \in Threads : m \notin todo[u]
        PROVE  seen'[m] = lastEnqueued
    <3>1. CASE m = l
      BY <1>4, <3>1 DEF SubscribeWithSnapshot, Register, NotifyInv, TypeOK
    <3>2. CASE m # l
      <4>1. Live(m) /\ seen'[m] = seen[m]
        BY <1>4, <2>3, <3>2 DEF SubscribeWithSnapshot, Register, Live, TypeOK
      <4> QED
        BY <4>1, <2>3 DEF NotifyInv
    <3> QED
      BY <3>1, <3>2
  <2> QED
    BY <1>4, <2>1, <2>2, <2>3
       DEF SubscribeWithSnapshot, Register, NotifyInv, Draining
<1>5. ASSUME NEW t \in Threads, NEW l \in Listeners, UnsubscribePop(t, l)
      PROVE  NotifyInv'
  BY <1>5, QuietStepKeepsInv DEF UnsubscribePop, Draining, Live, TypeOK
<1>6. ASSUME NEW t \in Threads, NEW l \in Listeners, UnsubscribeInCallback(t, l)
      PROVE  NotifyInv'
  BY <1>6, QuietStepKeepsInv DEF UnsubscribeInCallback, Draining, Live, TypeOK
<1>7. ASSUME NEW t \in Threads, UnsubscribeDeactivate(t)
      PROVE  NotifyInv'
  BY <1>7, QuietStepKeepsInv
     DEF UnsubscribeDeactivate, Deactivate, Draining, Live, TypeOK
<1>8. ASSUME NEW t \in Threads, DrainStep(t)
      PROVE  NotifyInv'
  <2>1. CASE TakeEdge(t)
    <3>1. Active' = Active /\ UNCHANGED <<lastEnqueued, seen, listeners, subActive, pc, dispatching>>
      BY <2>1, ActiveUnchanged DEF TakeEdge
    <3>2. queue \in Seq(BOOLEAN) /\ queue # <<>> /\ queue' = Tail(queue)
      BY <2>1 DEF TakeEdge, TypeOK
    <3>3. Draining(t) /\ \A u \in Threads : Draining(u) => u = t
      BY <2>1 DEF TakeEdge, NotifyInv, SingleDrainer, Draining
    <3>4. SingleDrainer'
      BY <3>1, <3>3 DEF NotifyInv, SingleDrainer, Draining
    <3>5. queue' # <<>> => queue'[Len(queue')] = queue[Len(queue)]
      BY <3>2
    <3>6. queue' = <<>> => Head(queue) = queue[Len(queue)]
      <4>1. Len(Tail(queue)) = Len(queue) - 1 /\ Head(queue) = queue[1]
        BY <3>2
      <4>2. Tail(queue) = <<>> => Len(queue) = 1
        <5>1. Len(queue) \in Nat
          BY <3>2
        <5>2. ASSUME Tail(queue) = <<>> PROVE Len(Tail(queue)) = 0
          <6>1. Len(<<>>) = 0
            OBVIOUS
          <6> QED
            BY <5>2, <6>1
        <5> QED
          BY <4>1, <5>1, <5>2
      <4> QED
        BY <3>2, <4>1, <4>2
    <3>7. todo' = [todo EXCEPT ![t] = listeners] /\ edge' = [edge EXCEPT ![t] = Head(queue)]
      BY <2>1 DEF TakeEdge
    <3>8. \A u \in Threads : u # t => todo[u] = {}
      BY <3>3 DEF NotifyInv
    <3>9. \A u \in Threads : todo'[u] # {} => u = t
      BY <3>7, <3>8 DEF TypeOK
    <3>10. queue[Len(queue)] = lastEnqueued
      BY <3>2 DEF NotifyInv
    <3>11. \A l \in Listeners : Live(l)' => l \in todo'[t]
      BY <3>1, <3>7 DEF Live, TypeOK
    <3>12. \A u \in Threads : todo'[u] # {} => Draining(u)'
      BY <3>1, <3>3, <3>9 DEF Draining
    <3>13. \A u \in Threads : todo'[u] # {} /\ queue' = <<>> => edge'[u] = lastEnqueued
      BY <3>6, <3>7, <3>9, <3>10 DEF TypeOK
    <3> QED
      BY <3>1, <3>4, <3>5, <3>10, <3>11, <3>12, <3>13 DEF NotifyInv
  <2>2. CASE FinishDrain(t)
    <3>1. Active' = Active /\ UNCHANGED <<queue, lastEnqueued, seen, listeners, subActive, todo, edge>>
      BY <2>2, ActiveUnchanged DEF FinishDrain, LeaveDrain
    <3>2. Draining(t) /\ todo[t] = {} /\ queue = <<>> /\ ~dispatching'
          /\ pc' = [pc EXCEPT ![t] = "idle"]
      BY <2>2 DEF FinishDrain, LeaveDrain, Draining
    <3>3. \A u \in Threads : ~Draining(u)'
      BY <3>2 DEF NotifyInv, SingleDrainer, Draining, TypeOK
    <3>4. SingleDrainer'
      BY <3>1, <3>2, <3>3 DEF SingleDrainer
    <3>5. \A u \in Threads : todo[u] = {}
      BY <3>2 DEF NotifyInv, SingleDrainer
    <3> QED
      BY <3>1, <3>4, <3>5 DEF NotifyInv, Live
  <2>3. ASSUME NEW l \in Listeners, SkipInactive(t, l)
        PROVE  NotifyInv'
    <3>1. Active' = Active /\ UNCHANGED <<queue, lastEnqueued, seen, listeners, subActive, edge, pc, dispatching>>
      BY <2>3, ActiveUnchanged DEF SkipInactive
    <3>2. SingleDrainer'
      BY <3>1 DEF NotifyInv, SingleDrainer, Draining
    <3>3. todo' = [todo EXCEPT ![t] = @ \ {l}] /\ ~Live(l)
      BY <2>3 DEF SkipInactive, Live
    <3>4. \A u \in Threads : todo'[u] # {} => todo[u] # {}
      BY <3>3 DEF TypeOK
    <3>5. \A m \in Listeners, u \in Threads : m # l /\ m \notin todo'[u] => m \notin todo[u]
      BY <3>3 DEF TypeOK
    <3>6. \A m \in Listeners : Live(m)' => Live(m) /\ m # l
      BY <3>1, <3>3 DEF Live
    <3> QED
      BY <3>1, <3>2, <3>4, <3>5, <3>6 DEF NotifyInv, Draining
  <2>4. ASSUME NEW l \in Listeners, DeliverStart(t, l)
        PROVE  NotifyInv'
    <3>1. Active' = Active /\ UNCHANGED <<queue, lastEnqueued, listeners, subActive, edge, dispatching>>
      BY <2>4, ActiveUnchanged DEF DeliverStart
    <3>2. Draining(t) /\ l \in todo[t] /\ pc' = [pc EXCEPT ![t] = "callback"]
          /\ todo' = [todo EXCEPT ![t] = @ \ {l}] /\ seen' = [seen EXCEPT ![l] = edge[t]]
      BY <2>4 DEF DeliverStart, Draining
    <3>3. \A u \in Threads : Draining(u)' <=> Draining(u)
      BY <3>2 DEF Draining, TypeOK
    <3>4. SingleDrainer'
      BY <3>1, <3>3 DEF NotifyInv, SingleDrainer
    <3>5. \A u \in Threads : todo'[u] # {} => todo[u] # {}
      BY <3>2 DEF TypeOK
    <3>6. \A m \in Listeners, u \in Threads : m # l /\ m \notin todo'[u] => m \notin todo[u]
      BY <3>2 DEF TypeOK
    <3>7. queue = <<>> => seen'[l] = lastEnqueued
      BY <3>2 DEF NotifyInv, TypeOK
    <3>8. \A m \in Listeners : m # l => seen'[m] = seen[m]
      BY <3>2 DEF TypeOK
    <3>9. \A m \in Listeners : Live(m)' => Live(m)
      BY <3>1 DEF Live
    <3>10. \A m \in Listeners :
             Live(m)' /\ queue' = <<>> /\ (\A u \in Threads : m \notin todo'[u])
               => seen'[m] = lastEnqueued'
      BY <3>1, <3>6, <3>7, <3>8, <3>9 DEF NotifyInv
    <3> QED
      BY <3>1, <3>3, <3>4, <3>5, <3>10 DEF NotifyInv
  <2>5. CASE DeliverReturn(t)
    BY <2>5, QuietStepKeepsInv DEF DeliverReturn, Draining, Live, TypeOK
  <2>6. CASE DeliverRaise(t)
    BY <2>6, QuietStepKeepsInv DEF DeliverRaise, Draining, Live, TypeOK
  <2>7. CASE PruneQuarantined(t)
    BY <2>7, QuietStepKeepsInv DEF PruneQuarantined, Draining, Live, TypeOK
  <2> QED
    BY <1>8, <2>1, <2>2, <2>3, <2>4, <2>5, <2>6, <2>7 DEF DrainStep
<1> QED
  BY <1>1, <1>2, <1>3, <1>4, <1>5, <1>6, <1>7, <1>8 
     DEF Next, SubscriptionStep, UnsubscribeAgain

(* The notification invariant holds in every reachable state.               *)
THEOREM NotificationInvariant == Spec => []NotifyInv
<1>1. Init => NotifyInv
  BY InitNotifyInv
<1>2. TypeOK /\ NotifyInv /\ [Next]_vars => NotifyInv'
  BY NextNotifyInv
<1> QED
  BY <1>1, <1>2, TypeCorrect, PTL DEF Spec

(* When nobody dispatches, every live listener has been told the truth.     *)
THEOREM InformedWhenQuiet == Spec => []QuietMeansInformed
<1>1. NotifyInv => QuietMeansInformed
  <2> SUFFICES ASSUME NotifyInv, ~dispatching, NEW l \in Listeners, Live(l)
               PROVE  seen[l] = Active
    BY DEF QuietMeansInformed
  <2>1. queue = <<>> /\ \A t \in Threads : ~Draining(t)
    BY DEF NotifyInv, SingleDrainer
  <2>2. \A t \in Threads : l \notin todo[t]
    BY <2>1 DEF NotifyInv
  <2> QED
    BY <2>1, <2>2 DEF NotifyInv
<1> QED
  BY <1>1, NotificationInvariant, PTL

(* Also while edges are queued or in flight: the last thing a live listener *)
(* has seen or will see is the current activity.                            *)
THEOREM ListenersConverge == Spec => []EveryListenerConverges
<1>1. NotifyInv => EveryListenerConverges
  <2> SUFFICES ASSUME NotifyInv, NEW l \in Listeners, Live(l)
               PROVE  Destined(l) = Active
    BY DEF EveryListenerConverges
  <2>1. CASE queue # <<>>
    BY <2>1 DEF NotifyInv, Destined
  <2>2. CASE queue = <<>> /\ \E t \in Threads : l \in todo[t]
    BY <2>2 DEF NotifyInv, Destined
  <2>3. CASE queue = <<>> /\ \A t \in Threads : l \notin todo[t]
    BY <2>3 DEF NotifyInv, Destined
  <2> QED
    BY <2>1, <2>2, <2>3
<1> QED
  BY <1>1, NotificationInvariant, PTL

(* A listener whose subscription is not touched by a step stays quiet, if   *)
(* no thread enters a callback.                                             *)
LEMMA QuietKeeps ==
    ASSUME UnsubscribeInv, UNCHANGED <<fresh, quiet, subActive>>, listeners' \subseteq listeners,
           \A t \in Threads : /\ pc'[t] = "callback" => pc[t] = "callback" /\ target'[t] = target[t]
                              /\ pc'[t] = "unsub" => target'[t] \notin fresh
    PROVE  UnsubscribeInv'
BY DEF UnsubscribeInv, UnsubscribedIsQuiet, InCallback

LEMMA NextUnsubscribeInv == TypeOK /\ UnsubscribeInv /\ [Next]_vars => UnsubscribeInv'
<1> SUFFICES ASSUME TypeOK, UnsubscribeInv, [Next]_vars PROVE UnsubscribeInv'
  OBVIOUS
<1> USE DEF opVars, admitVars, subVars, notifyVars, threadVars
<1>0. \A t \in Threads : pc[t] = "unsub" => target[t] \notin fresh
  BY DEF UnsubscribeInv
<1>1. CASE UNCHANGED vars
  BY <1>0, <1>1, QuietKeeps DEF vars
<1>2. ASSUME NEW t \in Threads, NEW o \in Ops, OperationStep(t, o)
      PROVE  UnsubscribeInv'
  <2>1. CASE BeginRefused(t, o)
    BY <1>0, <2>1, QuietKeeps DEF BeginRefused
  <2>2. CASE ~BeginRefused(t, o)
    <3>1. Notify(t) /\ UNCHANGED subVars
      BY <1>2, <2>2 DEF OperationStep, Reserve, InsertEntry, BeginReserved,
           Cancel, CancelFrom, TryEnterCommitting, TryComplete, FinishExecution
    <3>2. target' = target /\ pc' \in {pc, [pc EXCEPT ![t] = "drain"]}
      BY <3>1 DEF Notify
    <3> QED
      BY <1>0, <3>1, <3>2, QuietKeeps DEF TypeOK
  <2> QED
    BY <2>1, <2>2
<1>3. ASSUME NEW t \in Threads, AdmissionStep(t) PROVE UnsubscribeInv'
  BY <1>0, <1>3, QuietKeeps
     DEF AdmissionStep, CloseAdmission, CloseAdmissionAndHasActive, ResetAdmission
<1>4. ASSUME NEW t \in Threads, NEW l \in Listeners, SubscribeWithSnapshot(t, l)
      PROVE  UnsubscribeInv'
  BY <1>4 DEF SubscribeWithSnapshot, Register, UnsubscribeInv, UnsubscribedIsQuiet,
              InCallback, TypeOK
<1>5. ASSUME NEW t \in Threads, NEW l \in Listeners, UnsubscribePop(t, l)
      PROVE  UnsubscribeInv'
  <2>1. l \notin fresh
    BY <1>5 DEF UnsubscribePop, UnsubscribeInv
  <2> QED
    BY <1>0, <1>5, <2>1, QuietKeeps DEF UnsubscribePop, TypeOK
<1>6. ASSUME NEW t \in Threads, NEW l \in Listeners, UnsubscribeInCallback(t, l)
      PROVE  UnsubscribeInv'
  BY <1>6 DEF UnsubscribeInCallback, UnsubscribeInv, UnsubscribedIsQuiet, InCallback, TypeOK
<1>7. ASSUME NEW t \in Threads, UnsubscribeDeactivate(t) PROVE UnsubscribeInv'
  <2>1. target[t] \notin fresh /\ target[t] \in Listeners
    BY <1>7 DEF UnsubscribeDeactivate, Deactivate, UnsubscribeInv, TypeOK
  <2>2. \A m \in quiet' : ~InCallback(m)' /\ ~subActive'[m]
    BY <1>7, <2>1 DEF UnsubscribeDeactivate, Deactivate, UnsubscribeInv,
       UnsubscribedIsQuiet, InCallback, TypeOK
  <2> QED
    BY <1>7, <2>1, <2>2 DEF UnsubscribeDeactivate, Deactivate, UnsubscribeInv,
       UnsubscribedIsQuiet, TypeOK
<1>8. ASSUME NEW t \in Threads, DrainStep(t) PROVE UnsubscribeInv'
  <2>1. CASE TakeEdge(t) \/ FinishDrain(t)
    BY <1>0, <2>1, QuietKeeps DEF TakeEdge, FinishDrain, LeaveDrain, TypeOK
  <2>2. ASSUME NEW l \in Listeners, SkipInactive(t, l) PROVE UnsubscribeInv'
    BY <1>0, <2>2, QuietKeeps DEF SkipInactive
  <2>3. ASSUME NEW l \in Listeners, DeliverStart(t, l) PROVE UnsubscribeInv'
    BY <2>3 DEF DeliverStart, UnsubscribeInv, UnsubscribedIsQuiet, InCallback, TypeOK
  <2>4. CASE DeliverReturn(t) \/ PruneQuarantined(t)
    BY <1>0, <2>4, QuietKeeps DEF DeliverReturn, PruneQuarantined, TypeOK
  <2>5. CASE DeliverRaise(t)
    BY <2>5 DEF DeliverRaise, UnsubscribeInv, UnsubscribedIsQuiet, InCallback, TypeOK
  <2> QED
    BY <1>8, <2>1, <2>2, <2>3, <2>4, <2>5 DEF DrainStep
<1> QED
  BY <1>1, <1>2, <1>3, <1>4, <1>5, <1>6, <1>7, <1>8 
     DEF Next, SubscriptionStep, UnsubscribeAgain

(* After unsubscribe() has returned to a caller outside the callback, the   *)
(* listener is not running and never runs again.                            *)
THEOREM UnsubscribedStaysQuiet == Spec => []UnsubscribedIsQuiet
<1>1. Init => UnsubscribeInv
  BY DEF Init, UnsubscribeInv, UnsubscribedIsQuiet
<1>2. TypeOK /\ UnsubscribeInv /\ [Next]_vars => UnsubscribeInv'
  BY NextUnsubscribeInv
<1>3. UnsubscribeInv => UnsubscribedIsQuiet
  BY DEF UnsubscribeInv
<1> QED
  BY <1>1, <1>2, <1>3, TypeCorrect, PTL DEF Spec

-----------------------------------------------------------------------------
(* The lifecycle.                                                           *)

LEMMA InitLifecycleInv == Init => LifecycleInv
<1> SUFFICES ASSUME Init PROVE LifecycleInv
  OBVIOUS
<1>1. \A o \in Ops : EntryInv(o)
  BY DEF Init, EntryInv, Terminal
<1>2. IdentityUnique
  BY DEF Init, IdentityUnique
<1>3. shutdown # "quiet"
  BY DEF Init
<1> QED
  BY <1>1, <1>2, <1>3 DEF LifecycleInv

(* Steps that leave the entries alone.                                      *)
LEMMA OtherStepKeepsLifecycle ==
    ASSUME LifecycleInv, UNCHANGED opVars,
           shutdown' = "quiet" => ~admissionOpen' /\ ~Active
    PROVE  LifecycleInv'
<1> USE DEF opVars
<1>1. Active' = Active
  BY ActiveUnchanged
<1>2. \A o \in Ops : EntryInv(o)' <=> EntryInv(o)
  BY DEF EntryInv
<1>3. IdentityUnique'
  BY DEF LifecycleInv, IdentityUnique
<1> QED
  BY <1>1, <1>2, <1>3 DEF LifecycleInv

(* Steps on one entry: the others keep their part of the invariant, and     *)
(* once shutdown answered "quiet" no entry becomes active.                  *)
LEMMA EntryStepKeepsLifecycle ==
    ASSUME LifecycleInv, NEW o \in Ops, EntryInv(o)',
           \A p \in Ops \ {o} :
               /\ status'[p] = status[p] /\ identity'[p] = identity[p]
               /\ executionActive'[p] = executionActive[p]
               /\ canceled'[p] = canceled[p] /\ owner'[p] = owner[p]
               /\ result'[p] = result[p],
           IdentityUnique',
           UNCHANGED admitVars,
           admissionOpen \/ (IsActive(o)' => IsActive(o))
    PROVE  LifecycleInv'
<1>1. \A p \in Ops : EntryInv(p)'
  BY DEF LifecycleInv, EntryInv
<1>2. shutdown' = "quiet" => ~admissionOpen' /\ ~Active'
  <2> SUFFICES ASSUME shutdown = "quiet" PROVE ~admissionOpen' /\ ~Active'
    BY DEF admitVars
  <2>1. ~admissionOpen /\ \A p \in Ops : ~IsActive(p)
    BY DEF LifecycleInv, Active
  <2>2. \A p \in Ops : ~IsActive(p)'
    BY <2>1 DEF IsActive
  <2> QED
    BY <2>1, <2>2 DEF Active, admitVars
<1> QED
  BY <1>1, <1>2 DEF LifecycleInv

LEMMA NextLifecycleInv == TypeOK /\ LifecycleInv /\ [Next]_vars => LifecycleInv'
<1> SUFFICES ASSUME TypeOK, LifecycleInv, [Next]_vars PROVE LifecycleInv'
  OBVIOUS
<1> USE DEF opVars, admitVars, subVars, notifyVars, threadVars
<1>1. CASE UNCHANGED vars
  BY <1>1, OtherStepKeepsLifecycle DEF vars, LifecycleInv
<1>2. ASSUME NEW t \in Threads, NEW o \in Ops, OperationStep(t, o)
      PROVE  LifecycleInv'
  <2>0. EntryInv(o) /\ IdentityUnique
    BY DEF LifecycleInv
  <2>1. ASSUME NEW k \in Keys, Reserve(t, o, k) PROVE LifecycleInv'
    <3>1. status' = [status EXCEPT ![o] = "QUEUED"]
          /\ identity' = [identity EXCEPT ![o] = k]
          /\ UNCHANGED <<executionActive, canceled, owner, result, admitVars>>
          /\ status[o] = "ABSENT" /\ admissionOpen /\ IdentityFree(k)
      BY <2>1 DEF Reserve, InsertEntry
    <3>2. EntryInv(o)'
      BY <2>0, <3>1, NoneAssumption DEF EntryInv, TypeOK, Terminal
    <3>3. IdentityUnique'
      BY <2>0, <3>1 DEF IdentityUnique, IdentityFree, TypeOK
    <3> QED
      BY <3>1, <3>2, <3>3, EntryStepKeepsLifecycle DEF TypeOK
  <2>2. CASE BeginReserved(t, o)
    <3>1. status' = [status EXCEPT ![o] = "RUNNING"]
          /\ executionActive' = [executionActive EXCEPT ![o] = TRUE]
          /\ owner' = [owner EXCEPT ![o] = t]
          /\ UNCHANGED <<canceled, identity, result, admitVars>>
          /\ status[o] = "QUEUED"
      BY <2>2 DEF BeginReserved
    <3>2. EntryInv(o)'
      BY <2>0, <3>1, NoneAssumption DEF EntryInv, TypeOK, Terminal
    <3>3. IdentityUnique' /\ IsActive(o)
      BY <2>0, <3>1 DEF IdentityUnique, IsActive, Terminal
    <3> QED
      BY <3>1, <3>2, <3>3, EntryStepKeepsLifecycle DEF TypeOK
  <2>3. CASE BeginRefused(t, o)
    <3>1. result' = [result EXCEPT ![o] = "none"]
          /\ UNCHANGED <<status, executionActive, canceled, identity, owner, admitVars>>
          /\ status[o] = "CANCELED" /\ owner[o] = None
      BY <2>3 DEF BeginRefused
    <3>2. EntryInv(o)'
      BY <2>0, <3>1 DEF EntryInv, TypeOK, Terminal
    <3>3. IdentityUnique' /\ (IsActive(o)' => IsActive(o))
      BY <2>0, <3>1 DEF IdentityUnique, IsActive
    <3> QED
      BY <3>1, <3>2, <3>3, EntryStepKeepsLifecycle DEF TypeOK
  <2>4. CASE Cancel(t, o)
    <3>1. status' = [status EXCEPT ![o] = "CANCELED"]
          /\ canceled' = [canceled EXCEPT ![o] = TRUE]
          /\ UNCHANGED <<executionActive, identity, owner, result, admitVars>>
          /\ status[o] \in {"QUEUED", "RUNNING"}
      BY <2>4 DEF Cancel, CancelFrom
    <3>2. EntryInv(o)'
      BY <2>0, <3>1 DEF EntryInv, TypeOK, Terminal
    <3>3. IdentityUnique' /\ IsActive(o)
      BY <2>0, <3>1 DEF IdentityUnique, IsActive, Terminal
    <3> QED
      BY <3>1, <3>2, <3>3, EntryStepKeepsLifecycle DEF TypeOK
  <2>5. CASE TryEnterCommitting(t, o)
    <3>1. status' = [status EXCEPT ![o] = "COMMITTING"]
          /\ UNCHANGED <<executionActive, canceled, identity, owner, result, admitVars>>
          /\ status[o] = "RUNNING"
      BY <2>5 DEF TryEnterCommitting
    <3>2. EntryInv(o)'
      BY <2>0, <3>1 DEF EntryInv, TypeOK, Terminal
    <3>3. IdentityUnique' /\ IsActive(o)
      BY <2>0, <3>1 DEF IdentityUnique, IsActive, Terminal
    <3> QED
      BY <3>1, <3>2, <3>3, EntryStepKeepsLifecycle DEF TypeOK
  <2>6. ASSUME NEW proposed \in Terminal, NEW e \in BOOLEAN,
               TryComplete(t, o, proposed, e)
        PROVE  LifecycleInv'
    <3>1. status' = (IF AlreadyTerminal(o) THEN status ELSE [status EXCEPT ![o] = proposed])
          /\ canceled' = [canceled EXCEPT ![o] =
                              @ \/ (~AlreadyTerminal(o) /\ proposed = "CANCELED")]
          /\ executionActive' = [executionActive EXCEPT ![o] = FALSE]
          /\ result' = [result EXCEPT ![o] = Answer(o, proposed, e)]
          /\ UNCHANGED <<identity, owner, admitVars>>
          /\ executionActive[o]
      BY <2>6 DEF TryComplete, FinishExecution
    <3>2. status[o] \in Terminal <=> AlreadyTerminal(o)
      BY DEF AlreadyTerminal
    <3>3. status'[o] = (IF AlreadyTerminal(o) THEN status[o] ELSE proposed)
          /\ result'[o] = Answer(o, proposed, e) /\ executionActive'[o] = FALSE
          /\ canceled'[o] = (canceled[o] \/ (~AlreadyTerminal(o) /\ proposed = "CANCELED"))
          /\ identity'[o] = identity[o] /\ owner'[o] = owner[o]
      BY <3>1 DEF TypeOK
    <3>4. status'[o] \in Terminal
      BY <3>2, <3>3
    <3>5. canceled'[o] <=> status'[o] = "CANCELED"
      BY <2>0, <3>2, <3>3 DEF EntryInv, Terminal
    <3>6. result'[o] = "none" \/ result'[o] = status'[o]
      BY <3>2, <3>3 DEF Answer
    <3>7. result'[o] # "pending"
      BY <3>4, <3>6 DEF Terminal
    <3>8. identity'[o] # None
      BY <2>0, <3>1, <3>3 DEF EntryInv
    <3>9. EntryInv(o)'
      BY <3>3, <3>4, <3>5, <3>6, <3>7, <3>8 DEF EntryInv, Terminal
    <3>10. IdentityUnique' /\ IsActive(o)
      BY <2>0, <3>1 DEF IdentityUnique, IsActive
    <3> QED
      BY <3>1, <3>9, <3>10, EntryStepKeepsLifecycle DEF TypeOK
  <2> QED
    BY <1>2, <2>1, <2>2, <2>3, <2>4, <2>5, <2>6 DEF OperationStep
<1>3. ASSUME NEW t \in Threads, AdmissionStep(t)
      PROVE  LifecycleInv'
  <2>1. UNCHANGED opVars
    BY <1>3 DEF AdmissionStep, CloseAdmission, CloseAdmissionAndHasActive, ResetAdmission
  <2>2. shutdown' = "quiet" => ~admissionOpen' /\ ~Active
    BY <1>3 DEF AdmissionStep, CloseAdmission, CloseAdmissionAndHasActive,
                ResetAdmission, LifecycleInv
  <2> QED
    BY <2>1, <2>2, OtherStepKeepsLifecycle
<1>4. ASSUME NEW t \in Threads, SubscriptionStep(t) \/ DrainStep(t)
      PROVE  LifecycleInv'
  <2>1. UNCHANGED <<opVars, admitVars>>
    BY <1>4 DEF SubscriptionStep, DrainStep, SubscribeWithSnapshot, Register,
         UnsubscribePop, UnsubscribeInCallback, UnsubscribeDeactivate, Deactivate,
         UnsubscribeAgain, vars,
         TakeEdge, FinishDrain, LeaveDrain, SkipInactive, DeliverStart,
         DeliverReturn, DeliverRaise, PruneQuarantined
  <2> QED
    BY <2>1, OtherStepKeepsLifecycle DEF LifecycleInv
<1> QED
  BY <1>1, <1>2, <1>3, <1>4 DEF Next

(* The lifecycle invariant holds in every reachable state.                  *)
THEOREM LifecycleInvariant == Spec => []LifecycleInv
<1>1. Init => LifecycleInv
  BY InitLifecycleInv
<1>2. TypeOK /\ LifecycleInv /\ [Next]_vars => LifecycleInv'
  BY NextLifecycleInv
<1> QED
  BY <1>1, <1>2, TypeCorrect, PTL DEF Spec

(* An accepted cancellation is final and its worker hands no payload out.   *)
THEOREM CancellationIsFinal == Spec => [](CancelIsFinal /\ PayloadFromWinner)
<1>1. LifecycleInv => CancelIsFinal /\ PayloadFromWinner
  BY DEF LifecycleInv, EntryInv, CancelIsFinal, PayloadFromWinner
<1> QED
  BY <1>1, LifecycleInvariant, PTL

(* After shutdown answered "nothing is active" nothing becomes active.      *)
THEOREM ShutdownIsFinal == Spec => []QuietShutdownIsFinal
<1>1. LifecycleInv => QuietShutdownIsFinal
  BY DEF LifecycleInv, QuietShutdownIsFinal
<1> QED
  BY <1>1, LifecycleInvariant, PTL

(* No step changes a terminal status or cancels a commit in progress.       *)
THEOREM TerminalStatusIsFinal == Spec => TerminalIsFinal
<1>1. TypeOK /\ [Next]_vars =>
        [\A o \in Ops :
            /\ status[o] \in Terminal => status'[o] = status[o]
            /\ status[o] = "COMMITTING" =>
                 status'[o] \in {"COMMITTING", "SUCCEEDED", "FAILED"}]_vars
  <2> SUFFICES ASSUME TypeOK, Next, NEW p \in Ops
               PROVE  /\ status[p] \in Terminal => status'[p] = status[p]
                      /\ status[p] = "COMMITTING" =>
                           status'[p] \in {"COMMITTING", "SUCCEEDED", "FAILED"}
    OBVIOUS
  <2>1. PICK t \in Threads : \/ \E o \in Ops : OperationStep(t, o)
                             \/ AdmissionStep(t)
                             \/ SubscriptionStep(t)
                             \/ DrainStep(t)
    BY DEF Next
  <2>2. ASSUME NEW o \in Ops, OperationStep(t, o)
        PROVE  /\ status[p] \in Terminal => status'[p] = status[p]
               /\ status[p] = "COMMITTING" =>
                    status'[p] \in {"COMMITTING", "SUCCEEDED", "FAILED"}
    <3>1. CASE \E proposed \in Terminal, e \in BOOLEAN : TryComplete(t, o, proposed, e)
      BY <3>1 DEF TryComplete, FinishExecution, AlreadyTerminal, Proposals, TypeOK, Terminal
    <3>2. CASE (\E k \in Keys : Reserve(t, o, k)) \/ BeginReserved(t, o) \/ BeginRefused(t, o)
      BY <3>2 DEF Reserve, InsertEntry, BeginReserved, BeginRefused, TypeOK, Terminal
    <3>3. CASE Cancel(t, o) \/ TryEnterCommitting(t, o)
      BY <3>3 DEF Cancel, CancelFrom, TryEnterCommitting, TypeOK, Terminal
    <3> QED
      BY <2>2, <3>1, <3>2, <3>3 DEF OperationStep
  <2>3. CASE AdmissionStep(t) \/ SubscriptionStep(t) \/ DrainStep(t)
    <3>1. UNCHANGED status
      BY <2>3 DEF opVars, AdmissionStep, CloseAdmission, CloseAdmissionAndHasActive,
         ResetAdmission, SubscriptionStep, DrainStep, SubscribeWithSnapshot, Register,
         UnsubscribePop, UnsubscribeInCallback, UnsubscribeDeactivate, Deactivate,
         UnsubscribeAgain, vars,
         TakeEdge, FinishDrain, LeaveDrain, SkipInactive, DeliverStart,
         DeliverReturn, DeliverRaise, PruneQuarantined
    <3> QED
      BY <3>1
  <2> QED
    BY <2>1, <2>2, <2>3
<1> QED
  BY <1>1, TypeCorrect, PTL DEF Spec, TerminalIsFinal

-----------------------------------------------------------------------------
(* Refinement of OperationLifecycle.                                        *)

LEMMA PhaseUnchanged ==
    ASSUME UNCHANGED status
    PROVE  [p \in Ops |-> Phase(p)]' = [p \in Ops |-> Phase(p)]
BY DEF Phase

(* A step on one entry changes the phase of that operation only.            *)
LEMMA PhaseOfStep ==
    ASSUME TypeOK, NEW o \in Ops, NEW s, status' = [status EXCEPT ![o] = s]
    PROVE  [p \in Ops |-> Phase(p)]'
               = [[p \in Ops |-> Phase(p)] EXCEPT ![o] = Phase(o)']
<1>1. \A p \in Ops \ {o} : Phase(p)' = Phase(p)
  BY DEF TypeOK, Phase
<1> QED
  BY <1>1

LEMMA InitRefines == Init => Lifecycle!Init
<1> SUFFICES ASSUME Init PROVE Lifecycle!Init
  OBVIOUS
<1>1. \A o \in Ops : Phase(o) = "none"
  BY DEF Init, Phase
<1>2. admissionOpen = TRUE
  BY DEF Init
<1> QED
  BY <1>1, <1>2 DEF Lifecycle!Init

LEMMA OperationStepRefines ==
    ASSUME TypeOK, LifecycleInv, NEW t \in Threads, NEW o \in Ops, OperationStep(t, o)
    PROVE  Lifecycle!Next \/ UNCHANGED Lifecycle!lifecycleVars
<1> DEFINE ph == [p \in Ops |-> Phase(p)]
<1>0. UNCHANGED admissionOpen
  BY DEF OperationStep, Reserve, InsertEntry, BeginReserved, BeginRefused, Cancel,
         CancelFrom, TryEnterCommitting, TryComplete, FinishExecution, admitVars
<1>1. ASSUME NEW k \in Keys, Reserve(t, o, k) PROVE Lifecycle!Submit(o)
  <2>1. admissionOpen /\ status[o] = "ABSENT" /\ status' = [status EXCEPT ![o] = "QUEUED"]
    BY <1>1 DEF Reserve, InsertEntry
  <2>2. Phase(o) = "none" /\ Phase(o)' = "pending"
    BY <2>1 DEF Phase, TypeOK
  <2>3. ph' = [ph EXCEPT ![o] = "pending"]
    BY <2>1, <2>2, PhaseOfStep
  <2> QED
    BY <1>0, <2>1, <2>2, <2>3 DEF Lifecycle!Submit
<1>2. CASE BeginReserved(t, o)
  <2>1. status[o] = "QUEUED" /\ status' = [status EXCEPT ![o] = "RUNNING"]
    BY <1>2 DEF BeginReserved
  <2>2. Phase(o)' = Phase(o)
    BY <2>1 DEF Phase, TypeOK
  <2>3. ph' = ph
    BY <2>1, <2>2, PhaseOfStep
  <2> QED
    BY <1>0, <2>3 DEF Lifecycle!lifecycleVars
<1>3. CASE BeginRefused(t, o)
  <2>1. UNCHANGED status
    BY <1>3 DEF BeginRefused
  <2> QED
    BY <1>0, <2>1, PhaseUnchanged DEF Lifecycle!lifecycleVars
<1>4. CASE Cancel(t, o)
  <2>1. status[o] \in {"QUEUED", "RUNNING"} /\ status' = [status EXCEPT ![o] = "CANCELED"]
    BY <1>4 DEF Cancel, CancelFrom
  <2>2. Phase(o) = "pending" /\ Phase(o)' = "CANCELED"
    BY <2>1 DEF Phase, TypeOK
  <2>3. ph' = [ph EXCEPT ![o] = "CANCELED"]
    BY <2>1, <2>2, PhaseOfStep
  <2>4. Lifecycle!Decide(o, "CANCELED")
    BY <1>0, <2>2, <2>3 DEF Lifecycle!Decide
  <2> QED
    BY <2>4 DEF Lifecycle!Next, Lifecycle!Outcomes
<1>5. CASE TryEnterCommitting(t, o)
  <2>1. status[o] = "RUNNING" /\ status' = [status EXCEPT ![o] = "COMMITTING"]
    BY <1>5 DEF TryEnterCommitting
  <2>2. Phase(o) = "pending" /\ Phase(o)' = "committing"
    BY <2>1 DEF Phase, TypeOK
  <2>3. ph' = [ph EXCEPT ![o] = "committing"]
    BY <2>1, <2>2, PhaseOfStep
  <2>4. Lifecycle!EnterCommit(o)
    BY <1>0, <2>2, <2>3 DEF Lifecycle!EnterCommit
  <2> QED
    BY <2>4 DEF Lifecycle!Next
<1>6. ASSUME NEW proposed \in Terminal, NEW e \in BOOLEAN, TryComplete(t, o, proposed, e)
      PROVE  Lifecycle!Next \/ UNCHANGED Lifecycle!lifecycleVars
  <2>1. CASE status[o] \in Terminal
    <3>1. UNCHANGED status
      BY <1>6, <2>1 DEF TryComplete, FinishExecution, AlreadyTerminal
    <3> QED
      BY <1>0, <3>1, PhaseUnchanged DEF Lifecycle!lifecycleVars
  <2>2. CASE status[o] \notin Terminal
    <3>1. status' = [status EXCEPT ![o] = proposed] /\ proposed \in Proposals(o)
          /\ executionActive[o]
      BY <1>6, <2>2 DEF TryComplete, FinishExecution, AlreadyTerminal
    <3>2. status[o] \in {"RUNNING", "COMMITTING"}
      <4>1. EntryInv(o)
        BY DEF LifecycleInv
      <4> QED
        BY <2>2, <3>1, <4>1 DEF EntryInv, TypeOK, Statuses
    <3>3. Phase(o)' = proposed
      BY <3>1 DEF Phase, TypeOK, Terminal
    <3>4. Phase(o) = "pending" \/ (Phase(o) = "committing" /\ proposed # "CANCELED")
      BY <3>1, <3>2 DEF Phase, Proposals
    <3>5. ph' = [ph EXCEPT ![o] = proposed]
      BY <3>1, <3>3, PhaseOfStep
    <3>6. Lifecycle!Decide(o, proposed)
      BY <1>0, <3>4, <3>5 DEF Lifecycle!Decide
    <3> QED
      BY <3>6 DEF Lifecycle!Next, Lifecycle!Outcomes, Terminal
  <2> QED
    BY <2>1, <2>2
<1> QED
  BY <1>1, <1>2, <1>3, <1>4, <1>5, <1>6 DEF OperationStep, Lifecycle!Next

LEMMA OtherStepRefines ==
    ASSUME TypeOK, NEW t \in Threads,
           AdmissionStep(t) \/ SubscriptionStep(t) \/ DrainStep(t)
    PROVE  Lifecycle!Next \/ UNCHANGED Lifecycle!lifecycleVars
<1>1. UNCHANGED status
  BY DEF opVars, AdmissionStep, CloseAdmission, CloseAdmissionAndHasActive,
         ResetAdmission, SubscriptionStep, DrainStep, SubscribeWithSnapshot, Register,
         UnsubscribePop, UnsubscribeInCallback, UnsubscribeDeactivate, Deactivate,
         UnsubscribeAgain, vars,
         TakeEdge, FinishDrain, LeaveDrain, SkipInactive, DeliverStart,
         DeliverReturn, DeliverRaise, PruneQuarantined
<1>2. CASE AdmissionStep(t)
  <2>1. admissionOpen' \in BOOLEAN
    BY <1>2 DEF AdmissionStep, CloseAdmission, CloseAdmissionAndHasActive, ResetAdmission
  <2>2. Lifecycle!SetAdmission(admissionOpen')
    BY <1>1, PhaseUnchanged DEF Lifecycle!SetAdmission
  <2> QED
    BY <2>1, <2>2 DEF Lifecycle!Next
<1>3. CASE SubscriptionStep(t) \/ DrainStep(t)
  <2>1. UNCHANGED admissionOpen
    BY <1>3 DEF admitVars, SubscriptionStep, DrainStep, SubscribeWithSnapshot, Register,
         UnsubscribePop, UnsubscribeInCallback, UnsubscribeDeactivate, Deactivate,
         UnsubscribeAgain, vars,
         TakeEdge, FinishDrain, LeaveDrain, SkipInactive, DeliverStart,
         DeliverReturn, DeliverRaise, PruneQuarantined
  <2> QED
    BY <1>1, <2>1, PhaseUnchanged DEF Lifecycle!lifecycleVars
<1> QED
  BY <1>2, <1>3

(* The registry implements the abstract lifecycle: each of its steps is one *)
(* of OperationLifecycle or leaves its variables alone.                     *)
THEOREM RegistryImplementsLifecycle == Spec => ImplementsLifecycle
<1>1. Init => Lifecycle!Init
  BY InitRefines
<1>2. TypeOK /\ LifecycleInv /\ [Next]_vars => [Lifecycle!Next]_Lifecycle!lifecycleVars
  <2>1. ASSUME UNCHANGED vars PROVE UNCHANGED Lifecycle!lifecycleVars
    <3>1. UNCHANGED <<status, admissionOpen>>
      BY <2>1 DEF vars, opVars, admitVars
    <3> QED
      BY <3>1, PhaseUnchanged DEF Lifecycle!lifecycleVars
  <2> QED
    BY <2>1, OperationStepRefines, OtherStepRefines DEF Next
<1> QED
  BY <1>1, <1>2, TypeCorrect, LifecycleInvariant, PTL
     DEF Spec, ImplementsLifecycle, Lifecycle!Spec
=============================================================================
