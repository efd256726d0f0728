-------------------------- MODULE OperationRegistry --------------------------
(***************************************************************************)
(* core/operations/registry.py and executor.py: the process-local lifecycle *)
(* of cancellable operations.  One lock protects the entries; each public   *)
(* method is one critical section, followed by the draining of activity     *)
(* notifications OUTSIDE the lock by at most one of the calling threads.    *)
(*                                                                          *)
(* A thread is "idle" (free to call), "drain" (between two listeners or two *)
(* edges of _drain_notifications), in a listener's "callback" (holding that *)
(* subscription's dispatch_lock), about to "prune" a listener that raised,  *)
(* or in "unsub", waiting in unsubscribe() for the dispatch lock.  A thread *)
(* inside a callback may call the registry again (the locks are RLocks).    *)
(***************************************************************************)
EXTENDS Naturals, Sequences, FiniteSets

CONSTANTS Ops,          \* operation ids
          Keys,         \* (kind, idempotency_key) pairs
          Listeners,    \* subscription tokens, each used once
          Threads,      \* threads that call the registry
          None          \* no key, no owner, no listener

ASSUME NoneAssumption == None \notin Keys \cup Listeners \cup Threads

Terminal == {"SUCCEEDED", "FAILED", "CANCELED"}
Statuses == {"ABSENT", "QUEUED", "RUNNING", "COMMITTING"} \cup Terminal

VARIABLES
    status,          \* entry.status, "ABSENT" before reserve
    executionActive, \* entry.execution_active
    canceled,        \* entry.canceled, the Event a worker polls
    identity,        \* the (kind, key) of the entry, inverse of _idempotency
    owner,           \* the thread that runs the operation's handler
    result,          \* what execute() returned: a payload's terminal or none
    admissionOpen,   \* _admission_open
    shutdown,        \* last close_admission_and_has_active_operations answer
    listeners,       \* DOMAIN of _listeners
    fresh,           \* tokens not handed out yet
    subActive,       \* subscription.active
    seen,            \* the activity each listener was last told
    quiet,           \* listeners whose unsubscribe() returned to an outsider
    queue,           \* _notification_queue
    lastEnqueued,    \* _last_enqueued_active
    dispatching,     \* _dispatching_notifications
    pc, edge, todo, target   \* each thread inside _drain_notifications

opVars     == <<status, executionActive, canceled, identity, owner, result>>
admitVars  == <<admissionOpen, shutdown>>
subVars    == <<listeners, fresh, subActive, seen, quiet>>
notifyVars == <<queue, lastEnqueued, dispatching>>
threadVars == <<pc, edge, todo, target>>
vars == <<opVars, admitVars, subVars, notifyVars, threadVars>>

-----------------------------------------------------------------------------
Init ==
    /\ status = [o \in Ops |-> "ABSENT"]
    /\ executionActive = [o \in Ops |-> FALSE]
    /\ canceled = [o \in Ops |-> FALSE]
    /\ identity = [o \in Ops |-> None]
    /\ owner = [o \in Ops |-> None]
    /\ result = [o \in Ops |-> "pending"]
    /\ admissionOpen = TRUE
    /\ shutdown = "none"
    /\ listeners = {}
    /\ fresh = Listeners
    /\ subActive = [l \in Listeners |-> FALSE]
    /\ seen = [l \in Listeners |-> FALSE]
    /\ quiet = {}
    /\ queue = <<>>
    /\ lastEnqueued = FALSE
    /\ dispatching = FALSE
    /\ pc = [t \in Threads |-> "idle"]
    /\ edge = [t \in Threads |-> FALSE]
    /\ todo = [t \in Threads |-> {}]
    /\ target = [t \in Threads |-> None]

(* _has_active_operations_locked: a canceled worker counts until its        *)
(* execution boundary returns.                                              *)
IsActive(o) == status[o] \notin (Terminal \cup {"ABSENT"}) \/ executionActive[o]
Active == \E o \in Ops : IsActive(o)

(* A thread may call the registry when it is free or inside a callback.     *)
CanCall(t) == pc[t] \in {"idle", "callback"}

(* _enqueue_notification_locked, evaluated on the new entries, and the      *)
(* start of the drain when it answers True.                                 *)
Notify(t) ==
    LET pending == IF Active' # lastEnqueued
                   THEN Append(queue, Active') ELSE queue
        shouldDrain == ~dispatching /\ pending # <<>>
    IN  /\ queue' = pending
        /\ lastEnqueued' = Active'
        /\ dispatching' = (dispatching \/ shouldDrain)
        /\ pc' = IF shouldDrain THEN [pc EXCEPT ![t] = "drain"] ELSE pc
        /\ UNCHANGED <<edge, todo, target>>

-----------------------------------------------------------------------------
(* The operation lifecycle.  Definitions named "Faulty..." are plausible    *)
(* bugs of the definition that follows them; no specification uses them.    *)

InsertEntry(t, o, k) ==
    /\ CanCall(t)
    /\ status[o] = "ABSENT"
    /\ status' = [status EXCEPT ![o] = "QUEUED"]
    /\ identity' = [identity EXCEPT ![o] = k]
    /\ UNCHANGED <<executionActive, canceled, owner, result>>
    /\ Notify(t)
    /\ UNCHANGED <<admitVars, subVars>>

IdentityFree(k) == \A p \in Ops : identity[p] # k

FaultyReserveAfterClose(t, o, k) == IdentityFree(k) /\ InsertEntry(t, o, k)

(* A reserve() that finds admission closed, the id taken or the identity    *)
(* taken changes nothing.                                                   *)
Reserve(t, o, k) == admissionOpen /\ IdentityFree(k) /\ InsertEntry(t, o, k)

BeginReserved(t, o) ==
    /\ CanCall(t)
    /\ status[o] = "QUEUED"
    /\ status' = [status EXCEPT ![o] = "RUNNING"]
    /\ executionActive' = [executionActive EXCEPT ![o] = TRUE]
    /\ owner' = [owner EXCEPT ![o] = t]
    /\ UNCHANGED <<canceled, identity, result>>
    /\ Notify(t)
    /\ UNCHANGED <<admitVars, subVars>>

(* execute() of an operation canceled while it was queued: begin_reserved   *)
(* answers None and no handler runs.                                        *)
BeginRefused(t, o) ==
    /\ CanCall(t)
    /\ status[o] = "CANCELED"
    /\ owner[o] = None
    /\ result[o] = "pending"
    /\ result' = [result EXCEPT ![o] = "none"]
    /\ UNCHANGED <<status, executionActive, canceled, identity, owner>>
    /\ UNCHANGED <<admitVars, subVars, notifyVars, threadVars>>

CancelFrom(t, o, cancelable) ==
    /\ CanCall(t)
    /\ status[o] \in cancelable
    /\ canceled' = [canceled EXCEPT ![o] = TRUE]
    /\ status' = [status EXCEPT ![o] = "CANCELED"]
    /\ UNCHANGED <<identity, owner, result>>
    /\ Notify(t)
    /\ UNCHANGED <<admitVars, subVars>>

FaultyCancelWhileCommitting(t, o) ==
    /\ UNCHANGED executionActive
    /\ CancelFrom(t, o, {"QUEUED", "RUNNING", "COMMITTING"})

(* The worker of a canceled operation keeps executing until it polls.       *)
Cancel(t, o) ==
    /\ UNCHANGED executionActive
    /\ CancelFrom(t, o, {"QUEUED", "RUNNING"})

(* A False answer (the operation is not RUNNING) changes nothing.           *)
TryEnterCommitting(t, o) ==
    /\ CanCall(t)
    /\ owner[o] = t
    /\ status[o] = "RUNNING"
    /\ status' = [status EXCEPT ![o] = "COMMITTING"]
    /\ UNCHANGED <<executionActive, canceled, identity, owner, result>>
    /\ Notify(t)
    /\ UNCHANGED <<admitVars, subVars>>

(* What a handler may propose: one that passed the commit gate no longer    *)
(* answers CANCELED (try_complete would raise).                             *)
Proposals(o) == IF status[o] = "COMMITTING" THEN Terminal \ {"CANCELED"}
                ELSE Terminal

FinishExecution(t, o, proposed, alreadyTerminal, stillActive, answer) ==
    /\ CanCall(t)
    /\ owner[o] = t
    /\ executionActive[o]
    /\ proposed \in Proposals(o)
    /\ status' = IF alreadyTerminal THEN status
                 ELSE [status EXCEPT ![o] = proposed]
    /\ canceled' = [canceled EXCEPT ![o] =
                       @ \/ (~alreadyTerminal /\ proposed = "CANCELED")]
    /\ executionActive' = [executionActive EXCEPT ![o] = stillActive]
    /\ result' = [result EXCEPT ![o] = answer]
    /\ UNCHANGED <<identity, owner>>
    /\ Notify(t)
    /\ UNCHANGED <<admitVars, subVars>>

AlreadyTerminal(o) == status[o] \in Terminal

(* execute() hands the payload out only if the winning snapshot is the      *)
(* proposed one.  A cancellation empties the summary, so a worker's own     *)
(* CANCELED candidate equals it only when it carries no details.            *)
Answer(o, proposed, emptySummary) ==
    IF ~AlreadyTerminal(o) \/ (proposed = status[o] /\ emptySummary)
    THEN proposed ELSE "none"

FaultyCompleteOverwrites(t, o, proposed, emptySummary) ==
    FinishExecution(t, o, proposed, FALSE, FALSE, proposed)
FaultyCompleteStaleAnswer(t, o, proposed, emptySummary) ==
    FinishExecution(t, o, proposed, AlreadyTerminal(o), FALSE, status[o])
FaultyCompleteKeepsExecuting(t, o, proposed, emptySummary) ==
    FinishExecution(t, o, proposed, AlreadyTerminal(o), AlreadyTerminal(o),
                    Answer(o, proposed, emptySummary))

(* The finally block of execute(): try_complete, whatever the handler did.  *)
TryComplete(t, o, proposed, emptySummary) ==
    FinishExecution(t, o, proposed, AlreadyTerminal(o), FALSE,
                    Answer(o, proposed, emptySummary))

-----------------------------------------------------------------------------
(* Admission.                                                               *)

CloseAdmission(t) ==
    /\ CanCall(t)
    /\ admissionOpen
    /\ admissionOpen' = FALSE
    /\ UNCHANGED <<shutdown, opVars, subVars, notifyVars, threadVars>>

CloseAdmissionAndHasActive(t) ==
    /\ CanCall(t)
    /\ admissionOpen' = FALSE
    /\ shutdown' = IF Active THEN "busy" ELSE "quiet"
    /\ UNCHANGED <<opVars, subVars, notifyVars, threadVars>>

ResetAdmission(t) ==
    /\ CanCall(t)
    /\ ~admissionOpen
    /\ admissionOpen' = TRUE
    /\ shutdown' = "none"
    /\ UNCHANGED <<opVars, subVars, notifyVars, threadVars>>

-----------------------------------------------------------------------------
(* Subscriptions.                                                           *)

Register(t, l, snapshot) ==
    /\ CanCall(t)
    /\ l \in fresh
    /\ fresh' = fresh \ {l}
    /\ listeners' = listeners \cup {l}
    /\ subActive' = [subActive EXCEPT ![l] = TRUE]
    /\ seen' = [seen EXCEPT ![l] = snapshot]
    /\ UNCHANGED <<quiet, opVars, admitVars, notifyVars, threadVars>>

FaultySubscribeNoSnapshot(t, l) == Register(t, l, FALSE)
SubscribeWithSnapshot(t, l) == Register(t, l, Active)

(* unsubscribe() from outside any callback: leave _listeners under the      *)
(* registry lock, then wait for the subscription's dispatch_lock.           *)
UnsubscribePop(t, l) ==
    /\ pc[t] = "idle"
    /\ l \in listeners
    /\ listeners' = listeners \ {l}
    /\ pc' = [pc EXCEPT ![t] = "unsub"]
    /\ target' = [target EXCEPT ![t] = l]
    /\ UNCHANGED <<edge, todo, fresh, subActive, seen, quiet>>
    /\ UNCHANGED <<opVars, admitVars, notifyVars>>

InCallback(l) == \E t \in Threads : pc[t] = "callback" /\ target[t] = l

Deactivate(t) ==
    LET l == target[t] IN
    /\ pc[t] = "unsub"
    /\ subActive' = [subActive EXCEPT ![l] = FALSE]
    /\ quiet' = quiet \cup {l}
    /\ pc' = [pc EXCEPT ![t] = "idle"]
    /\ target' = [target EXCEPT ![t] = None]
    /\ UNCHANGED <<edge, todo, listeners, fresh, seen>>
    /\ UNCHANGED <<opVars, admitVars, notifyVars>>

FaultyDeactivateWithoutLock(t) == Deactivate(t)
FaultyDeactivateLiveOnly(t) ==
    /\ pc[t] = "unsub"
    /\ ~InCallback(target[t]) /\ subActive[target[t]]
    /\ Deactivate(t)
UnsubscribeDeactivate(t) == ~InCallback(target[t]) /\ Deactivate(t)

(* unsubscribe() called by a listener: the thread already drains, so it is  *)
(* the only one that can hold a dispatch lock for long and never waits.     *)
UnsubscribeInCallback(t, l) ==
    /\ pc[t] = "callback"
    /\ l \in listeners
    /\ listeners' = listeners \ {l}
    /\ subActive' = [subActive EXCEPT ![l] = FALSE]
    /\ UNCHANGED <<fresh, seen, quiet>>
    /\ UNCHANGED <<opVars, admitVars, notifyVars, threadVars>>

(* A second unsubscribe(), or one of a listener that was pruned, finds the  *)
(* token gone and returns at once.  It does not wait for the dispatch lock, *)
(* so its return promises nothing and does not count in quiet.              *)
UnsubscribeAgain(t, l) ==
    /\ CanCall(t)
    /\ l \notin listeners \cup fresh
    /\ UNCHANGED vars

-----------------------------------------------------------------------------
(* _drain_notifications.                                                    *)

TakeEdge(t) ==
    /\ pc[t] = "drain"
    /\ todo[t] = {}
    /\ queue # <<>>
    /\ edge' = [edge EXCEPT ![t] = Head(queue)]
    /\ todo' = [todo EXCEPT ![t] = listeners]
    /\ queue' = Tail(queue)
    /\ UNCHANGED <<dispatching, pc, lastEnqueued, target>>
    /\ UNCHANGED <<opVars, admitVars, subVars>>

LeaveDrain(t, stillDispatching) ==
    /\ pc[t] = "drain"
    /\ todo[t] = {}
    /\ dispatching' = stillDispatching
    /\ pc' = [pc EXCEPT ![t] = "idle"]
    /\ UNCHANGED <<queue, edge, todo, lastEnqueued, target>>
    /\ UNCHANGED <<opVars, admitVars, subVars>>

FaultyFinishDrainStillOn(t) == queue = <<>> /\ LeaveDrain(t, TRUE)
FinishDrain(t) == queue = <<>> /\ LeaveDrain(t, FALSE)

(* The order of the copied listeners is the token order; no property tells  *)
(* two orders apart, so any is allowed.                                     *)
SkipInactive(t, l) ==
    /\ pc[t] = "drain"
    /\ l \in todo[t]
    /\ ~subActive[l]
    /\ todo' = [todo EXCEPT ![t] = @ \ {l}]
    /\ UNCHANGED <<pc, edge, target, opVars, admitVars, subVars, notifyVars>>

DeliverStart(t, l) ==
    /\ pc[t] = "drain"
    /\ l \in todo[t]
    /\ subActive[l]
    /\ todo' = [todo EXCEPT ![t] = @ \ {l}]
    /\ pc' = [pc EXCEPT ![t] = "callback"]
    /\ target' = [target EXCEPT ![t] = l]
    /\ seen' = [seen EXCEPT ![l] = edge[t]]
    /\ UNCHANGED <<edge, listeners, fresh, subActive, quiet>>
    /\ UNCHANGED <<opVars, admitVars, notifyVars>>

DeliverReturn(t) ==
    /\ pc[t] = "callback"
    /\ pc' = [pc EXCEPT ![t] = "drain"]
    /\ target' = [target EXCEPT ![t] = None]
    /\ UNCHANGED <<edge, todo, opVars, admitVars, subVars, notifyVars>>

(* A listener that raises anything is quarantined under its dispatch lock,  *)
(* and removed from _listeners in a later critical section.                 *)
DeliverRaise(t) ==
    /\ pc[t] = "callback"
    /\ subActive' = [subActive EXCEPT ![target[t]] = FALSE]
    /\ pc' = [pc EXCEPT ![t] = "prune"]
    /\ UNCHANGED <<edge, todo, target, listeners, fresh, seen, quiet>>
    /\ UNCHANGED <<opVars, admitVars, notifyVars>>

PruneQuarantined(t) ==
    /\ pc[t] = "prune"
    /\ listeners' = listeners \ {target[t]}
    /\ pc' = [pc EXCEPT ![t] = "drain"]
    /\ target' = [target EXCEPT ![t] = None]
    /\ UNCHANGED <<edge, todo, fresh, subActive, seen, quiet>>
    /\ UNCHANGED <<opVars, admitVars, notifyVars>>

-----------------------------------------------------------------------------
OperationStep(t, o) ==
    \/ \E k \in Keys : Reserve(t, o, k)
    \/ BeginReserved(t, o)
    \/ BeginRefused(t, o)
    \/ Cancel(t, o)
    \/ TryEnterCommitting(t, o)
    \/ \E proposed \in Terminal, emptySummary \in BOOLEAN :
           TryComplete(t, o, proposed, emptySummary)

AdmissionStep(t) ==
    CloseAdmission(t) \/ CloseAdmissionAndHasActive(t) \/ ResetAdmission(t)

SubscriptionStep(t) ==
    \/ \E l \in Listeners : \/ SubscribeWithSnapshot(t, l)
                            \/ UnsubscribePop(t, l)
                            \/ UnsubscribeInCallback(t, l)
                            \/ UnsubscribeAgain(t, l)
    \/ UnsubscribeDeactivate(t)

DrainStep(t) ==
    \/ TakeEdge(t)
    \/ FinishDrain(t)
    \/ \E l \in Listeners : SkipInactive(t, l) \/ DeliverStart(t, l)
    \/ DeliverReturn(t)
    \/ DeliverRaise(t)
    \/ PruneQuarantined(t)

Next ==
    \E t \in Threads :
        \/ \E o \in Ops : OperationStep(t, o)
        \/ AdmissionStep(t)
        \/ SubscriptionStep(t)
        \/ DrainStep(t)

Spec == Init /\ [][Next]_vars

-----------------------------------------------------------------------------
(* Types: every variable holds what the code's annotations say.             *)
TypeOK ==
    /\ status \in [Ops -> Statuses]
    /\ executionActive \in [Ops -> BOOLEAN]
    /\ canceled \in [Ops -> BOOLEAN]
    /\ identity \in [Ops -> Keys \cup {None}]
    /\ owner \in [Ops -> Threads \cup {None}]
    /\ result \in [Ops -> Terminal \cup {"pending", "none"}]
    /\ admissionOpen \in BOOLEAN
    /\ shutdown \in {"none", "busy", "quiet"}
    /\ listeners \in SUBSET Listeners
    /\ fresh \in SUBSET Listeners
    /\ subActive \in [Listeners -> BOOLEAN]
    /\ seen \in [Listeners -> BOOLEAN]
    /\ quiet \in SUBSET Listeners
    /\ queue \in Seq(BOOLEAN)
    /\ lastEnqueued \in BOOLEAN
    /\ dispatching \in BOOLEAN
    /\ pc \in [Threads -> {"idle", "drain", "callback", "prune", "unsub"}]
    /\ edge \in [Threads -> BOOLEAN]
    /\ todo \in [Threads -> SUBSET Listeners]
    /\ target \in [Threads -> Listeners \cup {None}]
    /\ \A t \in Threads : pc[t] \in {"callback", "prune", "unsub"}
                               => target[t] \in Listeners

Draining(t) == pc[t] \in {"drain", "callback", "prune"}

(* A listener that is registered and neither quarantined nor about to be.   *)
Live(l) == l \in listeners /\ subActive[l]

(* What the listener will have been told once everything already queued or  *)
(* in flight is delivered: nothing newer can be lost between the snapshot   *)
(* taken by subscribe_with_snapshot and the edges of the queue.             *)
Destined(l) ==
    IF queue # <<>> THEN queue[Len(queue)]
    ELSE IF \E t \in Threads : l \in todo[t]
         THEN edge[CHOOSE t \in Threads : l \in todo[t]]
         ELSE seen[l]

(* Every live listener is on its way to the truth: the last edge it has     *)
(* seen or will see is the registry's current activity.                     *)
EveryListenerConverges == \A l \in Listeners : Live(l) => Destined(l) = Active

(* When no thread dispatches, every live listener has already been told     *)
(* the current activity ("Deliver immutable state edges in their mutation   *)
(* order", registry.py:408).                                                *)
QuietMeansInformed ==
    ~dispatching => \A l \in Listeners : Live(l) => seen[l] = Active

(* At most one thread drains, exactly when _dispatching_notifications is    *)
(* set, so two threads never deliver edges concurrently and out of order,   *)
(* and a queued edge is never left without a drainer.                       *)
SingleDrainer ==
    /\ \A t, u \in Threads : Draining(t) /\ Draining(u) => t = u
    /\ dispatching <=> \E t \in Threads : Draining(t)
    /\ ~dispatching => queue = <<>>

(* The inductive form of the notification properties: activity is queued    *)
(* whenever it changes, a copied listener is handed the edge in flight, and *)
(* a listener nobody is about to call has seen the last edge.               *)
NotifyInv ==
    /\ lastEnqueued = Active
    /\ SingleDrainer
    /\ queue # <<>> => queue[Len(queue)] = lastEnqueued
    /\ \A t \in Threads : todo[t] # {} => Draining(t)
    /\ \A t \in Threads : todo[t] # {} /\ queue = <<>> => edge[t] = lastEnqueued
    /\ \A l \in Listeners :
          Live(l) /\ queue = <<>> /\ (\A t \in Threads : l \notin todo[t])
              => seen[l] = lastEnqueued

(* Once unsubscribe() has returned to a caller outside the callback, that   *)
(* listener is not running and never runs again, although the drainer       *)
(* copied the listener table before.                                        *)
UnsubscribedIsQuiet == \A l \in quiet : ~InCallback(l) /\ ~subActive[l]

(* The inductive form: a token is used once, so what was unsubscribed is    *)
(* never registered again.                                                  *)
UnsubscribeInv ==
    /\ UnsubscribedIsQuiet
    /\ fresh \cap (quiet \cup listeners) = {}
    /\ \A t \in Threads : pc[t] = "unsub" => target[t] \notin fresh

(* Cancel and commit are linearized: an accepted cancellation is final, the *)
(* worker that lost the race never hands out a saved payload, and the flag  *)
(* a worker polls never disagrees with the status others see.               *)
CancelIsFinal ==
    \A o \in Ops : /\ canceled[o] <=> status[o] = "CANCELED"
                   /\ canceled[o] => result[o] \notin {"SUCCEEDED", "FAILED"}

(* A payload is handed to the caller only by the completion that won, so    *)
(* what a bridge shows is what every snapshot says.                         *)
PayloadFromWinner == \A o \in Ops : result[o] \in Terminal => result[o] = status[o]

(* Two reservations never share (kind, idempotency_key).                    *)
IdentityUnique ==
    \A o, p \in Ops : identity[o] = identity[p] /\ identity[o] # None => o = p

(* The shutdown answer "nothing is active" cannot become stale while        *)
(* admission stays closed: no operation starts behind the closing window.   *)
QuietShutdownIsFinal == shutdown = "quiet" => ~Active

(* The inductive form of the lifecycle properties.                          *)
EntryInv(o) ==
    /\ canceled[o] <=> status[o] = "CANCELED"
    /\ canceled[o] => result[o] \notin {"SUCCEEDED", "FAILED"}
    /\ result[o] \in Terminal => result[o] = status[o]
    /\ executionActive[o] <=> owner[o] # None /\ result[o] = "pending"
    /\ status[o] \in {"ABSENT", "QUEUED"} => owner[o] = None /\ result[o] = "pending"
    /\ status[o] \in {"RUNNING", "COMMITTING"} => executionActive[o]
    /\ result[o] # "pending" => status[o] \in Terminal
    /\ status[o] = "ABSENT" <=> identity[o] = None

LifecycleInv ==
    /\ \A o \in Ops : EntryInv(o)
    /\ IdentityUnique
    /\ shutdown = "quiet" => ~admissionOpen /\ ~Active

(* A terminal status never changes, and COMMITTING is left only by the      *)
(* worker: no late cancel undoes a commit in progress.                      *)
TerminalIsFinal ==
    [][\A o \in Ops :
          /\ status[o] \in Terminal => status'[o] = status[o]
          /\ status[o] = "COMMITTING" =>
                 status'[o] \in {"COMMITTING", "SUCCEEDED", "FAILED"}]_vars

(* The registry implements the abstract lifecycle: QUEUED and RUNNING are   *)
(* both "pending", and all of the notification machinery is invisible.      *)
Phase(o) == CASE status[o] = "ABSENT" -> "none"
              [] status[o] \in {"QUEUED", "RUNNING"} -> "pending"
              [] status[o] = "COMMITTING" -> "committing"
              [] OTHER -> status[o]

Lifecycle == INSTANCE OperationLifecycle
                 WITH phase <- [o \in Ops |-> Phase(o)], accepting <- admissionOpen

ImplementsLifecycle == Lifecycle!Spec

(* An operation ends when it is terminal and its worker has left execute(). *)
Over(o) == status[o] \in Terminal /\ ~executionActive[o]
=============================================================================
