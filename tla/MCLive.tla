-------------------------------- MODULE MCLive ---------------------------------
(* What must end, on small instances: the operations and the notifications  *)
(* of the registry, and the runs of a page with their worker processes; one *)
(* of the two is picked at the start and runs alone.                        *)
EXTENDS RunProcess

CONSTANTS Ops, Keys, Listeners, Threads, None

VARIABLES
    part,
    returned,  \* operations whose handler returned or raised, in execute()'s finally
    \* the registry
    status, executionActive, canceled, identity, owner, result, admission, shutdown,
    listeners, fresh, subActive, seen, quiet, queue, lastEnqueued, dispatching,
    pc, edge, todo, target

R == INSTANCE OperationRegistry WITH admissionOpen <- admission

registry ==
    <<status, executionActive, canceled, identity, owner, result, admission, shutdown,
      listeners, fresh, subActive, seen, quiet, queue, lastEnqueued, dispatching,
      pc, edge, todo, target>>
allVars == <<part, returned, registry, vars>>

MCInit == part \in {"registry", "page"} /\ returned = {} /\ R!Init /\ Init

(* Any call of a thread; one whose handler has not returned completes       *)
(* nothing, and one whose handler has returned only completes.              *)
Calls(t) ==
    /\ \A o \in returned : owner[o] # t
    /\ \/ \E o \in Ops : R!OperationStep(t, o)
       \/ R!AdmissionStep(t)
       \/ R!SubscriptionStep(t)
       \/ R!DrainStep(t)
    /\ \A o \in Ops : executionActive[o] => executionActive'[o]
    /\ UNCHANGED returned

(* The handler of o returns or raises, and execute() goes to its finally.   *)
(* Nothing obliges a handler to do so.                                      *)
HandlerReturns(o) ==
    /\ executionActive[o]
    /\ o \notin returned
    /\ pc[owner[o]] = "idle"
    /\ returned' = returned \cup {o}
    /\ UNCHANGED registry

Completes(o) ==
    /\ o \in returned
    /\ \E t \in Threads, proposed \in R!Terminal, e \in BOOLEAN :
           R!TryComplete(t, o, proposed, e)
    /\ returned' = returned \ {o}

RegistryStep == (\E t \in Threads : Calls(t))
                    \/ \E o \in Ops : HandlerReturns(o) \/ Completes(o)

MCNext ==
    /\ UNCHANGED part
    /\ \/ part = "registry" /\ RegistryStep /\ UNCHANGED vars
       \/ part = "page" /\ Next /\ UNCHANGED <<returned, registry>>

(* The fairness of the two parts: a thread inside the registry goes on,     *)
(* and so do the Qt thread, the worker, a process that was told to          *)
(* terminate and the operation of another page.  A reserved operation need  *)
(* not be begun, nor a handler return.                                      *)
MCFairness ==
    /\ \A t \in Threads :
          /\ WF_allVars(part = "registry" /\ R!DrainStep(t)
                         /\ UNCHANGED <<part, returned, vars>>)
          /\ WF_allVars(part = "registry" /\ R!UnsubscribeDeactivate(t)
                         /\ UNCHANGED <<part, returned, vars>>)
    /\ \A o \in Ops :
          WF_allVars(part = "registry" /\ Completes(o) /\ UNCHANGED <<part, vars>>)
    /\ WF_allVars(part = "page" /\ QtRuns /\ UNCHANGED <<part, returned, registry>>)
    /\ WF_allVars(part = "page" /\ ChildRuns /\ UNCHANGED <<part, returned, registry>>)
    /\ WF_allVars(part = "page" /\ sigterm /\ ChildDies
                   /\ UNCHANGED <<part, returned, registry>>)
    /\ WF_allVars(part = "page" /\ OtherEnds /\ UNCHANGED <<part, returned, registry>>)

MCSpec == MCInit /\ [][MCNext]_allVars /\ MCFairness

-----------------------------------------------------------------------------
(* A canceled run releases its page (rs_run_bridge.py cancel).              *)
PageIsReleased == (part = "page" /\ CancelTaken) ~> (part = "page" => PageIsFree)

(* An operation whose handler has returned or raised ends, canceled         *)
(* meanwhile or not, and is active no longer (registry.py, executor.py).    *)
OperationsEnd ==
    \A o \in Ops : (part = "registry" /\ o \in returned) ~> (part = "registry" => R!Over(o))

(* A drain of notifications ends, although other threads keep queueing      *)
(* edges, and unsubscribe() does not wait for ever behind one (registry.py).*)
DispatchEnds ==
    /\ (part = "registry" /\ dispatching) ~> (part = "registry" => ~dispatching)
    /\ \A t \in Threads :
          (part = "registry" /\ pc[t] = "unsub") ~> (part = "registry" => pc[t] = "idle")
=============================================================================
