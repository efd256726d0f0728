--------------------------- MODULE MasterDataPage ---------------------------
(***************************************************************************)
(* The master data page (desktop_qml/master_data_bridge.py): an import in a *)
(* worker process or on a pool thread, its cancellation with a delayed kill,*)
(* and the refresh of all profiles.  What an import writes is MasterData's. *)
(***************************************************************************)
EXTENDS Naturals, FiniteSets

CONSTANTS MaxImports,  \* imports started in one session of the model
          Securities   \* securities the refresh goes through

VARIABLES
    import,   \* the import the page waits for
    op,       \* its operation in the registry of this process
    timers,   \* the imports whose delayed kill is still to come
    status,   \* what the page says about the last import
    stored,   \* the stored securities
    refresh   \* the refresh under way and what the page says of the last one

vars == <<import, op, timers, status, stored, refresh>>

NoRefresh == [state |-> "none", todo |-> {}, updated |-> {}, said |-> {}]

Init ==
    /\ \E packaged \in BOOLEAN :
          import = [packaged |-> packaged, number |-> 0, state |-> "none",
                    committed |-> FALSE, said |-> "none"]
    /\ op = "none" /\ timers = {} /\ status = "none"
    /\ stored = Securities /\ refresh = NoRefresh

ImportRunning == import.state # "none"
RefreshSame == UNCHANGED <<stored, refresh>>

-----------------------------------------------------------------------------
(* The registry refuses behind a close guard.  For a process the slot has   *)
(* set its handle by then, and the process is never started: the page waits *)
(* for it for good.  A task reports the refusal as a failure.               *)
ImportSecurities ==
    /\ ~ImportRunning /\ import.number < MaxImports
    /\ \E admitted \in BOOLEAN :
          /\ import' = [import EXCEPT !.number = @ + 1, !.committed = FALSE, !.said = "none",
                          !.state = IF admitted THEN "running"
                                    ELSE IF import.packaged THEN "unstarted" ELSE "exited"]
          /\ op' = IF admitted THEN "active" ELSE "none"
    /\ status' = "progress"
    /\ UNCHANGED timers /\ RefreshSame

(* The batch is committed; the worker prints its result afterwards and exits*)
(* with 0 only if it was.  The task's registry admits the commit.           *)
WorkerCommits ==
    /\ import.state = "running" /\ ~import.committed /\ import.said = "none"
    /\ import.packaged \/ op = "active"
    /\ import' = [import EXCEPT !.committed = TRUE]
    /\ op' = IF import.packaged THEN op ELSE "committing"
    /\ UNCHANGED <<timers, status>> /\ RefreshSame

SecurityImportWorker ==
    /\ import.state = "running" /\ import.said = "none"
    /\ \E said \in {"result", "error"} :
          /\ import.committed => said = "result"
          /\ import' = [import EXCEPT !.said = said, !.state = "exited"]
    /\ op' = IF import.packaged \/ op = "canceled" THEN op ELSE "done"
    /\ UNCHANGED <<timers, status>> /\ RefreshSame

(* Terminated, killed, crashed or never started: nothing was printed yet.   *)
WorkerDies ==
    /\ import.packaged /\ import.state = "running"
    /\ import' = [import EXCEPT !.state = "exited"]
    /\ UNCHANGED <<op, timers, status>> /\ RefreshSame

(* A process is terminated, and killed a while later; a task is canceled    *)
(* unless it is committing.                                                 *)
CancelImport ==
    /\ ImportRunning
    /\ IF import.packaged
       THEN /\ op' = IF op = "active" THEN "canceled" ELSE op
            /\ timers' = timers \cup {import.number}
       ELSE op = "active" /\ op' = "canceled" /\ UNCHANGED timers
    /\ UNCHANGED <<import, status>> /\ RefreshSame

(* It kills the process the page has by then.                               *)
KillImportProcess ==
    /\ \E n \in timers : timers' = timers \ {n}
    /\ import' = IF import.packaged /\ import.state = "running"
                 THEN [import EXCEPT !.state = "exited"] ELSE import
    /\ UNCHANGED <<op, status>> /\ RefreshSame

(* _on_import_finished; the page reads its lists again if there is a result.*)
Finish(result, outcome) ==
    /\ import' = [import EXCEPT !.state = "none"]
    /\ status' = IF result THEN (IF import.committed THEN "success" ELSE "rejected") ELSE "nothing saved"
    /\ op' = outcome
    /\ UNCHANGED timers /\ RefreshSame

(* try_complete leaves a canceled operation as it is.                       *)
TryComplete == IF op = "active" THEN "done" ELSE op

FaultyOnImportProcessFinished ==
    /\ import.packaged /\ import.state = "exited"
    /\ Finish(import.said = "result", op)

OnImportProcessFinished ==
    /\ import.packaged /\ import.state = "exited"
    /\ Finish(import.said = "result", TryComplete)

(* Qt may report a crash before the last output is read.                    *)
OnImportProcessError ==
    /\ import.packaged /\ import.state = "exited"
    /\ Finish(FALSE, TryComplete)

OnImportFinished ==
    /\ ~import.packaged /\ import.state = "exited"
    /\ Finish(import.said = "result", op)

-----------------------------------------------------------------------------
(* refresh_all_security_profiles: the list, the provider, and one           *)
(* transaction for each security.                                           *)

ImportSame == UNCHANGED <<import, op, timers, status>>

RefreshSecurities ==
    /\ refresh.state = "none"
    /\ refresh' = [NoRefresh EXCEPT !.state = "updating", !.todo = stored]
    /\ UNCHANGED stored /\ ImportSame

(* A security that is gone raises what the loop does not catch.             *)
RefreshOne ==
    /\ refresh.state = "updating"
    /\ \E s \in refresh.todo :
          refresh' = IF s \notin stored THEN [refresh EXCEPT !.state = "failed"]
                     ELSE [refresh EXCEPT !.todo = @ \ {s}, !.updated = @ \cup {s}]
    /\ UNCHANGED stored /\ ImportSame

OnRefreshFinished ==
    /\ refresh.state = "failed" \/ (refresh.state = "updating" /\ refresh.todo = {})
    /\ refresh' = [refresh EXCEPT !.state = "none",
                                  !.said = IF refresh.state = "failed" THEN {} ELSE refresh.updated]
    /\ UNCHANGED stored /\ ImportSame

DeleteSecurity ==
    /\ \E s \in stored : stored' = stored \ {s}
    /\ UNCHANGED refresh /\ ImportSame

-----------------------------------------------------------------------------
Next ==
    \/ ImportSecurities \/ WorkerCommits \/ SecurityImportWorker \/ WorkerDies
    \/ CancelImport \/ KillImportProcess
    \/ OnImportProcessFinished \/ OnImportProcessError \/ OnImportFinished
    \/ RefreshSecurities \/ RefreshOne \/ OnRefreshFinished \/ DeleteSecurity

Spec == Init /\ [][Next]_vars

-----------------------------------------------------------------------------
Imports == [packaged : BOOLEAN, number : 0..MaxImports,
            state : {"none", "running", "unstarted", "exited"},
            committed : BOOLEAN, said : {"none", "result", "error"}]
Refreshes == [state : {"none", "updating", "failed"}, todo : SUBSET Securities,
              updated : SUBSET Securities, said : SUBSET Securities]

TypeOK ==
    /\ import \in Imports
    /\ op \in {"none", "active", "committing", "canceled", "done"}
    /\ timers \subseteq 1..MaxImports
    /\ status \in {"none", "progress", "success", "rejected", "nothing saved"}
    /\ stored \subseteq Securities /\ refresh \in Refreshes

(* The registry never keeps an import active that the page has finished: it *)
(* would ask before every close, and refuse a reset, for good.              *)
ImportEndsInRegistry == op \in {"active", "committing"} => ImportRunning

(* What keeps it: only a task passes the commit gate of the registry, and   *)
(* it has left the registry when it exits.                                  *)
ImportInv ==
    /\ op = "committing" => ~import.packaged
    /\ op \in {"active", "committing"} => import.state \in {"running", "exited"}
    /\ import.state = "exited" /\ ~import.packaged => op \notin {"active", "committing"}
    /\ ImportRunning => import.number > 0

PageInv == TypeOK /\ ImportInv

-----------------------------------------------------------------------------
(* What does not hold.                                                      *)

(* The page says that nothing was saved only if nothing was.                *)
NothingSavedIsTrue == status = "nothing saved" => ~import.committed

(* The page waits only for an import that goes on.                          *)
WaitsForSomething == import.state # "unstarted"

(* The delayed kill hits the import it was set for.                         *)
KillsItsOwn ==
    [][Cardinality(timers') < Cardinality(timers) /\ import' # import
         => import.number \in timers]_vars

(* The page lists every profile that a refresh has replaced.                *)
RefreshSaysWhatItDid == refresh.state = "none" => refresh.said = refresh.updated
=============================================================================
