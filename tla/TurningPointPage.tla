-------------------------- MODULE TurningPointPage --------------------------
(***************************************************************************)
(* The turning point page (desktop_qml/turning_point_bridge.py): the form,  *)
(* the resource preflight, the run in a worker process or on a pool thread, *)
(* the list of saved runs the page keeps in memory, the run it shows and    *)
(* the report about it.  RunProcess has the pipes and the consent gate of   *)
(* such a worker in detail; here a job is as fine as the page sees it.      *)
(*                                                                          *)
(* Whatever the page shows was read from the database by another thread     *)
(* some time ago, and is applied later by a slot of the Qt thread.          *)
(***************************************************************************)
EXTENDS Naturals

CONSTANTS MaxRuns,     \* runs launched in one session of the model
          MaxReports   \* reports written about one run

VARIABLES
    store,   \* the table: saved runs, each with its number of reports
    form,    \* the date asked for, and the preflight's request and answer
    job,     \* the run under way
    view,    \* what the page shows: the list, the selected run, its report
    tasks,   \* the support data and the report under way
    deleted  \* runs deleted while no older list was under way

vars == <<store, form, job, view, tasks, deleted>>

Runs == 1..MaxRuns
NoRows == [r \in {} |-> 0]
NoReport == [run |-> 0, text |-> 0]
NoReportTask == [run |-> 0, state |-> "none", text |-> 0]
NoSupport == [state |-> "none", rows |-> NoRows]

Init ==
    /\ store = NoRows
    /\ form = [date |-> "none", checking |-> "none", kept |-> "none", budget |-> "none"]
    /\ \E packaged \in BOOLEAN :
          job = [packaged |-> packaged, launched |-> 0, running |-> FALSE, state |-> "none",
                 outcome |-> "none", canceled |-> FALSE, offer |-> FALSE,
                 registered |-> FALSE, raised |-> FALSE, listed |-> NoRows]
    /\ view = [records |-> NoRows, selected |-> 0, results |-> 0, report |-> NoReport]
    /\ tasks = [support |-> NoSupport, report |-> NoReportTask]
    /\ deleted = {}

-----------------------------------------------------------------------------
(* The form, with everything a request holds folded into its date: a form   *)
(* without a stock pool or with a future date has none.                     *)

SetEndDate ==
    /\ \E date \in {"none", "picked"} : form' = [form EXCEPT !.date = date]
    /\ UNCHANGED <<store, job, view, tasks, deleted>>

(* The calendar's answer, whenever it comes, replaces the date the user may *)
(* have set by then.                                                        *)
CalendarReturns ==
    /\ form' = [form EXCEPT !.date = "latest"]
    /\ UNCHANGED <<store, job, view, tasks, deleted>>

CanStart == form.date # "none" /\ ~job.running /\ form.checking = "none"

Start ==
    /\ CanStart /\ job.launched < MaxRuns
    /\ form' = [form EXCEPT !.checking = form.date, !.kept = form.date, !.budget = "none"]
    /\ UNCHANGED <<store, job, view, tasks, deleted>>

(* A fresh gate, then the job.  The registry may refuse it behind a close   *)
(* guard: a process goes on all the same, a pool task fails.                *)
LaunchRun ==
    \E registered \in BOOLEAN :
       job' = [job EXCEPT !.launched = @ + 1, !.running = TRUE, !.state = "working",
                          !.registered = registered]

(* _on_budget_finished: an answer about another request than the kept one   *)
(* is ignored; a failed check drops the request, full storage keeps it with *)
(* no way on, a small task starts.                                          *)
BudgetReturns ==
    /\ form.checking # "none"
    /\ IF form.checking # form.kept
       THEN form' = [form EXCEPT !.checking = "none"] /\ UNCHANGED job
       ELSE \/ LaunchRun /\ form' = [form EXCEPT !.checking = "none"]
            \/ /\ \/ \E answer \in {"confirm", "blocked"} :
                        form' = [form EXCEPT !.checking = "none", !.budget = answer]
                  \/ form' = [form EXCEPT !.checking = "none", !.kept = "none", !.budget = "none"]
               /\ UNCHANGED job
    /\ UNCHANGED <<store, view, tasks, deleted>>

(* The dialog is up as long as the form still has the request it is about.  *)
ConfirmationVisible == form.budget = "confirm" /\ form.kept = form.date /\ ~job.running

DropBudget == form' = [form EXCEPT !.kept = "none", !.budget = "none"]

ConfirmBudget ==
    /\ ConfirmationVisible /\ job.launched < MaxRuns
    /\ LaunchRun
    /\ DropBudget
    /\ UNCHANGED <<store, view, tasks, deleted>>

(* The same, with the request moved to the fallback source.                 *)
UseYahooForBudget == ConfirmBudget

DismissBudget ==
    /\ ConfirmationVisible
    /\ DropBudget
    /\ UNCHANGED <<store, job, view, tasks, deleted>>

-----------------------------------------------------------------------------
(* The job: a process whose end is announced, or a task whose answer, with  *)
(* the list of runs it read, is queued.                                     *)

Job(from, change) ==
    /\ job.state \in from
    /\ job' = change
    /\ UNCHANGED <<form, view, tasks, deleted>>

(* present: a gate that has its answer sends it at once.                    *)
JobAsks ==
    /\ Job({"working"}, IF job.canceled THEN [job EXCEPT !.state = "decided"]
                        ELSE [job EXCEPT !.state = "waiting", !.offer = TRUE])
    /\ UNCHANGED store

AnsweredState == IF job.state = "waiting" THEN "decided" ELSE job.state

ResolveOffer ==
    /\ job.offer
    /\ Job({job.state}, [job EXCEPT !.state = AnsweredState, !.offer = FALSE])
    /\ UNCHANGED store

MaySave == job.packaged \/ job.registered

JobSaves ==
    /\ MaySave
    /\ Job({"working", "decided"}, [job EXCEPT !.state = "saved", !.outcome = "READY"])
    /\ store' = [r \in DOMAIN store \cup {job.launched} |-> IF r \in DOMAIN store THEN store[r] ELSE 0]

JobFails ==
    /\ MaySave
    /\ Job({"working", "decided"}, [job EXCEPT !.state = "failed", !.outcome = "FAILED"])
    /\ UNCHANGED store

(* Killed by a signal or a fault: what it had to say is in the pipe, or not.*)
ProcessEnds ==
    /\ job.packaged
    /\ \E said \in {job.outcome, "none"} :
          Job({"working", "waiting", "decided", "saved", "failed"},
              [job EXCEPT !.state = "exited", !.outcome = said])
    /\ UNCHANGED store

(* _Task.run: refused by the registry, or the result and the list it reads  *)
(* then, which may fail.                                                    *)
TaskEnds ==
    /\ ~job.packaged
    /\ \/ /\ ~job.registered
          /\ Job({"working"}, [job EXCEPT !.state = "exited", !.outcome = "refused"])
       \/ /\ job.registered
          /\ \E rows \in {store, NoRows} :
                Job({"saved", "failed", "canceling"},
                    [job EXCEPT !.state = "exited", !.listed = rows,
                                !.outcome = IF job.state = "canceling" THEN "CANCELED" ELSE @])
    /\ UNCHANGED store

(* cancel(): the gate declines; a process is terminated and may go on for   *)
(* some steps, a task is canceled in the registry unless it already saves.  *)
Cancel ==
    /\ job.running
    /\ IF job.packaged
       THEN Job({"working", "waiting", "decided", "saved", "failed"},
                [job EXCEPT !.canceled = TRUE, !.state = AnsweredState, !.offer = FALSE])
       ELSE /\ job.registered
            /\ Job({"working", "waiting", "decided"},
                   [job EXCEPT !.state = "canceling", !.offer = FALSE])
    /\ UNCHANGED store

-----------------------------------------------------------------------------
(* What the page shows of the saved runs.                                   *)

(* _apply_projection and the reset of the report beside it.                 *)
Shown(r, text, rows) ==
    [records |-> rows, selected |-> r, results |-> r,
     report |-> IF text = 0 THEN NoReport ELSE [run |-> r, text |-> text]]

ApplyHistory(rows) == [view EXCEPT !.records = rows]

Idle == [job EXCEPT !.state = "none", !.outcome = "none", !.canceled = FALSE, !.listed = NoRows]
Ended == [Idle EXCEPT !.running = FALSE]

(* Another exception of a task (a provider cannot be built, the handler     *)
(* raises) announces no end, and an answer that is no result (a task        *)
(* canceled before it began) is ignored: the page stays busy.               *)
TaskRaises ==
    /\ ~job.packaged /\ job.registered
    /\ Job({"working", "decided", "canceling"}, [Idle EXCEPT !.raised = TRUE])
    /\ UNCHANGED store

FaultyFinishProcess(shownRun, rows) ==
    /\ job' = Ended
    /\ view' = Shown(shownRun, 0, rows)
    /\ UNCHANGED <<store, form, tasks, deleted>>

(* _finish_process_run: the gate declines; completing an operation the      *)
(* registry does not know raises, and the page stays as it is.              *)
FinishProcess(shownRun, rows) ==
    /\ IF job.registered
       THEN /\ job' = [Ended EXCEPT !.offer = FALSE]
            /\ view' = IF shownRun \in DOMAIN rows THEN Shown(shownRun, 0, rows)
                       ELSE ApplyHistory(rows)
       ELSE job' = [Idle EXCEPT !.offer = FALSE] /\ UNCHANGED view
    /\ UNCHANGED <<store, form, tasks, deleted>>

(* _on_run_process_finished reads the list in the slot; a failure to read   *)
(* it leaves an empty one.                                                  *)
OnProcessFinished ==
    /\ job.packaged /\ job.state = "exited"
    /\ \E rows \in {store, NoRows} :
          FinishProcess(IF job.outcome = "READY" THEN job.launched ELSE 0, rows)

(* _on_run_process_error: it could not start, or Qt reports a crash before  *)
(* the last lines of the pipe are read.                                     *)
OnProcessError ==
    /\ job.packaged /\ job.state = "exited"
    /\ FinishProcess(0, NoRows)

(* _on_finished for a run: the result itself is shown, whatever the list.   *)
OnTaskFinished ==
    /\ ~job.packaged /\ job.state = "exited"
    /\ job' = Ended
    /\ view' = CASE job.outcome = "refused" -> view
                 [] job.outcome = "READY" -> Shown(job.launched, 0, job.listed)
                 [] OTHER -> ApplyHistory(job.listed)
    /\ UNCHANGED <<store, form, tasks, deleted>>

SelectRun(r) ==
    /\ r \in DOMAIN view.records
    /\ view' = Shown(r, view.records[r], view.records)
    /\ UNCHANGED <<store, form, job, tasks, deleted>>

(* The display timezone changes: the rows in memory are projected again.    *)
RefreshDisplayTimezone == SelectRun(view.selected)

PrepareNewRun ==
    /\ ~job.running /\ form.checking = "none"
    /\ view' = Shown(0, 0, view.records)
    /\ UNCHANGED <<store, form, job, tasks, deleted>>

Without(rows, r) == [q \in DOMAIN rows \ {r} |-> rows[q]]

(* A list of runs was read and is still to be applied.                      *)
ListUnderWay == tasks.support.state = "read" \/ (~job.packaged /\ job.state = "exited")

Delete(r, shown) ==
    /\ r \in DOMAIN view.records \cap DOMAIN store
    /\ store' = Without(store, r)
    /\ deleted' = IF ListUnderWay THEN deleted ELSE deleted \cup {r}
    /\ view' = shown
    /\ UNCHANGED <<form, job, tasks>>

FaultyDeleteHistory(r) == Delete(r, [view EXCEPT !.selected = IF @ = r THEN 0 ELSE @])

DeleteHistory(r) ==
    Delete(r, IF view.selected = r THEN Shown(0, 0, Without(view.records, r))
              ELSE ApplyHistory(Without(view.records, r)))

-----------------------------------------------------------------------------
(* Support data (pools and history) and reports, each by one task at a time.*)

Support(from, to) ==
    /\ tasks.support.state = from
    /\ tasks' = [tasks EXCEPT !.support = to]
    /\ UNCHANGED <<store, form, job, deleted>>

LoadSupportData == Support("none", [NoSupport EXCEPT !.state = "asked"]) /\ UNCHANGED view
SupportReads == Support("asked", [state |-> "read", rows |-> store]) /\ UNCHANGED view
SupportReturns == Support("read", NoSupport) /\ view' = ApplyHistory(tasks.support.rows)

GenerateReport ==
    /\ view.selected # 0 /\ view.results # 0
    /\ tasks.report = NoReportTask
    /\ tasks' = [tasks EXCEPT !.report = [run |-> view.selected, state |-> "asked", text |-> 0]]
    /\ UNCHANGED <<store, form, job, view, deleted>>

(* generate_turning_point_report appends to the row, if it still exists.    *)
ReportWritten ==
    LET r == tasks.report.run
    IN  /\ tasks.report.state = "asked"
        /\ \/ /\ r \in DOMAIN store /\ store[r] < MaxReports
              /\ store' = [store EXCEPT ![r] = @ + 1]
              /\ tasks' = [tasks EXCEPT !.report = [run |-> r, state |-> "written", text |-> store'[r]]]
           \/ tasks' = [tasks EXCEPT !.report.state = "failed"] /\ UNCHANGED store
        /\ UNCHANGED <<form, job, view, deleted>>

(* _on_finished for a report.  The rows in memory do not get it.            *)
ReportReturnsWhen(shown) ==
    /\ tasks.report.state \in {"written", "failed"}
    /\ tasks' = [tasks EXCEPT !.report = NoReportTask]
    /\ view' = IF shown /\ tasks.report.state = "written"
               THEN [view EXCEPT !.report = [run |-> tasks.report.run, text |-> tasks.report.text]]
               ELSE view
    /\ UNCHANGED <<store, form, job, deleted>>

FaultyReportReturns == ReportReturnsWhen(TRUE)
ReportReturns == ReportReturnsWhen(tasks.report.run = view.selected)

-----------------------------------------------------------------------------
Next ==
    \/ SetEndDate \/ CalendarReturns
    \/ Start \/ BudgetReturns \/ ConfirmBudget \/ DismissBudget
    \/ JobAsks \/ ResolveOffer \/ JobSaves \/ JobFails \/ ProcessEnds \/ TaskEnds \/ TaskRaises \/ Cancel
    \/ OnProcessFinished \/ OnProcessError \/ OnTaskFinished
    \/ \E r \in Runs : SelectRun(r) \/ DeleteHistory(r)
    \/ PrepareNewRun
    \/ LoadSupportData \/ SupportReads \/ SupportReturns
    \/ GenerateReport \/ ReportWritten \/ ReportReturns

Spec == Init /\ [][Next]_vars

-----------------------------------------------------------------------------
Rows == UNION {[S -> 0..MaxReports] : S \in SUBSET Runs}
Reports == [run : 0..MaxRuns, text : 0..MaxReports]

Dates == {"none", "picked", "latest"}
Forms == [date : Dates, checking : Dates, kept : Dates, budget : {"none", "confirm", "blocked"}]
JobStates == {"none", "working", "waiting", "decided", "canceling", "saved", "failed", "exited"}
Outcomes == {"none", "READY", "FAILED", "CANCELED", "refused"}
Jobs == [packaged : BOOLEAN, launched : 0..MaxRuns, running : BOOLEAN, state : JobStates,
         outcome : Outcomes, canceled : BOOLEAN, offer : BOOLEAN, registered : BOOLEAN, raised : BOOLEAN,
         listed : Rows]
Views == [records : Rows, selected : 0..MaxRuns, results : 0..MaxRuns, report : Reports]
Supports == [state : {"none", "asked", "read"}, rows : Rows]
ReportTasks == [run : 0..MaxRuns, state : {"none", "asked", "written", "failed"}, text : 0..MaxReports]

TypeOK ==
    /\ store \in Rows /\ deleted \subseteq Runs /\ form \in Forms /\ job \in Jobs
    /\ view \in Views /\ tasks \in [support : Supports, report : ReportTasks]

(* The results and the report on the page are those of the selected run,    *)
(* whatever was selected, deleted or started while the report was written.  *)
ShownTogether ==
    /\ view.results = view.selected
    /\ view.report # NoReport => view.report.run = view.selected

(* The page is busy exactly while a job is: only a process launched behind  *)
(* a close guard, which the registry refused, and a task that told no end   *)
(* leave it busy for good.                                                  *)
BusyWithJob ==
    /\ job.state # "none" => job.running
    /\ job.running => job.state # "none" \/ (job.packaged /\ ~job.registered) \/ job.raised

(* The question about the fallback source never outlives its job.           *)
OfferHasJob == job.offer => job.state # "none"

(* A deleted run comes back only by a list read before it was deleted.      *)
DeletedStaysGone == deleted \cap DOMAIN view.records = {}

(* What keeps them: a preflight is under way only while no run is, a        *)
(* question is open only for a waiting worker or one whose end is not told  *)
(* yet, and a list still to be applied was read after what it misses was    *)
(* deleted.                                                                 *)
FormInv ==
    form.checking # "none" => form.budget = "none" /\ ~job.running /\ job.launched < MaxRuns

JobInv ==
    /\ job.running => job.launched > 0
    /\ job.offer => job.state = "waiting" \/ (job.packaged /\ job.state = "exited")
    /\ DOMAIN store \cup deleted \subseteq 1..job.launched
    /\ job.state \in {"working", "waiting", "decided"} => job.launched \notin DOMAIN store \cup deleted

ListsInv ==
    /\ deleted \cap DOMAIN store = {}
    /\ tasks.support.state = "read" => deleted \cap DOMAIN tasks.support.rows = {}
    /\ IF job.packaged \/ job.state # "exited" THEN DOMAIN job.listed = {}
       ELSE deleted \cap DOMAIN job.listed = {}

PageInv ==
    /\ TypeOK /\ FormInv /\ JobInv /\ ListsInv
    /\ ShownTogether /\ BusyWithJob /\ DeletedStaysGone

-----------------------------------------------------------------------------
(* What does not hold.                                                      *)

(* A report on the page is not taken away while its run stays selected.     *)
ReportStays ==
    [][view.report # NoReport /\ view'.selected = view.selected
         => view'.report.text >= view.report.text]_vars

(* The list shows no run that is not stored.                                *)
ListIsStored == DOMAIN view.records \subseteq DOMAIN store

(* The end of a run leaves the list as it is, or adds the run.              *)
ListSurvivesRun ==
    [][job.state # "none" /\ job'.state = "none"
         => DOMAIN view.records \cap DOMAIN store \subseteq DOMAIN view'.records]_vars

(* A date the user set is not replaced.                                     *)
PickedDateStays == [][form.date = "picked" => form'.date # "latest"]_vars
=============================================================================
