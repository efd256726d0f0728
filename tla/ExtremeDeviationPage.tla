------------------------ MODULE ExtremeDeviationPage ------------------------
(***************************************************************************)
(* The extreme deviation page (desktop_qml/extreme_deviation_bridge.py).    *)
(* It keeps no list of runs: history and selection read the table again.   *)
(* It keeps a copy of the securities, an end date that the trading calendar *)
(* has to confirm, a preflight, a run and its report.  Its worker process is *)
(* never registered, so it is simpler, and less supervised, than the job of *)
(* TurningPointPage.                                                        *)
(***************************************************************************)
EXTENDS Integers, FiniteSets

CONSTANTS Securities,    \* what the security list may hold
          MaxDate,       \* the last date that may be asked for
          MaxRuns, MaxReports

VARIABLES
    store,    \* the table: saved runs, each with its number of reports
    form,     \* what a request is built from
    lookups,  \* the security list and the calendar, read by pool tasks
    budget,   \* the preflight
    job,      \* the run under way
    view      \* the run shown, its report, and the report being written

vars == <<store, form, lookups, budget, job, view>>

Runs == 1..MaxRuns
NoReport == [run |-> 0, text |-> 0]
NoReportTask == [run |-> 0, state |-> "none", text |-> 0]
NoRequest == [security |-> "none", end |-> 0]

Init ==
    /\ store = [r \in {} |-> 0]
    /\ form = [security |-> "none", requested |-> 0, end |-> 0]
    /\ lookups = [known |-> {}, loaded |-> FALSE, reading |-> FALSE, calendar |-> 0]
    /\ budget = [checking |-> NoRequest, kept |-> NoRequest, answer |-> "none"]
    /\ \E packaged \in BOOLEAN :
          job = [packaged |-> packaged, launched |-> 0, date |-> 0, state |-> "none",
                 outcome |-> "none", canceled |-> FALSE, offer |-> FALSE]
    /\ view = [run |-> 0, results |-> 0, report |-> NoReport, task |-> NoReportTask]

Running == job.state # "none"
Checking == budget.checking # NoRequest

-----------------------------------------------------------------------------
(* The form.                                                                *)

SelectSecurity(s) ==
    /\ form' = [form EXCEPT !.security = IF s \in lookups.known THEN s ELSE "none"]
    /\ UNCHANGED <<store, lookups, budget, job, view>>

(* A date that may not be asked for clears both dates, whatever the         *)
(* calendar is doing.                                                       *)
SetInvalidEndDate ==
    /\ form' = [form EXCEPT !.requested = 0, !.end = 0]
    /\ UNCHANGED <<store, lookups, budget, job, view>>

(* A good one is ignored while the calendar is asked; otherwise it is asked.*)
SetEndDate(d) ==
    /\ lookups.calendar = 0
    /\ form' = [form EXCEPT !.requested = d, !.end = d]
    /\ lookups' = [lookups EXCEPT !.calendar = d]
    /\ UNCHANGED <<store, budget, job, view>>

RefreshLatestTradingDay == SetEndDate(MaxDate)

FaultyCalendarAnswers(accepted) ==
    /\ lookups.calendar # 0
    /\ lookups' = [lookups EXCEPT !.calendar = 0]
    /\ \E day \in {lookups.calendar, lookups.calendar - 2, 0} : form' = [form EXCEPT !.end = day]
    /\ UNCHANGED <<store, budget, job, view>>

(* The calendar's answer: the day asked for, the trading day before it, or  *)
(* none.  It is dropped when another date is wanted by now.                 *)
CalendarAnswers(accepted) ==
    /\ lookups.calendar # 0
    /\ lookups' = [lookups EXCEPT !.calendar = 0]
    /\ IF accepted
       THEN \E day \in {lookups.calendar, lookups.calendar - 1, 0} : form' = [form EXCEPT !.end = day]
       ELSE UNCHANGED form
    /\ UNCHANGED <<store, budget, job, view>>

FaultyCalendarReturns == CalendarAnswers(TRUE)
CalendarReturns == CalendarAnswers(lookups.calendar = form.requested)

LoadSupportData ==
    /\ ~lookups.reading
    /\ lookups' = [lookups EXCEPT !.reading = TRUE]
    /\ UNCHANGED <<store, form, budget, job, view>>

(* The securities of that moment, or a failure that leaves the old copy.    *)
SupportReturns ==
    /\ lookups.reading
    /\ \/ /\ lookups' = [lookups EXCEPT !.reading = FALSE, !.loaded = FALSE]
          /\ UNCHANGED form
       \/ \E known \in SUBSET Securities :
             /\ lookups' = [lookups EXCEPT !.reading = FALSE, !.loaded = TRUE, !.known = known]
             /\ form' = [form EXCEPT !.security = IF @ \in known THEN @ ELSE "none"]
    /\ UNCHANGED <<store, budget, job, view>>

-----------------------------------------------------------------------------
(* From the form to a run.                                                  *)

BuildRequest ==
    IF /\ form.security # "none" /\ form.end # 0
       /\ lookups.loaded /\ ~lookups.reading /\ lookups.calendar = 0
    THEN [security |-> form.security, end |-> form.end]
    ELSE NoRequest

CanStart == BuildRequest # NoRequest /\ ~Running /\ ~Checking

Start ==
    /\ CanStart
    /\ job.launched < MaxRuns
    /\ budget' = [checking |-> BuildRequest, kept |-> BuildRequest, answer |-> "none"]
    /\ UNCHANGED <<store, form, lookups, job, view>>

Dropped == [budget EXCEPT !.kept = NoRequest, !.answer = "none"]

(* Another choice of intervals is another request.                          *)
SetIntervalSelected ==
    /\ budget' = Dropped
    /\ UNCHANGED <<store, form, lookups, job, view>>

DismissBudget == SetIntervalSelected

(* A fresh gate, then the worker; nobody reserves the process.              *)
LaunchRun(request) ==
    /\ job.launched < MaxRuns
    /\ job' = [job EXCEPT !.launched = @ + 1, !.date = request.end, !.state = "working",
                          !.outcome = "none", !.canceled = FALSE, !.offer = FALSE]

(* _on_budget_finished: only the answer about the kept request counts; a    *)
(* failed check drops it, full storage keeps it with no way on, a large     *)
(* task waits for the user, a small one starts.                             *)
BudgetReturns ==
    /\ Checking
    /\ LET answered == [budget EXCEPT !.checking = NoRequest]
       IN  IF budget.checking # budget.kept
           THEN budget' = answered /\ UNCHANGED job
           ELSE \/ budget' = answered /\ LaunchRun(budget.kept)
                \/ /\ \/ budget' = [answered EXCEPT !.kept = NoRequest]
                      \/ \E a \in {"confirm", "blocked"} : budget' = [answered EXCEPT !.answer = a]
                   /\ UNCHANGED job
    /\ UNCHANGED <<store, form, lookups, view>>

(* The dialog is shown while the form still builds the same request.        *)
ConfirmationVisible ==
    /\ budget.answer = "confirm" /\ budget.kept = BuildRequest
    /\ ~Running

ConfirmBudget ==
    /\ ConfirmationVisible
    /\ LaunchRun(budget.kept)
    /\ budget' = Dropped
    /\ UNCHANGED <<store, form, lookups, view>>

UseYahooForBudget == ConfirmBudget

-----------------------------------------------------------------------------
(* The run.                                                                 *)

Job(from, to) ==
    /\ job.state \in from
    /\ job' = to
    /\ UNCHANGED <<form, lookups, budget, view>>

(* The worker's question reaches the page; a gate whose answer is in        *)
(* answers at once.                                                         *)
JobAsks ==
    /\ Job({"working"}, [job EXCEPT !.state = "waiting", !.offer = TRUE])
    /\ UNCHANGED store

ResolveOffer ==
    /\ job.offer
    /\ job' = [job EXCEPT !.offer = FALSE, !.state = IF @ = "waiting" THEN "decided" ELSE @]
    /\ UNCHANGED <<store, form, lookups, budget, view>>

JobSaves ==
    /\ Job({"working", "decided"}, [job EXCEPT !.state = "ended", !.outcome = "READY"])
    /\ store' = [r \in DOMAIN store \cup {job.launched} |-> IF r \in DOMAIN store THEN store[r] ELSE 0]

JobFails ==
    /\ Job({"working", "decided"}, [job EXCEPT !.state = "ended", !.outcome = "FAILED"])
    /\ UNCHANGED store

(* Killed: its last line is in the pipe, or not.                            *)
ProcessKilled ==
    /\ job.packaged
    /\ \E said \in {job.outcome, "none"} :
          Job({"working", "waiting", "decided", "ended"}, [job EXCEPT !.state = "exited", !.outcome = said])
    /\ UNCHANGED store

(* cancel(): a process is only told to terminate, the question stays; a     *)
(* task's gate declines and the registry cancels what does not save yet.    *)
Cancel ==
    /\ IF job.packaged
       THEN Job({"working", "waiting", "decided", "ended"}, [job EXCEPT !.canceled = TRUE])
       ELSE Job({"working", "waiting", "decided"},
                [job EXCEPT !.state = "ended", !.outcome = "CANCELED", !.offer = FALSE])
    /\ UNCHANGED store

Idle == [job EXCEPT !.state = "none", !.outcome = "none", !.canceled = FALSE]

(* select_run and the end of a run reset what belongs to the run before.    *)
Shown(r, text) ==
    [view EXCEPT !.run = r, !.results = r,
                 !.report = IF text = 0 THEN NoReport ELSE [run |-> r, text |-> text]]

(* _on_run_process_finished: a cancellation hides the result; a run that is *)
(* shown is read from the table, where it may be gone.                      *)
OnProcessFinished ==
    /\ job.packaged /\ job.state \in {"ended", "exited"}
    /\ job' = Idle
    /\ view' = IF /\ ~job.canceled /\ job.outcome = "READY"
                  /\ job.launched \in DOMAIN store
               THEN Shown(job.launched, store[job.launched]) ELSE view
    /\ UNCHANGED <<store, form, lookups, budget>>

(* _on_run_process_error: not started, or crashed.  Nothing is read.        *)
OnProcessError ==
    /\ job.packaged /\ job.state = "exited"
    /\ job' = Idle
    /\ UNCHANGED <<store, form, lookups, budget, view>>

(* _on_finished for a run: the result it carries; refused by the registry,  *)
(* failed or canceled, the page keeps the run before.                       *)
OnTaskFinished ==
    /\ ~job.packaged /\ job.state = "ended"
    /\ job' = Idle
    /\ view' = IF job.outcome = "READY" THEN Shown(job.launched, 0) ELSE view
    /\ UNCHANGED <<store, form, lookups, budget>>

-----------------------------------------------------------------------------
(* Saved runs and reports.                                                  *)

SelectRun(r) ==
    /\ r \in DOMAIN store
    /\ view' = Shown(r, store[r])
    /\ UNCHANGED <<store, form, lookups, budget, job>>

PrepareNewRun ==
    /\ ~Running /\ ~Checking
    /\ form' = [form EXCEPT !.security = "none"]
    /\ budget' = Dropped
    /\ view' = Shown(0, 0)
    /\ lookups' = [lookups EXCEPT !.reading = TRUE]
    /\ UNCHANGED <<store, job>>

DeleteHistory(r) ==
    /\ r \in DOMAIN store
    /\ store' = [q \in DOMAIN store \ {r} |-> store[q]]
    /\ view' = IF view.run = r THEN Shown(0, 0) ELSE view
    /\ UNCHANGED <<form, lookups, budget, job>>

StartReport ==
    /\ view.run # 0 /\ view.results # 0
    /\ view.task = NoReportTask
    /\ view' = [view EXCEPT !.task = [run |-> view.run, state |-> "asked", text |-> 0]]
    /\ UNCHANGED <<store, form, lookups, budget, job>>

(* Appended to the row of its run, if there still is one.                   *)
ReportWritten ==
    LET r == view.task.run
    IN  /\ view.task.state = "asked"
        /\ \/ /\ r \in DOMAIN store /\ store[r] < MaxReports
              /\ store' = [store EXCEPT ![r] = @ + 1]
              /\ view' = [view EXCEPT !.task = [run |-> r, state |-> "written", text |-> store'[r]]]
           \/ view' = [view EXCEPT !.task.state = "failed"] /\ UNCHANGED store
        /\ UNCHANGED <<form, lookups, budget, job>>

ReportReturnsWhen(shown) ==
    /\ view.task.state \in {"written", "failed"}
    /\ view' = [view EXCEPT !.task = NoReportTask,
                            !.report = IF shown /\ view.task.state = "written"
                                       THEN [run |-> view.task.run, text |-> view.task.text] ELSE @]
    /\ UNCHANGED <<store, form, lookups, budget, job>>

FaultyReportReturns == ReportReturnsWhen(TRUE)
ReportReturns == ReportReturnsWhen(view.task.run = view.run)

-----------------------------------------------------------------------------
Next ==
    \/ \E s \in Securities : SelectSecurity(s)
    \/ SetInvalidEndDate \/ \E d \in 1..MaxDate : SetEndDate(d)
    \/ CalendarReturns \/ LoadSupportData \/ SupportReturns
    \/ Start \/ SetIntervalSelected \/ BudgetReturns \/ ConfirmBudget
    \/ JobAsks \/ ResolveOffer \/ JobSaves \/ JobFails \/ ProcessKilled \/ Cancel
    \/ OnProcessFinished \/ OnProcessError \/ OnTaskFinished
    \/ \E r \in Runs : SelectRun(r) \/ DeleteHistory(r)
    \/ PrepareNewRun \/ StartReport \/ ReportWritten \/ ReportReturns

Spec == Init /\ [][Next]_vars

-----------------------------------------------------------------------------
Rows == UNION {[S -> 0..MaxReports] : S \in SUBSET Runs}
Choices == Securities \cup {"none"}
Forms == [security : Choices, requested : 0..MaxDate, end : 0..MaxDate]
Lookups == [known : SUBSET Securities, loaded : BOOLEAN, reading : BOOLEAN, calendar : 0..MaxDate]
Requests == [security : Choices, end : 0..MaxDate]
Budgets == [checking : Requests, kept : Requests, answer : {"none", "confirm", "blocked"}]
JobStates == {"none", "working", "waiting", "decided", "ended", "exited"}
Outcomes == {"none", "READY", "FAILED", "CANCELED"}
Jobs == [packaged : BOOLEAN, launched : 0..MaxRuns, date : 0..MaxDate, state : JobStates,
         outcome : Outcomes, canceled : BOOLEAN, offer : BOOLEAN]
Reports == [run : 0..MaxRuns, text : 0..MaxReports]
ReportTasks == [run : 0..MaxRuns, state : {"none", "asked", "written", "failed"}, text : 0..MaxReports]
Views == [run : 0..MaxRuns, results : 0..MaxRuns, report : Reports, task : ReportTasks]

TypeOK ==
    /\ store \in Rows /\ form \in Forms /\ lookups \in Lookups
    /\ budget \in Budgets /\ job \in Jobs /\ view \in Views

(* A date that a request may use was answered by the calendar to the date   *)
(* the user wants now, and a selected security is one of the list.          *)
FormIsConfirmed ==
    /\ form.end # 0 /\ lookups.calendar = 0
         => form.requested # 0 /\ form.end \in {form.requested, form.requested - 1}
    /\ form.security # "none" => form.security \in lookups.known

(* The results and the report on the page are those of one run.             *)
ShownTogether ==
    /\ view.results = view.run
    /\ view.report # NoReport => view.report.run = view.run

(* What keeps them: the calendar is asked about the date the user wants, or *)
(* the user wants none by now; and a run that goes on was launched.         *)
DatesInv ==
    /\ form.end # 0 => form.requested # 0 /\ form.end \in {form.requested, form.requested - 1}
    /\ lookups.calendar # 0 => form.requested \in {0, lookups.calendar}
    /\ form.security # "none" => form.security \in lookups.known

PageInv == TypeOK /\ DatesInv /\ (Running => job.launched > 0) /\ ShownTogether

-----------------------------------------------------------------------------
(* What does not hold: the question about the fallback source is withdrawn  *)
(* when its worker is gone (only a task's cancel declines the gate).        *)
OfferHasJob == job.offer => Running
=============================================================================
