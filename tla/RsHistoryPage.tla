---------------------------- MODULE RsHistoryPage ----------------------------
(***************************************************************************)
(* The RS history page (desktop_qml/rs_history_bridge.py).  It keeps a      *)
(* snapshot of one run, taken when the run was selected, with the range and *)
(* the order its results are shown in and the last report of the snapshot.  *)
(* Runs come, go and get reports meanwhile, by this page and others.        *)
(***************************************************************************)
EXTENDS Naturals

CONSTANTS Runs, Ranges, MaxReports

VARIABLES
    store,  \* the saved runs, each with the number of its last report
    view,   \* the snapshot shown and what the page made of it
    task    \* the report being written

vars == <<store, view, task>>

NoRun == "none"
NoTask == [run |-> NoRun, outcome |-> "none"]
NothingShown == [run |-> NoRun, last |-> 0, range |-> NoRun, descending |-> TRUE,
                 text |-> 0, error |-> FALSE]
FirstRange == CHOOSE range \in Ranges : TRUE

Init ==
    /\ store = [r \in {} |-> 0]
    /\ view = NothingShown
    /\ task = NoTask

(* A run is saved, or deleted by retention or another page.                 *)
Saved(r) ==
    /\ r \notin DOMAIN store
    /\ store' = [q \in DOMAIN store \cup {r} |-> IF q = r THEN 0 ELSE store[q]]
    /\ UNCHANGED <<view, task>>

Without(r) == [q \in DOMAIN store \ {r} |-> store[q]]

Evicted(r) ==
    /\ r \in DOMAIN store
    /\ store' = Without(r)
    /\ UNCHANGED <<view, task>>

(* _load_latest_report: the text is the last report of the snapshot.        *)
Snapshot(v, r) == [v EXCEPT !.run = r, !.last = store[r], !.text = store[r], !.error = FALSE]

(* A run that is gone leaves the page as it is.                             *)
SelectRun(r) ==
    /\ view' = IF r \in DOMAIN store
               THEN Snapshot([NothingShown EXCEPT !.range = FirstRange], r) ELSE view
    /\ UNCHANGED <<store, task>>

(* Its display name, note or pin: written, then the run is selected.        *)
UpdateHistory(r) == r \in DOMAIN store /\ SelectRun(r)

ToggleStockSort ==
    /\ view.run # NoRun
    /\ view' = [view EXCEPT !.descending = ~@]
    /\ UNCHANGED <<store, task>>

SelectRange(range) ==
    /\ view.run # NoRun
    /\ view' = [view EXCEPT !.range = range]
    /\ UNCHANGED <<store, task>>

DeleteHistory(r) ==
    /\ r \in DOMAIN store
    /\ store' = Without(r)
    /\ view' = IF view.run = r
               THEN [NothingShown EXCEPT !.descending = view.descending] ELSE view
    /\ UNCHANGED task

-----------------------------------------------------------------------------
(* One report at a time.                                                    *)

GenerateReport ==
    /\ view.run # NoRun /\ task = NoTask
    /\ task' = [run |-> view.run, outcome |-> "asked"]
    /\ view' = [view EXCEPT !.error = FALSE]
    /\ UNCHANGED store

(* The task appends to the row of its run; without one it fails.            *)
ReportWritten ==
    /\ task.outcome = "asked"
    /\ \/ /\ task.run \in DOMAIN store /\ store[task.run] < MaxReports
          /\ store' = [store EXCEPT ![task.run] = @ + 1]
          /\ task' = [task EXCEPT !.outcome = "written"]
       \/ task' = [task EXCEPT !.outcome = "failed"] /\ UNCHANGED store
    /\ UNCHANGED view

(* _on_report_finished: the run shown is read again; it may be gone.        *)
ReportReturnsTo(shown) ==
    /\ task.outcome \in {"written", "failed"}
    /\ task' = NoTask
    /\ view' = CASE ~shown -> view
                 [] shown /\ task.outcome = "written" /\ task.run \in DOMAIN store ->
                        Snapshot(view, task.run)
                 [] OTHER -> [view EXCEPT !.error = TRUE]
    /\ UNCHANGED store

FaultyReportReturns == ReportReturnsTo(TRUE)
ReportReturns == ReportReturnsTo(task.run = view.run)

Next ==
    \/ \E r \in Runs : \/ Saved(r) \/ Evicted(r)
                       \/ SelectRun(r) \/ UpdateHistory(r) \/ DeleteHistory(r)
    \/ ToggleStockSort \/ \E range \in Ranges : SelectRange(range)
    \/ GenerateReport \/ ReportWritten \/ ReportReturns

Spec == Init /\ [][Next]_vars

-----------------------------------------------------------------------------
Rows == UNION {[S -> 0..MaxReports] : S \in SUBSET Runs}
Views == [run : Runs \cup {NoRun}, last : 0..MaxReports, range : Ranges \cup {NoRun},
          descending : BOOLEAN, text : 0..MaxReports, error : BOOLEAN]

TypeOK ==
    /\ store \in Rows /\ view \in Views
    /\ task \in [run : Runs \cup {NoRun}, outcome : {"none", "asked", "written", "failed"}]

(* The report on the page is the last one of the snapshot on the page, in a *)
(* range of it.                                                             *)
TextIsOfSnapshot ==
    /\ view.text = view.last
    /\ view.run = NoRun <=> view.range = NoRun

(* Only a run is reported about.                                            *)
PageInv == TypeOK /\ TextIsOfSnapshot /\ (task # NoTask => task.run \in Runs)

(* A report does not move the page to another run, nor change its range.    *)
ReportKeepsPlace ==
    task # NoTask /\ task' = NoTask
      => view'.run = view.run /\ view'.range = view.range
         /\ (task.run # view.run => view' = view)
=============================================================================
