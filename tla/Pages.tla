--------------------------------- MODULE Pages ---------------------------------
(* The pages beside the RS bridge, the store of the master data, and the    *)
(* whole run of an analysis, side by side: one of them is picked at the     *)
(* start and runs alone.  The store keeps its own variables; the i-th       *)
(* variable of the others is kept in vi.                                    *)
EXTENDS MasterData

CONSTANTS TurningRuns, TurningReports,                          \* TurningPointPage
          Securities, MaxDate, DeviationRuns, DeviationReports, \* ExtremeDeviationPage
          RsRuns, Ranges, RsReports,                            \* RsHistoryPage
          MaxImports, Profiles,                                 \* MasterDataPage
          Members, MaxIntervals                                 \* AnalysisRun

ASSUME PagesAssumption ==
    /\ TurningRuns \in Nat /\ TurningReports \in Nat
    /\ MaxDate \in Nat /\ DeviationRuns \in Nat /\ DeviationReports \in Nat
    /\ RsReports \in Nat /\ Ranges # {} /\ "none" \notin RsRuns \cup Ranges
    /\ MaxImports \in Nat
    /\ Members \in Nat \ {0} /\ MaxIntervals \in Nat \ {0}

VARIABLES part, v1, v2, v3, v4, v5, v6, v7

rest == <<v1, v2, v3, v4, v5, v6, v7>>
allVars == <<part, rest, vars>>

TP == INSTANCE TurningPointPage WITH
        MaxRuns <- TurningRuns, MaxReports <- TurningReports,
        store <- v1, form <- v2, job <- v3, view <- v4, tasks <- v5, deleted <- v6
ED == INSTANCE ExtremeDeviationPage WITH
        MaxRuns <- DeviationRuns, MaxReports <- DeviationReports,
        store <- v1, form <- v2, lookups <- v3, budget <- v4, job <- v5, view <- v6
RS == INSTANCE RsHistoryPage WITH
        Runs <- RsRuns, MaxReports <- RsReports,
        store <- v1, view <- v2, task <- v3
MP == INSTANCE MasterDataPage WITH
        Securities <- Profiles,
        import <- v1, op <- v2, timers <- v3, status <- v4, stored <- v5, refresh <- v6
AR == INSTANCE AnalysisRun WITH
        request <- v1, op <- v2, step <- v3, work <- v4, session <- v5, stored <- v6, told <- v7

PagesInit ==
    /\ Init
    /\ \/ part = "turning point" /\ TP!Init /\ v7 = 0
       \/ part = "extreme deviation" /\ ED!Init /\ v7 = 0
       \/ part = "rs history" /\ RS!Init /\ v4 = 0 /\ v5 = 0 /\ v6 = 0 /\ v7 = 0
       \/ /\ part = "master data"
          /\ v1 = 0 /\ v2 = 0 /\ v3 = 0 /\ v4 = 0 /\ v5 = 0 /\ v6 = 0 /\ v7 = 0
       \/ part = "master data page" /\ MP!Init /\ v7 = 0
       \/ part = "run" /\ AR!Init

PagesNext ==
    /\ UNCHANGED part
    /\ \/ part = "master data" /\ Next /\ UNCHANGED rest
       \/ /\ UNCHANGED vars
          /\ \/ part = "turning point" /\ TP!Next /\ UNCHANGED v7
             \/ part = "extreme deviation" /\ ED!Next /\ UNCHANGED v7
             \/ part = "rs history" /\ RS!Next /\ UNCHANGED <<v4, v5, v6, v7>>
             \/ part = "master data page" /\ MP!Next /\ UNCHANGED v7
             \/ part = "run" /\ AR!Next

PagesSpec == PagesInit /\ [][PagesNext]_allVars


-----------------------------------------------------------------------------
(* Types.                                                                   *)
PagesTypeOK ==
    /\ TypeOK
    /\ CASE part = "turning point" -> TP!TypeOK
         [] part = "extreme deviation" -> ED!TypeOK
         [] part = "rs history" -> RS!TypeOK
         [] part = "master data page" -> MP!TypeOK
         [] part = "run" -> AR!TypeOK
         [] OTHER -> TRUE

(* The results and the report the turning point page and the deviation page *)
(* show are those of the selected run, and the report in the RS history is  *)
(* that of the record shown, whatever was selected, deleted or started      *)
(* while it was written; a report that returns late moves the RS history to *)
(* no other run or range.  On the turning point page a run deleted while no *)
(* list of runs was being read or applied is not listed again; one deleted  *)
(* beside such a list may be, until the next one (ListIsStored does not     *)
(* hold).                                                                   *)
PageShowsOneRun ==
    /\ [](CASE part = "turning point" -> TP!ShownTogether /\ TP!DeletedStaysGone
            [] part = "extreme deviation" -> ED!ShownTogether
            [] part = "rs history" -> RS!TextIsOfSnapshot
            [] OTHER -> TRUE)
    /\ [][part = "rs history" => RS!ReportKeepsPlace]_allVars

(* The turning point page is busy while its job goes on and, but for a      *)
(* process the registry refused and a task that told no end, only then; its *)
(* question about the fallback does not outlive the job.  A request of the  *)
(* deviation page uses a date the calendar confirmed.  An import whose end  *)
(* the master data page has told is over in the registry.  (The deviation   *)
(* page's question does outlive its job, and a cancel there may reach the   *)
(* wrong import: ED!OfferHasJob, MP!KillsItsOwn and MP!WaitsForSomething do *)
(* not hold.)                                                               *)
PageFollowsItsJob ==
    CASE part = "turning point" -> TP!BusyWithJob /\ TP!OfferHasJob
      [] part = "extreme deviation" -> ED!FormIsConfirmed
      [] part = "master data page" -> MP!ImportEndsInRegistry
      [] OTHER -> TRUE

(* A run in the history is whole, of one source and saved with enough       *)
(* results; the user is asked about the fallback once; and the caller is    *)
(* told what the history and the registry say (the three services and       *)
(* composition.py run).                                                     *)
RunKeepsItsWord == part = "run" => AR!RunKeepsItsWord
=============================================================================
