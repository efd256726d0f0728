---------------------------- MODULE MCRunHistory ----------------------------
(* Small instances of RunHistory for TLC.  With the clock and with reports  *)
(* at once the states are too many: one part has three runs, at most one    *)
(* row deleted, no report and no progress report that raises, the other two *)
(* runs, no import, two reports and no clock.                               *)
EXTENDS RunHistory

VARIABLE part

MCRuns == {1, 2, 3}
MCRsRuns == {2, 3}
MCImports == {9}
MCReports == {21, 22}

InPart ==
    CASE part = "runs"    -> /\ unheard = {} /\ Cardinality(removed) <= 1
                              /\ \A p \in Reports : phase[p] = "none"
      [] part = "reports" -> phase[3] = "none" /\ 9 \notin listed /\ clock = 0

MCInit == Init /\ part \in {"runs", "reports"}
MCNext == Next /\ UNCHANGED part /\ InPart'
MCSpec == MCInit /\ [][MCNext]_<<vars, part>>
=============================================================================
