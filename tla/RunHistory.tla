----------------------------- MODULE RunHistory -----------------------------
(***************************************************************************)
(* How the result of an analysis run, and the AI reports made from it,      *)
(* reach the history: the ends of StartRun.execute and of the turning point *)
(* and extreme deviation services, SaveCompletedRun, AnalysisPayloadStore,  *)
(* HistoryService and execute_report_operation.                             *)
(*                                                                          *)
(* An RS run passes its commit gate INSIDE the transaction that inserts the *)
(* snapshot and evicts old ones; the other two analyses, and reports, pass  *)
(* it BEFORE they open theirs.  Every transaction begins IMMEDIATE, so it   *)
(* holds the one write lock from its start: those that only insert, update  *)
(* or delete are one step, and the one that writes what it has read (a      *)
(* report) is two, between which no other writer gets in.                   *)
(*                                                                          *)
(* The registry is the abstract one of OperationLifecycle, whose phases     *)
(* this module keeps per run and report.                                    *)
(***************************************************************************)
EXTENDS Naturals, FiniteSets

CONSTANTS Runs,      \* run ids, compared as the ORDER BY does
          RsRuns,    \* those of the RS analysis, rows of run_snapshots
          Imports,   \* ids of imported RS snapshots
          Reports,   \* AI reports
          Keep,      \* unpinned rows a save leaves, 10 in the code
          Shown,     \* rows a history page lists, 10 in the code
          MaxTime    \* bound on the clock

ASSUME HistoryAssumption ==
    /\ Runs \subseteq Nat /\ Imports \subseteq Nat
    /\ RsRuns \subseteq Runs
    /\ Runs \cap Imports = {}
    /\ Reports \cap (Runs \cup Imports) = {}
    /\ Keep \in Nat /\ Shown \in Nat /\ MaxTime \in Nat

Ops == Runs \cup Reports
Rows == Runs \cup Imports
Outcomes == {"SUCCEEDED", "FAILED", "CANCELED"}

VARIABLES
    phase,     \* the operation, as the registry sees it
    step,      \* where its handler is
    proposal,  \* the candidate the handler returns
    told,      \* what the caller is told
    unheard,   \* RS runs whose last progress report raised: the pipe has no reader
    read,      \* the ai_reports an attaching report has read
    clock,     \* the wall clock, which may be set back
    stamp,     \* completed_at of a run; imported_at of an import
    subject,   \* the row a report is about
    listed,    \* rows in the database
    pinned,
    attached,  \* ai_reports of each row
    saved,     \* runs that were ever committed
    removed    \* rows the user deleted

opVars  == <<phase, step, proposal, told, unheard, read>>
rowVars == <<listed, pinned, attached, saved, removed>>
vars == <<opVars, clock, stamp, subject, rowVars>>

Init ==
    /\ phase = [o \in Ops |-> "none"]
    /\ step = [o \in Ops |-> "idle"]
    /\ proposal = [o \in Ops |-> "none"]
    /\ told = [o \in Ops |-> "none"]
    /\ unheard = {}
    /\ read = [p \in Reports |-> {}]
    /\ clock = 0
    /\ stamp = [r \in Rows |-> 0]
    /\ subject = [p \in Reports |-> 0]
    /\ listed = {} /\ pinned = {}
    /\ attached = [r \in Rows |-> {}]
    /\ saved = {} /\ removed = {}

-----------------------------------------------------------------------------
(* The operation of a run or a report.                                      *)

Begin(o) ==
    /\ phase[o] = "none"
    /\ phase' = [phase EXCEPT ![o] = "pending"]
    /\ step' = [step EXCEPT ![o] = "working"]
    /\ UNCHANGED <<proposal, told, unheard, read, clock, stamp, rowVars>>

StartRun(r) == r \in Runs /\ Begin(r) /\ UNCHANGED subject

(* A report is about a row its page has listed at some time: that it is     *)
(* still in the history is not asked before the report is attached.         *)
StartReport(p) ==
    /\ p \in Reports
    /\ Begin(p)
    /\ \E r \in listed \cup saved \cup removed : subject' = [subject EXCEPT ![p] = r]

Cancel(o) ==
    /\ phase[o] = "pending"
    /\ phase' = [phase EXCEPT ![o] = "CANCELED"]
    /\ UNCHANGED <<step, proposal, told, unheard, read, clock, stamp, subject, rowVars>>

Propose(o, from, outcome) ==
    /\ step[o] = from
    /\ step' = [step EXCEPT ![o] = "ending"]
    /\ proposal' = [proposal EXCEPT ![o] = outcome]
    /\ UNCHANGED <<told, clock, stamp, subject>>

(* Below the reliability threshold, a circuit that opened, an exception.    *)
Fails(o) ==
    Propose(o, "working", "FAILED") /\ UNCHANGED <<phase, unheard, read, rowVars>>

(* A checkpoint saw the cancellation.                                       *)
Poll(o) ==
    /\ phase[o] = "CANCELED"
    /\ Propose(o, "working", "CANCELED")
    /\ UNCHANGED <<phase, unheard, read, rowVars>>

(* The last checkpoint passed; the result is complete and dated.            *)
Freeze(o) ==
    /\ step[o] = "working"
    /\ phase[o] = "pending"
    /\ step' = [step EXCEPT ![o] = "saving"]
    /\ stamp' = IF o \in Runs THEN [stamp EXCEPT ![o] = clock] ELSE stamp
    /\ UNCHANGED <<phase, proposal, told, unheard, read, clock, subject, rowVars>>

(* The end of ExecuteReservedOperation: a cancellation that was accepted    *)
(* before the gate beats the handler's own candidate.                       *)
Complete(o) ==
    /\ step[o] = "ending"
    /\ step' = [step EXCEPT ![o] = "ended"]
    /\ phase' = [phase EXCEPT ![o] = IF @ = "CANCELED" THEN @ ELSE proposal[o]]
    /\ told' = [told EXCEPT ![o] = phase'[o]]
    /\ UNCHANGED <<proposal, unheard, read, clock, stamp, subject, rowVars>>

-----------------------------------------------------------------------------
(* Retention: ORDER BY created_at DESC, run_id DESC among the unpinned rows *)
(* made by runs of the same analysis.  Runs \ RsRuns stands for the rows of *)
(* one other analysis: each has a retention of its own.                     *)

Table(r) == IF r \in RsRuns THEN RsRuns ELSE Runs \ RsRuns
Newer(q, r) == stamp[q] > stamp[r] \/ (stamp[q] = stamp[r] /\ q > r)
Excess(rows) == {r \in rows : Cardinality({q \in rows : Newer(q, r)}) >= Keep}

FaultyEvicted(r, rows) == Excess(rows \cap Table(r))
FaultyEvictedLate(r, rows) == Excess((rows \cap Table(r)) \ (pinned \cup {r}))

(* What a transaction that has inserted r deletes.                          *)
Evicted(r, rows) == Excess((rows \cap Table(r)) \ pinned)

(* No report is between the read and the write of its transaction.          *)
WriteLockFree == \A p \in Reports : step[p] # "attaching"

CommitRow(r) ==
    /\ WriteLockFree
    /\ saved' = saved \cup {r}
    /\ listed' = (listed \cup {r}) \ Evicted(r, listed \cup {r})
    /\ UNCHANGED <<pinned, attached, removed>>

Stores(r) ==
    /\ r \in RsRuns
    /\ step[r] = "saving"
    /\ step' = [step EXCEPT ![r] = "stored"]
    /\ CommitRow(r)
    /\ UNCHANGED <<proposal, told, unheard, read, clock, stamp, subject>>

FaultySaveUngated(r) ==
    /\ phase' = [phase EXCEPT ![r] = IF @ = "pending" THEN "committing" ELSE @]
    /\ Stores(r)

(* SaveCompletedRun.save: insert, evict, gate, commit.                      *)
SaveRs(r) ==
    /\ phase[r] = "pending"
    /\ phase' = [phase EXCEPT ![r] = "committing"]
    /\ Stores(r)

(* The progress report after the commit, whose result decides too: in the   *)
(* worker process it raises once the other end of its pipe is closed.       *)
ReportSaved(r) ==
    /\ Propose(r, "stored", "SUCCEEDED")
    /\ UNCHANGED <<phase, unheard, read, rowVars>>

ReportSavedRaises(r) ==
    /\ Propose(r, "stored", "FAILED")
    /\ unheard' = unheard \cup {r}
    /\ UNCHANGED <<phase, read, rowVars>>

(* The gate refuses a canceled run: the unit of work rolls back.  An error  *)
(* of the database (busy, a taken run_identifier, disk full) ends there     *)
(* too, before the gate or, when the commit itself fails, after it.         *)
SaveRsFails(r) ==
    /\ r \in RsRuns
    /\ step[r] = "saving"
    /\ step' = [step EXCEPT ![r] = "unsaved"]
    /\ \/ UNCHANGED phase
       \/ /\ phase[r] = "pending"
          /\ phase' = [phase EXCEPT ![r] = "committing"]
    /\ UNCHANGED <<proposal, told, unheard, read, clock, stamp, subject, rowVars>>

FaultyExplainUnsaved(r) ==
    Propose(r, "unsaved", "CANCELED") /\ UNCHANGED <<phase, unheard, read, rowVars>>

(* save() answered False: the cancellation flag tells why.                  *)
ExplainUnsaved(r) ==
    /\ Propose(r, "unsaved", IF phase[r] = "CANCELED" THEN "CANCELED" ELSE "FAILED")
    /\ UNCHANGED <<phase, unheard, read, rowVars>>

-----------------------------------------------------------------------------
(* The other analyses and reports: the gate first, then the transaction.    *)

EnterCommit(o) ==
    /\ o \notin RsRuns
    /\ step[o] = "saving"
    /\ phase[o] = "pending"
    /\ phase' = [phase EXCEPT ![o] = "committing"]
    /\ step' = [step EXCEPT ![o] = "gated"]
    /\ UNCHANGED <<proposal, told, unheard, read, clock, stamp, subject, rowVars>>

GateRefuses(o) ==
    /\ o \notin RsRuns
    /\ phase[o] = "CANCELED"
    /\ Propose(o, "saving", "CANCELED")
    /\ UNCHANGED <<phase, unheard, read, rowVars>>

SavePayload(r) ==
    /\ r \in Runs
    /\ Propose(r, "gated", "SUCCEEDED")
    /\ UNCHANGED <<phase, unheard, read>>
    /\ CommitRow(r)

ReadRow(p) ==
    /\ p \in Reports
    /\ step[p] = "gated"
    /\ subject[p] \in listed
    /\ step' = [step EXCEPT ![p] = "attaching"]
    /\ read' = [read EXCEPT ![p] = attached[subject[p]]]
    /\ UNCHANGED <<phase, proposal, told, unheard, clock, stamp, subject, rowVars>>

(* A transaction that takes the lock at its first write only.               *)
FaultyReadReports(p) == ReadRow(p)

(* attach_ai_report: BEGIN IMMEDIATE and the SELECT of the row's payload.   *)
ReadReports(p) == WriteLockFree /\ ReadRow(p)

AttachTo(p, kept) ==
    /\ p \in Reports
    /\ subject[p] \in listed
    /\ Propose(p, "attaching", "SUCCEEDED")
    /\ attached' = [attached EXCEPT ![subject[p]] = kept \cup {p}]
    /\ read' = [read EXCEPT ![p] = {}]
    /\ UNCHANGED <<phase, unheard, listed, pinned, saved, removed>>

FaultyAttachReport(p) == AttachTo(p, {})

(* The UPDATE, with what was read and the new report, and the commit.       *)
AttachReport(p) == AttachTo(p, read[p])

(* The row is gone, or the database failed: a report's transaction, if one  *)
(* was open, rolls back.                                                    *)
CommitFails(o) ==
    /\ Propose(o, step[o], "FAILED")
    /\ step[o] \in {"gated", "attaching"}
    /\ read' = [p \in Reports |-> IF p = o THEN {} ELSE read[p]]
    /\ UNCHANGED <<phase, unheard, rowVars>>

-----------------------------------------------------------------------------
(* History management and the clock.                                        *)

SetPinned(r, value) ==
    /\ WriteLockFree
    /\ r \in listed
    /\ pinned' = IF value THEN pinned \cup {r} ELSE pinned \ {r}
    /\ UNCHANGED <<opVars, clock, stamp, subject, listed, attached, saved, removed>>

Remove(rows) ==
    /\ WriteLockFree
    /\ listed' = listed \ rows
    /\ pinned' = pinned \ rows
    /\ removed' = removed \cup rows
    /\ UNCHANGED <<opVars, clock, stamp, subject, attached, saved>>

Delete(r) == r \in listed /\ Remove({r})

(* RS only: every unpinned row, imported ones included.                     *)
ClearUnpinned == Remove((listed \cap (RsRuns \cup Imports)) \ pinned)

Import(i) ==
    /\ WriteLockFree
    /\ i \in Imports \ (listed \cup removed)
    /\ listed' = listed \cup {i}
    /\ pinned' = pinned \cup {i}
    /\ stamp' = [stamp EXCEPT ![i] = clock]
    /\ UNCHANGED <<opVars, clock, subject, attached, saved, removed>>

SetClock(time) ==
    /\ clock' = time
    /\ UNCHANGED <<opVars, stamp, subject, rowVars>>

-----------------------------------------------------------------------------
OpStep(o) ==
    \/ StartRun(o)
    \/ StartReport(o)
    \/ Cancel(o)
    \/ Fails(o)
    \/ Poll(o)
    \/ Freeze(o)
    \/ SaveRs(o)
    \/ ReportSaved(o)
    \/ ReportSavedRaises(o)
    \/ SaveRsFails(o)
    \/ ExplainUnsaved(o)
    \/ EnterCommit(o)
    \/ GateRefuses(o)
    \/ SavePayload(o)
    \/ ReadReports(o)
    \/ AttachReport(o)
    \/ CommitFails(o)
    \/ Complete(o)

UserStep ==
    \/ \E r \in Rows : \/ \E value \in BOOLEAN : SetPinned(r, value)
                       \/ Delete(r)
                       \/ Import(r)
    \/ ClearUnpinned

Next ==
    \/ \E o \in Ops : OpStep(o)
    \/ UserStep
    \/ \E time \in 0..MaxTime : SetClock(time)

Spec == Init /\ [][Next]_vars

-----------------------------------------------------------------------------
TypeOK ==
    /\ phase \in [Ops -> {"none", "pending", "committing"} \cup Outcomes]
    /\ step \in [Ops -> {"idle", "working", "saving", "stored", "unsaved", "gated",
                        "attaching", "ending", "ended"}]
    /\ proposal \in [Ops -> {"none"} \cup Outcomes]
    /\ told \in [Ops -> {"none"} \cup Outcomes]
    /\ unheard \subseteq Ops
    /\ read \in [Reports -> SUBSET Reports]
    /\ clock \in 0..MaxTime
    /\ stamp \in [Rows -> 0..MaxTime]
    /\ subject \in [Reports -> Rows \cup {0}]
    /\ listed \subseteq Rows /\ pinned \subseteq listed
    /\ attached \in [Rows -> SUBSET Reports]
    /\ saved \subseteq Runs /\ removed \subseteq Rows

(* What the caller is told is what happened to the database: a run said to  *)
(* have succeeded was committed, and one said to have failed or been        *)
(* canceled never was, wherever the cancellation or the error struck; but   *)
(* for a run whose worker lost its reader after the commit, which is told   *)
(* to nobody.                                                               *)
ToldTheTruth ==
    \A r \in Runs :
        /\ told[r] = "SUCCEEDED" => r \in saved
        /\ told[r] \in {"FAILED", "CANCELED"} => r \notin saved \/ r \in unheard

(* The same for a report, which is in its row, or in none.                  *)
ReportToldTheTruth ==
    \A p \in Reports :
        /\ told[p] = "SUCCEEDED" => p \in attached[subject[p]]
        /\ told[p] \in {"FAILED", "CANCELED"} => \A r \in Rows : p \notin attached[r]

(* The contract try_complete enforces with an exception: a handler that     *)
(* passed the commit gate never proposes CANCELED.                          *)
GateContract ==
    \A o \in Ops : phase[o] = "committing" => proposal[o] # "CANCELED"

(* The inductive form of the three: what each step of a handler knows.      *)
HandlerInv(o) ==
    /\ step[o] = "idle" <=> phase[o] = "none"
    /\ step[o] \in {"working", "saving"} => phase[o] \in {"pending", "CANCELED"}
    /\ step[o] = "unsaved" => o \in Runs /\ phase[o] \in {"pending", "committing", "CANCELED"}
    /\ step[o] \in {"gated", "stored", "attaching"} => phase[o] = "committing"
    /\ step[o] = "stored" => o \in RsRuns
    /\ step[o] = "attaching" => o \in Reports
    /\ step[o] \in {"ending", "ended"} <=> proposal[o] # "none"
    /\ step[o] = "ending" =>
          /\ phase[o] \in {"pending", "committing", "CANCELED"}
          /\ proposal[o] = "SUCCEEDED" => phase[o] = "committing"
          /\ proposal[o] = "CANCELED" => phase[o] = "CANCELED"
    /\ step[o] = "ended" => /\ told[o] = phase[o]
                            /\ told[o] \in Outcomes
                            /\ told[o] = "SUCCEEDED" <=> proposal[o] = "SUCCEEDED"
    /\ step[o] # "ended" => told[o] = "none"

(* A report that has read its row holds the write lock, alone, and what it  *)
(* has read is still what the row holds.                                    *)
ReadIsCurrent ==
    \A p \in Reports :
        step[p] = "attaching" =>
            /\ subject[p] \in listed
            /\ read[p] = attached[subject[p]]
            /\ \A q \in Reports : step[q] = "attaching" => q = p

HistoryInv ==
    /\ \A o \in Ops : HandlerInv(o)
    /\ \A r \in Runs :
          r \in saved <=> step[r] = "stored" \/ proposal[r] = "SUCCEEDED" \/ r \in unheard
    /\ \A r \in unheard : proposal[r] = "FAILED"
    /\ \A p \in Reports : proposal[p] = "SUCCEEDED" => p \in attached[subject[p]]
    /\ \A p \in Reports, r \in Rows : p \in attached[r] => proposal[p] = "SUCCEEDED"
    /\ ReadIsCurrent

(* A save leaves at most Keep unpinned rows in its table, however many were *)
(* unpinned since the last one.                                             *)
SaveBoundsHistory ==
    [][\A r \in saved' \ saved : Cardinality((listed' \cap Table(r)) \ pinned) <= Keep]_vars

(* A row leaves the history by the user's hand, or because a run of its     *)
(* table was saved and Keep newer unpinned ones are left; a pinned or an    *)
(* imported one never does, and neither a failed nor a canceled run evicts. *)
EvictedByAgeOnly ==
    [][LET new == saved' \ saved
           evicted == (listed \cup new) \ (listed' \cup removed')
       IN  \A r \in evicted :
               /\ r \in Runs \ pinned
               /\ \E q \in new : r \in Table(q)
               /\ Cardinality({q \in (listed' \cap Table(r)) \ pinned : Newer(q, r)}) = Keep]_vars

(* A save leaves no more unpinned rows of its table than the history keeps, *)
(* and takes the oldest of them and no others (history_repository.py        *)
(* evict_excess_unpinned_auto).                                             *)
SaveEvictsTheOldest == SaveBoundsHistory /\ EvictedByAgeOnly

(* No step ever loses a report of a row that stays, although each report    *)
(* writes back what it has read earlier, with other reports under way.      *)
ReportsAccumulate ==
    [][\A r \in listed \cap listed' : attached[r] \subseteq attached'[r]]_vars

(* The operations are those of the abstract registry.                       *)
Lifecycle == INSTANCE OperationLifecycle WITH accepting <- TRUE
ImplementsLifecycle == Lifecycle!Spec

-----------------------------------------------------------------------------
(* What the interface says, and the code does not do.                       *)

(* rs_run_bridge.py:1221 tells the user of every saved run that it is now   *)
(* in the history.                                                          *)
SavedRunIsKept == [][saved' \ saved \subseteq listed']_vars

(* The rows of a history page: pinned first, then newest first.             *)
Before(q, r) ==
    \/ q \in pinned /\ r \notin pinned
    \/ (q \in pinned <=> r \in pinned) /\ Newer(q, r)
Page(rows) == {r \in rows : Cardinality({q \in rows : Before(q, r)}) < Shown}

(* docs/product/README.md:132: the user can pin, delete and export what the *)
(* history keeps.                                                           *)
KeptIsShown ==
    LET kept == listed \cap (RsRuns \cup Imports) IN kept \subseteq Page(kept)
=============================================================================
