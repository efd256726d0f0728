------------------------------- MODULE Services -------------------------------
(* The services the pages and the analyses stand on, side by side: one of   *)
(* them is picked at the start and runs alone.  The database keeps its own  *)
(* variables; the i-th variable of the others is kept in vi.                *)
EXTENDS DatabaseStart

CONSTANTS Clients, Models, MaxRevision, MaxBuilds,     \* ServiceSettings
          MaxReloads,                                  \* FacadeCall
          Urls, Keys, MaxRetries, MaxSaves,            \* AiRequest
          Emitters, Capacity, Important, MaxEvents,    \* DiagnosticLog
          MaxVersion, Scripts,                         \* UpdateCheck
          Members, Limit, MaxQuota, MaxOthers          \* ResourcePreflight

ASSUME ServicesAssumption ==
    /\ MaxRevision \in Nat /\ MaxBuilds \in Nat \ {0} /\ MaxReloads \in Nat
    /\ "none" \notin Urls \cup Keys /\ MaxRetries \in Nat /\ MaxSaves \in Nat
    /\ Capacity \in Nat \ {0} /\ Important \in Nat \ {0} /\ MaxEvents \in Nat
    /\ MaxVersion \in Nat \ {0}
    /\ IsFiniteSet(Members) /\ Limit \in Nat /\ MaxQuota \in Nat /\ MaxOthers \in Nat

VARIABLES part, v1, v2, v3, v4, v5, v6, v7

rest == <<v1, v2, v3, v4, v5, v6, v7>>
allVars == <<part, rest, vars>>

SS == INSTANCE ServiceSettings WITH
        row <- v1, ai <- v2, tokens <- v3, adapters <- v4, thread <- v5, page <- v6
FC == INSTANCE FacadeCall WITH
        call <- v1, subject <- v2, provider <- v3, asked <- v4, late <- v5, wrote <- v6, told <- v7
AI == INSTANCE AiRequest WITH
        config <- v1, adapter <- v2, entered <- v3, job <- v4
DL == INSTANCE DiagnosticLog WITH
        Threads <- Emitters,
        queue <- v1, important <- v2, writer <- v3, disk <- v4, closed <- v5, caller <- v6
UC == INSTANCE UpdateCheck WITH
        latest <- v1, app <- v2, page <- v3, bundle <- v4, scripts <- v5, raced <- v6
RP == INSTANCE ResourcePreflight WITH
        request <- v1, cache <- v2, quota <- v3, estimate <- v4, step <- v5, work <- v6, others <- v7

ServicesInit ==
    /\ Init
    /\ \/ /\ part = "database"
          /\ v1 = 0 /\ v2 = 0 /\ v3 = 0 /\ v4 = 0 /\ v5 = 0 /\ v6 = 0 /\ v7 = 0
       \/ part = "settings" /\ SS!Init /\ v7 = 0
       \/ part = "log" /\ DL!Init /\ v7 = 0
       \/ part = "call" /\ FC!Init
       \/ part = "preflight" /\ RP!Init
       \/ part = "ai" /\ AI!Init /\ v5 = 0 /\ v6 = 0 /\ v7 = 0
       \/ part = "update" /\ UC!Init /\ v7 = 0

ServicesNext ==
    /\ UNCHANGED part
    /\ \/ part = "database" /\ Next /\ UNCHANGED rest
       \/ /\ UNCHANGED vars
          /\ \/ part = "settings" /\ SS!Next /\ UNCHANGED v7
             \/ part = "log" /\ DL!Next /\ UNCHANGED v7
             \/ part = "call" /\ FC!Next
             \/ part = "preflight" /\ RP!Next
             \/ part = "ai" /\ AI!Next /\ UNCHANGED <<v5, v6, v7>>
             \/ part = "update" /\ UC!Next /\ UNCHANGED v7

ServicesSpec == ServicesInit /\ [][ServicesNext]_allVars

-----------------------------------------------------------------------------
(* Types.                                                                   *)
ServicesTypeOK ==
    /\ TypeOK
    /\ CASE part = "settings" -> SS!TypeOK
         [] part = "call" -> FC!TypeOK
         [] part = "preflight" -> RP!TypeOK
         [] part = "ai" -> AI!TypeOK
         [] part = "log" -> DL!TypeOK
         [] part = "update" -> UC!TypeOK
         [] OTHER -> TRUE

(* The adapter in use is open whatever two reloads do at once, also when a  *)
(* builder raises; the provider the settings name was checked, unless local *)
(* data were reset while a task ran; and a call of the facade tells what the*)
(* registry and the database have (composition.py).  A task that holds an   *)
(* adapter no longer in use may find it closed: that is not claimed.        *)
SettingsHoldTogether ==
    CASE part = "settings" -> SS!UsedIsOpen /\ SS!ActiveIsChecked
      [] part = "call" -> FC!CallIsHonest
      [] OTHER -> TRUE

(* An AI request of an import or a report takes the key of its endpoint, is *)
(* repeated a bounded number of times, and at most one leaves after a       *)
(* cancellation (request_retry.py, openai_compatible.py).  An analysis sends*)
(* no more requests than its preflight told, if no one clears the cache and *)
(* the server repeats no bar; and one let through is stopped by the quota   *)
(* only if others used it or the cache was cleared (request_plan.py,        *)
(* resource_budget.py).                                                     *)
RequestsAreBounded ==
    CASE part = "ai" ->
            AI!KeyGoesToItsEndpoint /\ AI!CancelStopsRequests /\ AI!RetriesAreBounded
      [] part = "preflight" -> RP!EstimateCoversTheRun /\ RP!LetThroughFitsTheQuota
      [] OTHER -> TRUE

(* Whoever is told that a flush, a clear or a close of the log is done has  *)
(* nothing earlier left in the queue (jsonl.py); and wherever an update     *)
(* fails or is cut short a whole application is left, as long as no update  *)
(* was staged before the script of another was over (installer.py).         *)
NothingIsLost ==
    CASE part = "log" -> DL!DoneMeansDone
      [] part = "update" -> UC!AppIsNeverLost
      [] OTHER -> TRUE
=============================================================================
