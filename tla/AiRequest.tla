------------------------------ MODULE AiRequest ------------------------------
(***************************************************************************)
(* A request to the AI service: the stored configuration it is sent with    *)
(* (persistence/global_ai_config.py), the tries one request may take        *)
(* (infrastructure/ai/request_retry.py), and the four users of them: the    *)
(* company analysis of an import (openai_compatible.py), the reports        *)
(* (technical_report.py), and the smoke test and the model discovery of the *)
(* settings (composition.py).                                               *)
(*                                                                          *)
(* A request runs in a pool thread.  The Qt thread may save a configuration,*)
(* cancel the operation or reset the local data between any two of its      *)
(* steps; a reset is refused while the registry holds a running operation.  *)
(***************************************************************************)
EXTENDS Naturals, Sequences

CONSTANTS Urls, Keys,  \* endpoints and API keys the user may enter
          MaxRetries,  \* retries the settings ask for, 0..5
          MaxSaves     \* configurations saved between two resets

VARIABLES
    config,  \* the stored configuration
    adapter, \* the configuration the analysis adapter was built from
    entered, \* the pairs of endpoint and key that were ever stored together
    job      \* the request in progress

vars == <<config, adapter, entered, job>>

None == "none"
NoConfig == [rev |-> 0, url |-> None, key |-> None]
NoJob == [kind |-> None, at |-> "idle", tasks |-> <<>>, uses |-> NoConfig, key |-> None,
          sent |-> 0, overloads |-> 0, canceled |-> FALSE, late |-> 0, code |-> None]
Kinds == {"analysis", "report", "smoke", "discover"}

(* What an answer amounts to; only the first two groups are tried again.    *)
Unreachable == {"timeout", "network_error"}
Overloaded == {"service_unavailable", "rate_limited"}
Malformed == {"invalid_response"}
Refused == {"quota_exhausted", "authentication_failed", "request_rejected"}
Codes == Unreachable \cup Overloaded \cup Malformed \cup Refused

Init == config = NoConfig /\ adapter = NoConfig /\ entered = {} /\ job = NoJob

Registered == job.kind \in {"analysis", "report"}
At(where) == job.at = where

(* What the control handed to the request tells: the smoke test has none.   *)
FaultyCancelSeen == FALSE
CancelSeen == job.canceled

Finish(code) == [job EXCEPT !.at = "done", !.code = code, !.key = None]

-----------------------------------------------------------------------------
(* The stored configuration.  One transaction writes endpoint, key and the  *)
(* next revision; without a new key the old one is kept.  A reset removes   *)
(* the file, so revisions start again at 1.                                 *)
StoredKey(key) == IF key = None THEN config.key ELSE key

SaveConfiguration(url, key) ==
    /\ config.rev < MaxSaves
    /\ config.rev = 0 => key # None
    /\ LET saved == [rev |-> config.rev + 1, url |-> url, key |-> StoredKey(key)]
       IN  /\ config' = saved
           /\ entered' = entered \cup {[url |-> saved.url, key |-> saved.key]}
    /\ UNCHANGED <<adapter, job>>

ReloadAdapters == adapter' = config /\ UNCHANGED <<config, entered, job>>

NonTerminal == ~At("idle") /\ Registered /\ ~job.canceled

ResetLocalData ==
    /\ ~NonTerminal
    /\ config' = NoConfig /\ adapter' = NoConfig
    /\ UNCHANGED <<entered, job>>

FaultySecret(rev) == config.key
Secret(rev) == IF config.rev = rev THEN config.key ELSE None

-----------------------------------------------------------------------------
(* The analysis uses the adapter built at the last reload; the others read  *)
(* the configuration first.  A reliable hint of a fund excludes a security  *)
(* without asking, one of a share leaves out the question of eligibility.   *)
AnalyzeCompany ==
    /\ At("idle") /\ adapter # NoConfig
    /\ \E tasks \in {<<>>, <<"classification">>, <<"eligibility", "classification">>} :
         job' = [NoJob EXCEPT !.kind = "analysis", !.tasks = tasks, !.uses = adapter,
                    !.at = IF tasks = <<>> THEN "done" ELSE "secret",
                    !.code = IF tasks = <<>> THEN "excluded" ELSE None]
    /\ UNCHANGED <<config, adapter, entered>>

LoadConfiguration(kind) ==
    /\ At("idle") /\ config # NoConfig
    /\ job' = [NoJob EXCEPT !.kind = kind, !.tasks = <<kind>>, !.uses = config, !.at = "secret"]
    /\ UNCHANGED <<config, adapter, entered>>

GenerateReport == LoadConfiguration("report")
SmokeTest == LoadConfiguration("smoke")
DiscoverSavedModels == LoadConfiguration("discover")

(* The analysis looks for a cancellation before it reads the key; the       *)
(* report does not.                                                         *)
ReadSecret ==
    /\ At("secret")
    /\ LET key == Secret(job.uses.rev)
       IN  job' = IF job.kind = "analysis" /\ CancelSeen THEN Finish("canceled")
                  ELSE IF key = None THEN Finish("configuration_changed")
                  ELSE [job EXCEPT !.key = key, !.sent = 0, !.overloads = 0,
                           !.at = IF job.kind = "discover" THEN "send" ELSE "check"]
    /\ UNCHANGED <<config, adapter, entered>>

-----------------------------------------------------------------------------
(* One request and its tries.                                               *)
Least(a, b) == IF a < b THEN a ELSE b
ConfiguredLimit == Least(MaxRetries, 2)

RetryLimit(code) ==
    CASE code \in Unreachable -> ConfiguredLimit
      [] code \in Overloaded \cup Malformed -> Least(ConfiguredLimit, 1)
      [] OTHER -> 0

(* Every try starts with a look at the cancellation.                        *)
CheckCanceled ==
    /\ At("check")
    /\ job' = IF CancelSeen THEN Finish("canceled") ELSE [job EXCEPT !.at = "send"]
    /\ UNCHANGED <<config, adapter, entered>>

Send ==
    /\ At("send") /\ job.kind # "discover"
    /\ job' = [job EXCEPT !.at = "answer", !.sent = @ + 1,
                  !.late = @ + (IF job.canceled THEN 1 ELSE 0)]
    /\ UNCHANGED <<config, adapter, entered>>

(* The discovery of the service's models is one request without a control.  *)
AskForModels ==
    /\ At("send") /\ job.kind = "discover"
    /\ job' = [job EXCEPT !.at = "answer", !.sent = 1]
    /\ UNCHANGED <<config, adapter, entered>>

(* An answer that can be read.  The shape of an eligibility or a            *)
(* classification is looked at outside the tries: a wrong one ends it.      *)
Answered(verdict) ==
    IF verdict = "schema_invalid" \/ verdict = "excluded" \/ Len(job.tasks) = 1
    THEN Finish(verdict)
    ELSE [job EXCEPT !.at = "secret", !.key = None, !.tasks = Tail(@)]

EligibilityVerdicts == {"ok", "excluded", "schema_invalid"}
ClassificationVerdicts == {"ok", "schema_invalid"}
TextVerdicts == {"ok"}

Verdicts ==
    CASE Head(job.tasks) = "eligibility" -> EligibilityVerdicts
      [] Head(job.tasks) = "classification" -> ClassificationVerdicts
      [] OTHER -> TextVerdicts

FaultyTryAgain(code) == job.sent - 1 < ConfiguredLimit
TryAgain(code) == job.kind # "discover" /\ job.sent - 1 < RetryLimit(code)

ReceiveFailure(code) ==
    /\ At("answer")
    /\ LET counted == [job EXCEPT !.overloads = @ + (IF code \in Overloaded THEN 1 ELSE 0)]
       IN  job' = IF TryAgain(code) THEN [counted EXCEPT !.at = "wait"]
                  ELSE [counted EXCEPT !.at = "done", !.code = code, !.key = None]
    /\ UNCHANGED <<config, adapter, entered>>

ReceiveAnswer ==
    /\ At("answer")
    /\ \E verdict \in Verdicts : job' = Answered(verdict)
    /\ UNCHANGED <<config, adapter, entered>>

(* The wait ends when its time is up or the operation is canceled; then the *)
(* cancellation is looked at once more.                                     *)
WaitEnds ==
    /\ At("wait")
    /\ job' = IF CancelSeen THEN Finish("canceled") ELSE [job EXCEPT !.at = "check"]
    /\ UNCHANGED <<config, adapter, entered>>

(* Only a registered operation has a control to cancel it by.               *)
Cancel ==
    /\ NonTerminal
    /\ job' = [job EXCEPT !.canceled = TRUE]
    /\ UNCHANGED <<config, adapter, entered>>

Return == At("done") /\ job' = NoJob /\ UNCHANGED <<config, adapter, entered>>

-----------------------------------------------------------------------------
Next ==
    \/ \E url \in Urls, key \in Keys \cup {None} : SaveConfiguration(url, key)
    \/ ReloadAdapters \/ ResetLocalData
    \/ AnalyzeCompany \/ GenerateReport \/ SmokeTest \/ DiscoverSavedModels
    \/ ReadSecret \/ CheckCanceled \/ Send \/ AskForModels \/ ReceiveAnswer
    \/ \E code \in Codes : ReceiveFailure(code)
    \/ WaitEnds \/ Cancel \/ Return

Spec == Init /\ [][Next]_vars

-----------------------------------------------------------------------------
Configs == [rev : 0..MaxSaves, url : Urls \cup {None}, key : Keys \cup {None}]

Questions == {"eligibility", "classification", "report", "smoke", "discover"}
Places == {"idle", "secret", "check", "send", "answer", "wait", "done"}
Endings == Codes \cup {None, "canceled", "configuration_changed", "ok", "excluded", "schema_invalid"}
Jobs == [kind : Kinds \cup {None}, at : Places, tasks : Seq(Questions), uses : Configs,
         key : Keys \cup {None}, sent : 0..3, overloads : 0..2, canceled : BOOLEAN, late : 0..1,
         code : Endings]

(* The stored configuration, the adapter's and the request have their types *)
(* (global_ai_config.py).                                                   *)
TypeOK ==
    /\ config \in Configs /\ adapter \in Configs
    /\ entered \subseteq [url : Urls, key : Keys]
    /\ job \in Jobs

(* What an import or a report sends goes to an endpoint together with a key *)
(* that was stored with it, whatever is saved, reset and saved again while  *)
(* it runs, though a reset starts the revisions again                       *)
(* (openai_compatible.py _request, technical_report.py generate).           *)
KeyGoesToItsEndpoint ==
    At("answer") /\ Registered => [url |-> job.uses.url, key |-> job.key] \in entered

(* After a cancellation at most one more request leaves, the one that had   *)
(* passed its look at it, for both questions of an analysis together        *)
(* (request_retry.py).                                                      *)
CancelStopsRequests == job.late <= 1

(* One request is sent at most three times, and a service that says it is   *)
(* overloaded is asked at most twice, whatever the tries between            *)
(* (request_retry.py _retry_limit).                                         *)
RetriesAreBounded ==
    /\ job.sent <= 1 + ConfiguredLimit
    /\ job.overloads <= 2

-----------------------------------------------------------------------------
(* What keeps them.  A configuration with a revision was stored; one taken  *)
(* earlier has an earlier revision, or is the one stored.                   *)
ConfigInv ==
    /\ config.rev = 0 <=> config = NoConfig
    /\ config.rev # 0 => [url |-> config.url, key |-> config.key] \in entered
    /\ adapter.rev <= config.rev /\ (adapter.rev = config.rev => adapter = config)
    /\ ~At("idle") /\ Registered /\ ~job.canceled =>
          job.uses.rev <= config.rev /\ (job.uses.rev = config.rev => job.uses = config)

(* The key of a request that may still be sent was stored with its endpoint.*)
KeyInv ==
    Registered /\ ((At("check") /\ ~job.canceled) \/ job.at \in {"send", "answer", "wait"})
        => [url |-> job.uses.url, key |-> job.key] \in entered

(* What a request has sent at each of its steps.                            *)
SentInv ==
    /\ At("idle") => job = NoJob
    /\ ~job.canceled => job.late = 0
    /\ job.late = 1 => job.at \notin {"check", "send"} /\ (At("secret") => job.kind = "analysis")
    /\ job.at \notin {"idle", "done"} => job.tasks # <<>> /\ job.kind # None
    /\ job.kind # "analysis" => Len(job.tasks) <= 1
    /\ job.canceled => Registered
    /\ job.at \in {"check", "send", "wait"} => job.sent <= ConfiguredLimit /\ job.overloads <= 1
    /\ job.at \in {"check", "send"} /\ job.sent = 0 => job.overloads = 0
    /\ job.at \in {"wait", "answer"} => job.sent > 0
    /\ At("answer") => job.overloads <= 1 /\ (job.sent = 1 => job.overloads = 0)
    /\ job.kind = "discover" /\ ~At("done") => job.overloads = 0 /\ job.at \notin {"check", "wait"}

PartInv ==
    TypeOK /\ KeyGoesToItsEndpoint /\ CancelStopsRequests /\ RetriesAreBounded
    /\ ConfigInv /\ KeyInv /\ SentInv

-----------------------------------------------------------------------------
(* Does not hold: a model discovery is not in the registry, so a reset and  *)
(* a new configuration may come between its two reads (composition.py       *)
(* discover_saved_ai_models).                                               *)
EveryKeyGoesToItsEndpoint ==
    At("answer") => [url |-> job.uses.url, key |-> job.key] \in entered

(* Does not hold: an answer that comes after the cancellation is returned.  *)
CanceledIsTold == At("done") /\ job.canceled => job.code = "canceled"
=============================================================================
