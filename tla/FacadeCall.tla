----------------------------- MODULE FacadeCall -----------------------------
(***************************************************************************)
(* The calls of the application facade that work on the caller's thread:    *)
(* the connection tests, the refresh and the relabeling of a security, the  *)
(* quote, the last trading day and the AI reports (composition.py,          *)
(* desktop_qml/report_operation.py). Each reserves an operation, begins it, *)
(* takes the steps of its handler, and hands the candidate to the executor. *)
(* Meanwhile the operation may be canceled, the security or the run         *)
(* deleted, and another provider set up: the handler reads the provider     *)
(* anew at every step.                                                      *)
(***************************************************************************)
EXTENDS Naturals, Sequences, FiniteSets

CONSTANTS MaxReloads   \* changes of the provider while a call goes on

VARIABLES
    call,      \* which one, its operation in the registry, and its next step
    subject,   \* whether the security or the run it is about is still there
    provider,  \* the market data provider in use, and how often it changed
    asked,     \* the providers that answered
    late,      \* whether an answer that is looked at later was bad
    wrote,     \* whether the call wrote to the database
    told       \* what the caller gets

vars == <<call, subject, provider, asked, late, wrote, told>>

-----------------------------------------------------------------------------
(* The handlers, step by step.                                              *)
TestProviderConnection == <<"profiles">>
TestMarketData == <<"profiles", "calendar", "indicators">>
TestTurningPoint == <<"calendar", "snapshot later", "series">>
TestExtremeDeviation == <<"calendar", "series", "series">>
RefreshProfile == <<"subject", "profiles", "gate", "write">>
ReanalyzeSecurity == <<"subject", "ai", "gate", "write">>
LatestTradingDay == <<"calendar">>
PreviewAi == <<"ai">>
TestProfileAi == <<"profiles", "ai">>
GetSecuritySnapshot == <<"snapshot">>
TurningReport == <<"not canceled", "subject", "ai", "gate", "write">>
DeviationReport == <<"not canceled", "subject", "ai", "gate", "write">>
RsReport == <<"not canceled", "subject", "ai", "gate", "write">>

(* The test of the report model is no operation at all.                     *)
TestReportModel == <<"ai">>

Script ==
    [provider |-> TestProviderConnection, market |-> TestMarketData,
     turning |-> TestTurningPoint, deviation |-> TestExtremeDeviation,
     refresh |-> RefreshProfile, reanalyze |-> ReanalyzeSecurity, day |-> LatestTradingDay,
     preview |-> PreviewAi, profileAi |-> TestProfileAi, quote |-> GetSecuritySnapshot,
     turningReport |-> TurningReport, deviationReport |-> DeviationReport,
     rsReport |-> RsReport, reportModel |-> TestReportModel]
Calls == DOMAIN Script
Reports == {"turningReport", "deviationReport", "rsReport"}
Writers == Reports \cup {"refresh", "reanalyze"}

Terminal == {"SUCCEEDED", "FAILED", "CANCELED"}

Init ==
    /\ call \in [name : Calls, op : {"none"}, next : {"start"}, left : {<<>>}, candidate : {"none"}]
    /\ subject \in BOOLEAN
    /\ provider \in [kind : {"longbridge", "futu"}, set : {0}]
    /\ asked = {} /\ late = FALSE /\ wrote = FALSE /\ told = "none"

-----------------------------------------------------------------------------
(* The rest of the program.                                                 *)

Cancel ==
    /\ call.op \in {"RESERVED", "EXECUTING"}
    /\ call' = [call EXCEPT !.op = "CANCELED"]
    /\ UNCHANGED <<subject, provider, asked, late, wrote, told>>

Delete ==
    /\ subject /\ subject' = FALSE
    /\ UNCHANGED <<call, provider, asked, late, wrote, told>>

Reload ==
    /\ provider.set < MaxReloads
    /\ \E kind \in {"longbridge", "futu"} : provider' = [kind |-> kind, set |-> provider.set + 1]
    /\ UNCHANGED <<call, subject, asked, late, wrote, told>>

-----------------------------------------------------------------------------
(* Reservation and start.                                                   *)

Return(what) == told' = what /\ UNCHANGED <<subject, provider, asked, late, wrote>>

(* The quote reads its security first, and raises before there is an        *)
(* operation; the test of the report model asks right away.                 *)
Start ==
    /\ call.next = "start"
    /\ \/ /\ call.name = "reportModel" /\ call' = [call EXCEPT !.next = "done"]
          /\ \E answer \in {"ok", "failed"} : Return(answer)
       \/ /\ call.name = "quote" /\ ~subject /\ call' = [call EXCEPT !.next = "done"]
          /\ Return("raised")
       \/ /\ call.name # "reportModel" /\ (call.name = "quote" => subject)
          /\ \/ call' = [call EXCEPT !.op = "RESERVED", !.next = "begin"]
             \/ call' = [call EXCEPT !.next = "begin"]
          /\ Return(told)

(* The answer of reserve is ignored but for a report: it is begin_reserved  *)
(* that finds no operation, and the executor raises.  A shutdown in between *)
(* withdraws what is reserved.                                              *)
Begin ==
    /\ call.next = "begin"
    /\ \/ /\ call.op = "RESERVED"
          /\ call' = [call EXCEPT !.op = "EXECUTING", !.next = "step", !.left = Script[call.name]]
          /\ Return(told)
       \/ /\ call.op \in {"none", "RESERVED"}
          /\ call' = [call EXCEPT !.op = "none", !.next = "done"] /\ Return("raised")
       \/ /\ call.op = "CANCELED"
          /\ call' = [call EXCEPT !.next = "done"]
          /\ Return(IF call.name \in Reports THEN "canceled" ELSE "failed")

-----------------------------------------------------------------------------
(* The handler.                                                             *)

Step(name) == call.next = "step" /\ call.left # <<>> /\ Head(call.left) = name
Goes == call' = [call EXCEPT !.left = Tail(@)]
Proposes(status) == call' = [call EXCEPT !.next = "complete", !.candidate = status]
Last == Len(call.left) = 1

(* An answer of the provider; one that is bad ends the handler. Only        *)
(* Longbridge has the indicators the market data test asks for.             *)
Ask ==
    /\ \E name \in {"profiles", "calendar", "series", "snapshot", "indicators"} :
          /\ Step(name)
          /\ \E good \in BOOLEAN :
                IF good /\ ~late /\ (name = "indicators" => provider.kind = "longbridge")
                THEN Goes ELSE Proposes("FAILED")
    /\ asked' = asked \cup {provider}
    /\ UNCHANGED <<subject, provider, late, wrote, told>>

(* The quote of the turning point test is looked at after the candles.      *)
AskForLater ==
    /\ Step("snapshot later")
    /\ Goes /\ late' \in BOOLEAN /\ asked' = asked \cup {provider}
    /\ UNCHANGED <<subject, provider, wrote, told>>

AskAi ==
    /\ Step("ai")
    /\ Goes \/ Proposes("FAILED")
    /\ UNCHANGED <<subject, provider, asked, late, wrote, told>>

ReadSubject ==
    /\ Step("subject")
    /\ IF subject THEN Goes ELSE Proposes("FAILED")
    /\ UNCHANGED <<subject, provider, asked, late, wrote, told>>

NotCanceled ==
    /\ Step("not canceled")
    /\ IF call.op = "CANCELED" THEN Proposes("CANCELED") ELSE Goes
    /\ UNCHANGED <<subject, provider, asked, late, wrote, told>>

(* try_enter_committing.                                                    *)
FaultyGate ==
    /\ Step("gate")
    /\ Goes
    /\ UNCHANGED <<subject, provider, asked, late, wrote, told>>

Gate ==
    /\ Step("gate")
    /\ IF call.op = "CANCELED" THEN Proposes("CANCELED")
       ELSE call' = [call EXCEPT !.left = Tail(@), !.op = "COMMITTING"]
    /\ UNCHANGED <<subject, provider, asked, late, wrote, told>>

(* What was deleted since cannot be written to, and a write may fail.       *)
Write ==
    /\ Step("write")
    /\ \/ subject /\ wrote' = TRUE /\ Goes
       \/ wrote' = wrote /\ Proposes("FAILED")
    /\ UNCHANGED <<subject, provider, asked, late, told>>

(* execute_report_operation looks for a cancellation once more.             *)
AllGood ==
    /\ call.next = "step" /\ call.left = <<>>
    /\ Proposes(IF call.name \in Reports /\ call.op = "CANCELED" THEN "CANCELED" ELSE "SUCCEEDED")
    /\ UNCHANGED <<subject, provider, asked, late, wrote, told>>

(* ExecuteReservedOperation: the candidate's payload reaches the caller     *)
(* only if the candidate wins; otherwise the record of the operation does.  *)
Complete ==
    /\ call.next = "complete"
    /\ LET winner == IF call.op = "CANCELED" THEN "CANCELED" ELSE call.candidate
       IN  /\ call' = [call EXCEPT !.op = winner, !.next = "done"]
           /\ Return(CASE winner = "SUCCEEDED" -> "ok"
                       [] winner = "CANCELED" /\ call.name \in Reports -> "canceled"
                       [] OTHER -> "failed")

Next ==
    \/ Cancel \/ Delete \/ Reload \/ Start \/ Begin \/ Ask \/ AskForLater \/ AskAi \/ ReadSubject
    \/ NotCanceled \/ Gate \/ Write \/ AllGood \/ Complete

Spec == Init /\ [][Next]_vars

-----------------------------------------------------------------------------
Ops == Terminal \cup {"none", "RESERVED", "EXECUTING", "COMMITTING"}
Places == {"start", "begin", "step", "complete", "done"}
Providers == [kind : {"longbridge", "futu"}, set : 0..MaxReloads]
StepNames == {"profiles", "calendar", "indicators", "snapshot", "snapshot later", "series",
              "subject", "ai", "not canceled", "gate", "write"}
CallRecords ==
    [name : Calls, op : Ops, next : Places, left : Seq(StepNames), candidate : Terminal \cup {"none"}]

(* The call, the providers and the answers have their types                 *)
(* (composition.py).                                                        *)
TypeOK ==
    /\ call \in CallRecords
    /\ subject \in BOOLEAN /\ wrote \in BOOLEAN /\ late \in BOOLEAN
    /\ provider \in Providers /\ asked \subseteq Providers
    /\ told \in {"none", "ok", "failed", "canceled", "raised"}

(* What a caller is told is what the registry recorded and the database     *)
(* has: success says so and, of a call that writes, that it wrote; a call   *)
(* that wrote succeeds, and a canceled one wrote nothing, whatever was      *)
(* canceled, deleted or reconfigured between two of its steps.              *)
CallIsHonest ==
    /\ told = "ok" /\ call.name # "reportModel" => call.op = "SUCCEEDED"
    /\ told = "ok" /\ call.name \in Writers => wrote
    /\ wrote /\ told # "none" => told = "ok"
    /\ call.op = "CANCELED" => ~wrote
    /\ told # "none" => call.op \in Terminal \cup {"none"}

-----------------------------------------------------------------------------
(* What keeps it.  A write comes last and after the gate, and a handler that*)
(* writes has its write still before it or done.                            *)
GateGuards(steps) ==
    \A i \in 1..Len(steps) : steps[i] = "write" => i = Len(steps) /\ (i > 1 => steps[i - 1] = "gate")
EndsInWrite(steps) == steps # <<>> /\ steps[Len(steps)] = "write"

HandlerInv ==
    call.next = "step" =>
        /\ GateGuards(call.left) /\ call.op \in {"EXECUTING", "COMMITTING", "CANCELED"}
        /\ Step("write") => call.op = "COMMITTING"
        /\ call.name \in Writers => wrote \/ EndsInWrite(call.left)
        /\ wrote => call.left = <<>> /\ call.op = "COMMITTING"

ResultInv ==
    /\ call.next \in {"start", "begin"} => ~wrote /\ call.op \in {"none", "RESERVED", "CANCELED"}
    /\ call.next = "start" => call.op = "none"
    /\ call.next = "complete" =>
          /\ call.op \in {"EXECUTING", "COMMITTING", "CANCELED"} /\ call.candidate \in Terminal
          /\ wrote => call.op = "COMMITTING" /\ call.candidate = "SUCCEEDED"
          /\ call.candidate = "SUCCEEDED" /\ call.name \in Writers => wrote
    /\ told # "none" <=> call.next = "done"
    /\ call.next = "done" => call.op \in Terminal \cup {"none"}

PartInv == TypeOK /\ CallIsHonest /\ HandlerInv /\ ResultInv

-----------------------------------------------------------------------------
(* What does not hold: a successful test is about one provider, and a       *)
(* canceled call says that it was canceled.                                 *)
OneProvider == told = "ok" => Cardinality(asked) <= 1
CanceledIsTold == call.op = "CANCELED" /\ told # "none" => told = "canceled"
=============================================================================
