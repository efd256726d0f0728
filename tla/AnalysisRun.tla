---------------------------- MODULE AnalysisRun ----------------------------
(***************************************************************************)
(* One run of an analysis inside the application: run, run_turning_point    *)
(* and run_extreme_deviation of composition.py, the three services they     *)
(* start, the storage guard before them, the fallback session and the       *)
(* executor around them.                                                    *)
(*                                                                          *)
(* A batch of market data is the number of symbols that came with data,     *)
(* with a failure a fallback may repair, with another one, or left out by   *)
(* the circuit breaker.  Whatever a calculation does with them, it may only *)
(* lose some that came.                                                     *)
(***************************************************************************)
EXTENDS Naturals, Sequences, FiniteSets

CONSTANTS Members,       \* securities of a pool
          MaxIntervals   \* intervals of a request

VARIABLES
    request,  \* what was asked for, and the provider in use
    op,       \* the operation in the registry
    step,     \* where the handler is
    work,     \* what the service has got
    session,  \* what the user was asked about the fallback, and answered
    stored,   \* the run in the history, {} for none
    told      \* what the caller gets back

vars == <<request, op, step, work, session, stored, told>>

Kinds == {"rs", "turning", "deviation", "single"}
Statuses == {"READY", "PARTIAL", "FAILED", "CANCELED"}

(* Intervals an extreme deviation run asks for are candles; a turning point *)
(* run takes those of two and four hours as candles, too.                   *)
Batches(kind) ==
    CASE kind = "rs" -> {<<"benchmark", "daily">>}
      [] kind = "turning" -> UNION {[1..n -> {"quant", "candles"}] : n \in 1..MaxIntervals}
      [] OTHER -> {[i \in 1..n |-> "candles"] : n \in 1..MaxIntervals}

Requests ==
    {r \in [kind : Kinds, batches : UNION {Batches(k) : k \in Kinds},
            provider : {"longbridge", "futu"}, consent : BOOLEAN, forced : BOOLEAN] :
        r.batches \in Batches(r.kind)}

Width(batch) == IF batch = "benchmark" \/ request.kind = "single" THEN 1 ELSE Members

Tallies(n) == {c \in [ok : 0..n, eligible : 0..n, other : 0..n, open : 0..n] :
                  c.ok + c.eligible + c.other + c.open = n}
Nothing == [ok |-> 0, eligible |-> 0, other |-> 0, open |-> 0]
Plus(a, b) == [f \in DOMAIN a |-> a[f] + b[f]]
Tasks(c) == c.ok + c.eligible + c.other + c.open

(* A service begins with nothing, whatever another one got before it.       *)
Fresh(batches, source) ==
    [left |-> batches, source |-> source, answer |-> Nothing, total |-> Nothing, used |-> {}]

Init ==
    /\ request \in Requests
    /\ op = "none" /\ step = "storage" /\ stored = {} /\ told = "none"
    /\ work = Fresh(request.batches, IF request.forced THEN "yahoo" ELSE "primary")
    /\ session = [asked |-> 0, answer |-> "none"]

Canceled == op = "CANCELED"

-----------------------------------------------------------------------------
(* Storage and reservation.  Space is counted in units of 256 MB.           *)

Evaluate(free) ==
    CASE free >= 4 -> "READY" [] free >= 1 -> "WARNING" [] OTHER -> "CLEANUP_REQUIRED"

(* Space below the lower limit makes the guard drop the caches; what that   *)
(* leaves reusable inside the database counts.                              *)
Prepared(free, reusable) ==
    IF Evaluate(free) # "CLEANUP_REQUIRED" THEN Evaluate(free)
    ELSE IF free + reusable < 1 THEN "BLOCKED" ELSE "WARNING"

PrepareRun ==
    /\ step = "storage"
    /\ \E free \in 0..4, reusable \in 0..1 :
          IF Prepared(free, reusable) = "BLOCKED"
          THEN step' = "done" /\ told' = "FAILED" /\ op' = op
          ELSE step' = "reserve" /\ UNCHANGED <<told, op>>
    /\ UNCHANGED <<request, work, session, stored>>

(* A registry that admits nothing raises, and the run has no operation.     *)
(* What is read between the reservation and the executor, the settings for  *)
(* one, may raise too, and then nothing ends the operation.                 *)
Reserve ==
    /\ step = "reserve"
    /\ \/ op' = "PENDING" /\ step' = "freeze" /\ told' = told
       \/ op' = op /\ step' = "done" /\ told' = "FAILED"
       \/ op' = "PENDING" /\ step' = "abandoned" /\ told' = "FAILED"
    /\ UNCHANGED <<request, work, session, stored>>

(* Accepted at any time before the gate.                                    *)
Cancel ==
    /\ op = "PENDING" /\ op' = "CANCELED"
    /\ UNCHANGED <<request, step, work, session, stored, told>>

-----------------------------------------------------------------------------
(* The service.                                                             *)

Proposes(status) == step' = status

(* The pool or the security is read, and has to be there, to have members,  *)
(* and not too many. Only an extreme deviation run leaves the date alone.   *)
Frozen(valid) == Proposes(IF ~valid THEN "FAILED" ELSE IF Canceled THEN "CANCELED" ELSE "fetch")

FreezeRs(pool, over) == request.kind = "rs" /\ Frozen(pool = "fits" /\ over)
FreezeTurning(pool, over) == request.kind = "turning" /\ Frozen(over /\ pool = "fits")
FreezeDeviation(pool) ==
    \/ request.kind = "deviation" /\ Frozen(pool = "fits")
    \/ request.kind = "single" /\ Frozen(pool # "gone")

Freeze ==
    /\ step = "freeze"
    /\ \E pool \in {"gone", "empty", "fits", "too large"}, over \in BOOLEAN :
          FreezeRs(pool, over) \/ FreezeTurning(pool, over) \/ FreezeDeviation(pool)
    /\ UNCHANGED <<request, op, work, session, stored, told>>

(* _quant_market_data_for: only Longbridge has indicators, and an extreme   *)
(* deviation run is given none.                                             *)
HasQuant == request.kind # "deviation" /\ request.kind # "single"
            /\ work.source = "primary" /\ request.provider = "longbridge"

(* Where a failure a fallback repairs makes the application ask: around     *)
(* every daily request of an RS run, and after the indicators of the other  *)
(* two.                                                                     *)
MayAsk == request.consent /\ ~request.forced /\ work.source = "primary"
AsksRs == request.kind = "rs" /\ MayAsk
AsksTurning == request.kind = "turning" /\ MayAsk /\ HasQuant /\ Head(work.left) = "quant"
AsksDeviation == request.kind \in {"deviation", "single"} /\ MayAsk /\ HasQuant

(* eligible_fallback_errors, then allow: an answer given holds for the rest *)
(* of the run.                                                              *)
FaultyAsks(c) == c.eligible > 0 /\ (AsksRs \/ AsksTurning \/ AsksDeviation)

Asks(c) == c.eligible > 0 /\ session.answer = "none" /\ (AsksRs \/ AsksTurning \/ AsksDeviation)

Fetch ==
    /\ step = "fetch"
    /\ \E c \in Tallies(Width(Head(work.left))) :
          /\ work' = [work EXCEPT !.answer = c]
          /\ Proposes(IF Asks(c) THEN "ask" ELSE "digest")
    /\ UNCHANGED <<request, op, session, stored, told>>

Decline ==
    /\ step = "ask"
    /\ session' = [asked |-> session.asked + 1, answer |-> "no"]
    /\ Proposes("digest")
    /\ UNCHANGED <<request, op, work, stored, told>>

(* WholeRunFallbackRequested: the service is left, and another one starts   *)
(* the whole request over on Yahoo.                                         *)
Restart(then) ==
    /\ step = "ask"
    /\ session' = [asked |-> session.asked + 1, answer |-> "yes"]
    /\ work' = then
    /\ Proposes("freeze")
    /\ UNCHANGED <<request, op, stored, told>>

FaultyAccept == Restart([work EXCEPT !.source = "yahoo", !.answer = Nothing])
FaultyAcceptCountsOn == Restart([Fresh(request.batches, "yahoo") EXCEPT !.total = work.total])

Accept == Restart(Fresh(request.batches, "yahoo"))

(* What came counts, but not as a task where it is the benchmark.           *)
Taken(counts) ==
    LET c == work.answer
    IN  work' = [work EXCEPT !.left = Tail(@), !.answer = Nothing,
                             !.total = IF counts THEN Plus(@, c) ELSE @,
                             !.used = IF c.ok > 0 THEN @ \cup {work.source} ELSE @]

Following == IF Len(work.left) = 1 THEN "compute" ELSE "fetch"

(* An RS run without its benchmark ends.                                    *)
DigestRs ==
    /\ request.kind = "rs"
    /\ Taken(Head(work.left) # "benchmark")
    /\ Proposes(IF Canceled THEN "CANCELED"
                ELSE IF Head(work.left) = "benchmark" /\ work.answer.ok = 0 THEN "FAILED"
                ELSE Following)

DigestIntervals ==
    /\ request.kind # "rs"
    /\ Taken(TRUE)
    /\ Proposes(IF Canceled THEN "CANCELED" ELSE Following)

Digest ==
    /\ step = "digest"
    /\ DigestRs \/ DigestIntervals
    /\ UNCHANGED <<request, op, session, stored, told>>

(* A calculation loses symbols whose data does not suffice.                 *)
Loses(lost) ==
    LET c == work.total
    IN  work' = [work EXCEPT !.total = [c EXCEPT !.ok = c.ok - lost, !.other = c.other + lost]]

(* calculate_run_staged works in chunks, looks for a cancellation before    *)
(* each, and may find a fatal issue.                                        *)
ComputeRs ==
    /\ step = "compute" /\ request.kind = "rs"
    /\ \/ Canceled /\ Proposes("CANCELED") /\ UNCHANGED work
       \/ Proposes("FAILED") /\ UNCHANGED work
       \/ \E lost \in 0..work.total.ok : Loses(lost) /\ Proposes("summary")
    /\ UNCHANGED <<request, op, session, stored, told>>

ComputeIntervals ==
    /\ step = "compute" /\ request.kind # "rs"
    /\ \E lost \in 0..work.total.ok : Loses(lost)
    /\ Proposes("summary")
    /\ UNCHANGED <<request, op, session, stored, told>>

(* reliability_summary: all of it, four fifths of it, or less; what the     *)
(* breaker left out counts as not done.                                     *)
Rated(ok, total) ==
    IF total = 0 THEN "FAILED"
    ELSE IF ok = total THEN "READY"
    ELSE IF ok * 5 >= total * 4 THEN "PARTIAL" ELSE "FAILED"

FaultyTerminal(c) == Rated(c.ok, c.ok + c.eligible + c.other)

Terminal(c) == Rated(c.ok, Tasks(c))

ShouldSave == Terminal(work.total) # "FAILED" /\ work.total.ok > 0

SummarizeRs ==
    request.kind = "rs"
    /\ Proposes(IF Canceled THEN "CANCELED" ELSE IF ShouldSave THEN "saveRs" ELSE "FAILED")

SummarizeTurning ==
    request.kind = "turning"
    /\ Proposes(IF Canceled THEN "CANCELED" ELSE IF ShouldSave THEN "commit" ELSE "FAILED")

(* The review of a single security is kept with any interval that came.     *)
SummarizeDeviation ==
    \/ /\ request.kind = "deviation"
       /\ Proposes(IF Canceled THEN "CANCELED" ELSE IF ShouldSave THEN "commit" ELSE "FAILED")
    \/ /\ request.kind = "single"
       /\ Proposes(IF Canceled THEN "CANCELED"
                   ELSE IF work.total.ok > 0 THEN "commit" ELSE "FAILED")

Summarize ==
    /\ step = "summary"
    /\ SummarizeRs \/ SummarizeTurning \/ SummarizeDeviation
    /\ UNCHANGED <<request, op, work, session, stored, told>>

Saved == [ok |-> work.total.ok, tasks |-> Tasks(work.total), sources |-> work.used]
ReadyStatus == IF Terminal(work.total) = "READY" THEN "READY" ELSE "PARTIAL"

EnterCommit ==
    /\ step = "commit"
    /\ IF Canceled THEN Proposes("CANCELED") /\ op' = op ELSE Proposes("save") /\ op' = "COMMITTING"
    /\ UNCHANGED <<request, work, session, stored, told>>

Save ==
    /\ step = "save"
    /\ \/ stored' = {Saved} /\ Proposes(ReadyStatus)
       \/ stored' = stored /\ Proposes("FAILED")
    /\ UNCHANGED <<request, op, work, session, told>>

FaultySaveRs ==
    /\ step = "saveRs"
    /\ stored' = {Saved} /\ Proposes(ReadyStatus)
    /\ UNCHANGED <<request, op, work, session, told>>

(* An RS run passes the gate inside the transaction.                        *)
SaveRs ==
    /\ step = "saveRs"
    /\ \/ /\ op = "PENDING" /\ op' = "COMMITTING"
          /\ \/ stored' = {Saved} /\ Proposes(ReadyStatus)
             \/ stored' = stored /\ Proposes("FAILED")
       \/ /\ Proposes(IF Canceled THEN "CANCELED" ELSE "FAILED")
          /\ UNCHANGED <<op, stored>>
    /\ UNCHANGED <<request, work, session, told>>

HandlerRaises ==
    /\ step \in {"freeze", "fetch", "ask", "digest", "compute", "summary", "commit", "saveRs"}
    /\ Proposes("FAILED")
    /\ UNCHANGED <<request, op, work, session, stored, told>>

(* ExecuteReservedOperation and what the facade makes of its answer: a      *)
(* cancellation that was accepted wins, and leaves no payload.              *)
Finish ==
    /\ step \in Statuses
    /\ told' = IF Canceled THEN "CANCELED" ELSE step
    /\ op' = CASE told' \in {"READY", "PARTIAL"} -> "SUCCEEDED" [] OTHER -> told'
    /\ step' = "done"
    /\ UNCHANGED <<request, work, session, stored>>

Next ==
    \/ PrepareRun \/ Reserve \/ Cancel \/ Freeze \/ Fetch \/ Decline \/ Accept \/ Digest
    \/ ComputeRs \/ ComputeIntervals \/ Summarize \/ EnterCommit \/ Save \/ SaveRs \/ HandlerRaises \/ Finish

Spec == Init /\ [][Next]_vars

-----------------------------------------------------------------------------
Steps == {"storage", "reserve", "freeze", "fetch", "ask", "digest", "compute", "summary",
          "commit", "save", "saveRs", "done", "abandoned"} \cup Statuses
Market == {"benchmark", "daily", "quant", "candles"}
Counts == [ok : Nat, eligible : Nat, other : Nat, open : Nat]
Works == [left : Seq(Market), source : {"primary", "yahoo"}, answer : Counts, total : Counts,
          used : SUBSET {"primary", "yahoo"}]
Sessions == [asked : Nat, answer : {"none", "no", "yes"}]

TypeOK ==
    /\ request \in Requests
    /\ op \in {"none", "PENDING", "COMMITTING", "SUCCEEDED", "FAILED", "CANCELED"}
    /\ step \in Steps
    /\ work \in Works /\ Len(work.left) <= Len(request.batches)
    /\ Tasks(work.answer) <= Members /\ Tasks(work.total) <= Members * MaxIntervals
    /\ session \in Sessions /\ told \in Statuses \cup {"none"}

(* A run in the history has every task of its request, from one source, and *)
(* Yahoo's only when the user took it; four fifths of the tasks succeeded,  *)
(* those the breaker left out included, or some for a single security.      *)
Planned == (IF request.kind = "single" THEN 1 ELSE Members)
           * Len(IF request.kind = "rs" THEN Tail(request.batches) ELSE request.batches)

StoredIsWhole ==
    \A s \in stored :
        /\ s.tasks = Planned
        /\ Cardinality(s.sources) = 1
        /\ ("yahoo" \in s.sources <=> request.forced \/ session.answer = "yes")
        /\ s.ok > 0 /\ (s.ok * 5 >= s.tasks * 4 \/ request.kind = "single")

(* The user is asked once in a run.                                         *)
AskedOnce == session.asked <= 1

(* What the caller is told agrees with the history and the registry.        *)
ToldTheTruth ==
    told # "none" =>
        /\ (told \in {"READY", "PARTIAL"}) <=> (stored # {})
        /\ (told = "CANCELED") <=> (op = "CANCELED" /\ step = "done")
        /\ (told = "READY") => \A s \in stored : s.ok = s.tasks

(* A run in the history is whole, of one source and saved with enough       *)
(* results; the user is asked about the fallback once; and the caller is    *)
(* told what the history and the registry say (the three services and       *)
(* composition.py run).                                                     *)
RunKeepsItsWord == StoredIsWhole /\ AskedOnce /\ ToldTheTruth

-----------------------------------------------------------------------------
(* What does not hold.                                                      *)

(* An extreme deviation run that comes to its summary with too few results  *)
(* to be saved, and would have enough had the failures the fallback repairs *)
(* not happened, has asked the user who let it ask                          *)
(* (extreme_deviation service.py execute).                                  *)
EnoughOf(ok) ==
    IF request.kind = "single" THEN ok > 0 ELSE Rated(ok, Tasks(work.total)) # "FAILED" /\ ok > 0

EligibleFailureIsOffered ==
    /\ request.kind \in {"deviation", "single"} /\ request.consent /\ ~request.forced
    /\ step = "summary" /\ ~Canceled
    /\ ~EnoughOf(work.total.ok) /\ EnoughOf(work.total.ok + work.total.eligible)
    => session.asked = 1

(* An operation whose caller has its answer is over.                        *)
NoneAbandoned == told # "none" => op \notin {"PENDING", "COMMITTING"}
=============================================================================
