--------------------------- MODULE ResourcePreflight ---------------------------
(* The preflight of an analysis and the run that follows it                 *)
(* (resource_budget.py, request_plan.py): the caches and the quota are read *)
(* to foretell the requests, the page asks about a large run, and the run   *)
(* then meets the caches and the quota as they are by then.  A request that *)
(* is repeated counts once.                                                 *)
EXTENDS Integers, FiniteSets, FiniteSetsExt

CONSTANTS
    Members,   \* symbols of the pool, all or one of which are analysed
    Limit,     \* requests above which the page asks, 50
    MaxQuota,
    MaxOthers  \* steps of other programs

VARIABLES
    request,  \* [tool, provider, symbols, intervals]
    cache,    \* items of the request the caches hold in full
    quota,    \* [reusable: symbols paid for, remaining]
    estimate, \* of the page: [calls, short], or No
    step,     \* of the run
    work,     \* [todo: intervals, session: the quota as the worker knows it,
              \* calls, blocked]
    others    \* [steps, cleared, used] since the estimate, and whether the
              \* server repeats at the start of a page the bar the last ended with

vars == <<request, cache, quota, estimate, step, work, others>>

Bench == "benchmark"
No == [calls |-> -1, short |-> 0]
Native == {"2h", "4h"}
Intervals == {"range", "day", "2h"}

Requests ==
    {[tool |-> "rs", provider |-> p, symbols |-> {Bench} \cup s, intervals |-> {"range"}] :
        p \in {"longbridge", "futu"}, s \in {Members}}
    \cup {[tool |-> t, provider |-> p, symbols |-> s, intervals |-> i] :
        t \in {"turning", "extreme"}, p \in {"longbridge", "futu"},
        s \in {Members} \cup {{m} : m \in Members}, i \in {{"day"}, {"2h"}, {"day", "2h"}}}

Items(r) == r.symbols \X r.intervals

Init ==
    /\ request \in {r \in Requests : r.tool = "extreme" => r.intervals = {"day"}}
    /\ cache \in SUBSET Items(request)
    /\ quota \in [reusable : {{}} \cup {{m} : m \in Members}, remaining : 0..MaxQuota]
    /\ estimate = No /\ step = "edit"
    /\ work = [todo |-> {}, session |-> {}, calls |-> 0, blocked |-> FALSE]
    /\ \E b \in IF request.provider = "longbridge" THEN BOOLEAN ELSE {FALSE} :
          others = [steps |-> 0, cleared |-> FALSE, used |-> 0, repeats |-> b]

-----------------------------------------------------------------------------
(* The estimate.                                                            *)
\* a run on Longbridge takes its indicators from the server, but not for 2h
\* and 4h, and never for the extreme deviation
Quant(r, interval) ==
    r.provider = "longbridge" /\ r.tool # "extreme" /\ interval \notin Native

Wanted(r) == IF r.tool = "extreme" THEN 650 ELSE 220
PageSize(r) == IF r.provider = "futu" THEN 1000 ELSE 200
CeilDiv(n, d) == (n + d - 1) \div d

(* The indicators of a symbol come at once, bars come in pages.             *)
Pages(r, interval) == IF Quant(r, interval) THEN 1 ELSE CeilDiv(Wanted(r), PageSize(r))

(* The symbols whose item the caches do not hold in full, and the requests  *)
(* for them.                                                                *)
Misses(r, interval) == {s \in r.symbols : <<s, interval>> \notin cache}

Unasked(r, intervals) == UNION {Misses(r, i) : i \in intervals}

CallsFor(r, intervals, i) ==
    IF i \in intervals THEN Pages(r, i) * Cardinality(Misses(r, i)) ELSE 0

CallsOf(r, intervals) ==
    CallsFor(r, intervals, "range") + CallsFor(r, intervals, "day") + CallsFor(r, intervals, "2h")

Annotations(r) == IF r.tool = "turning" THEN 1 ELSE 0

QuotaSymbols(r) == Unasked(r, r.intervals)

ProviderCalls(r) ==
    CallsOf(r, r.intervals) + Annotations(r)
    + (IF r.provider = "futu" /\ QuotaSymbols(r) # {} THEN 1 ELSE 0)

Shortfall(r) ==
    IF r.provider # "futu" THEN 0
    ELSE Max({0, Cardinality(QuotaSymbols(r) \ quota.reusable) - quota.remaining})

RequiresConfirmation(e) == e.calls > Limit \/ e.short > 0

Launch ==
    work' = [todo |-> request.intervals, session |-> {}, calls |-> 0, blocked |-> FALSE]

Estimate ==
    LET e == [calls |-> ProviderCalls(request), short |-> Shortfall(request)]
    IN  /\ step = "edit"
        /\ estimate' = e
        /\ others' = [others EXCEPT !.cleared = FALSE, !.used = 0]
        /\ IF RequiresConfirmation(e) THEN step' = "asked" /\ UNCHANGED work
           ELSE step' = "run" /\ Launch
        /\ UNCHANGED <<request, cache, quota>>

(* A run whose quota falls short cannot be confirmed.                       *)
Confirm ==
    /\ step = "asked" /\ estimate.short = 0
    /\ step' = "run" /\ Launch
    /\ UNCHANGED <<request, cache, quota, estimate, others>>

(* The run goes to Yahoo instead, where neither limit applies.              *)
UseYahoo ==
    /\ step = "asked" /\ request.provider = "futu"
    /\ step' = "yahoo"
    /\ UNCHANGED <<request, cache, quota, estimate, work, others>>

Dismiss ==
    /\ step = "asked" /\ step' = "edit" /\ estimate' = No
    /\ UNCHANGED <<request, cache, quota, work, others>>

-----------------------------------------------------------------------------
(* The pages the provider asks for, until it has as many bars as it wants,  *)
(* all or a tail of them, or a page is short.  From a server that repeats a *)
(* bar the second page brings one less than it was asked for: of 210 or 220 *)
(* bars a third page fetches the last, of 650 the last page makes up for it.*)
Repeated(want) == IF others.repeats /\ want \in {210, 220} THEN 1 ELSE 0

PagesSent(r, interval) ==
    IF Quant(r, interval) THEN {1}
    ELSE {IF bars < want THEN bars \div PageSize(r) + 1
          ELSE CeilDiv(want, PageSize(r)) + Repeated(want) :
             want \in {5, 210, Wanted(r)}, bars \in {0, 199, 200, 401, 649, 2000}}

(* The run: one interval after the other asks for the symbols the cache     *)
(* does not hold, page by page or only the tail, and some of them fail.  A  *)
(* worker reads the quota once and keeps count of it from there.            *)
QuotaBlock(misses) ==
    LET asks == request.provider = "futu" /\ misses # {}
        first == asks /\ work.session = {}
        known == IF first THEN quota
                 ELSE CHOOSE q \in work.session : TRUE
        new == misses \ known.reusable
    IN  [asked |-> IF first THEN 1 ELSE 0,
         blocked |-> asks /\ Cardinality(new) > known.remaining,
         session |-> IF ~asks THEN work.session
                     ELSE IF Cardinality(new) > known.remaining THEN {known}
                     ELSE {[reusable |-> known.reusable \cup new,
                            remaining |-> known.remaining - Cardinality(new)]}]

Fetch(interval) ==
    LET misses == Misses(request, interval)
        block == QuotaBlock(misses)
        sent == IF block.blocked THEN {} ELSE misses
    IN  /\ step = "run" /\ interval \in work.todo
        /\ \E got \in SUBSET sent, pages \in PagesSent(request, interval) :
              /\ cache' = cache \cup {<<s, interval>> : s \in got}
              /\ work' = [todo |-> work.todo \ {interval},
                          session |-> block.session,
                          calls |-> work.calls + block.asked + pages * Cardinality(sent),
                          blocked |-> work.blocked \/ block.blocked]
        /\ quota' = IF request.provider # "futu" \/ sent = {} THEN quota
                    ELSE [reusable |-> quota.reusable \cup sent,
                          remaining |-> Max({0, quota.remaining
                                                - Cardinality(sent \ quota.reusable)})]
        /\ UNCHANGED <<request, estimate, step, others>>

(* The market values of what matched are asked for at the end.              *)
Finish ==
    /\ step = "run" /\ work.todo = {}
    /\ step' = "done"
    /\ \E n \in 0..Annotations(request) : work' = [work EXCEPT !.calls = @ + n]
    /\ UNCHANGED <<request, cache, quota, estimate, others>>

-----------------------------------------------------------------------------
(* Another run stores an item or takes of the quota, and the cache is       *)
(* cleared by the user or when the disk is full.                            *)
Stores ==
    /\ \E x \in Items(request) \ cache : cache' = cache \cup {x}
    /\ others' = [others EXCEPT !.steps = @ + 1] /\ UNCHANGED quota

Uses ==
    /\ quota.remaining > 0 /\ quota' = [quota EXCEPT !.remaining = @ - 1]
    /\ others' = [others EXCEPT !.steps = @ + 1, !.used = @ + 1] /\ UNCHANGED cache

Clears ==
    /\ cache # {} /\ cache' = {}
    /\ others' = [others EXCEPT !.steps = @ + 1, !.cleared = TRUE] /\ UNCHANGED quota

Others ==
    /\ others.steps < MaxOthers /\ step \in {"asked", "run"}
    /\ Stores \/ Uses \/ Clears
    /\ UNCHANGED <<request, estimate, step, work>>

Next ==
    \/ Estimate \/ Confirm \/ UseYahoo \/ Dismiss
    \/ \E i \in Intervals : Fetch(i)
    \/ Finish \/ Others

Spec == Init /\ [][Next]_vars

-----------------------------------------------------------------------------
Quotas == [reusable : SUBSET (Members \cup {Bench}), remaining : Nat]

(* The caches, the quota and the run have their types (resource_budget.py). *)
TypeOK ==
    /\ request \in Requests /\ cache \subseteq Items(request)
    /\ quota \in Quotas /\ quota.remaining <= MaxQuota
    /\ estimate \in [calls : Nat \cup {-1}, short : Nat]
    /\ step \in {"edit", "asked", "run", "yahoo", "done"}
    /\ work \in [todo : SUBSET request.intervals, session : SUBSET Quotas,
                 calls : Nat, blocked : BOOLEAN]
    /\ \A p, q \in work.session : p = q
    /\ others \in [steps : Nat, cleared : BOOLEAN, used : Nat, repeats : BOOLEAN]

(* While the cache is not cleared, and unless the server repeats bars, a run*)
(* sends no more requests than the user was told, and more than the limit   *)
(* only after he was asked (request_plan.py).                               *)
EstimateCoversTheRun ==
    step \in {"run", "done"} /\ ~others.cleared /\ ~others.repeats =>
        /\ work.calls <= estimate.calls
        /\ work.calls > Limit => RequiresConfirmation(estimate)

(* A run that was let through is stopped by the quota only if others took   *)
(* of it or the cache was cleared (resource_budget.py quota_symbols, futu.py*)
(* _quota_block).                                                           *)
LetThroughFitsTheQuota ==
    work.blocked => others.used > 0 \/ others.cleared

-----------------------------------------------------------------------------
(* Why they hold.  What the run has still to send and what it has sent stay *)
(* within the estimate, interval by interval; what it has still to ask for  *)
(* fits the quota as the worker knows it.                                   *)
StillToSend ==
    CallsOf(request, work.todo) + Annotations(request)
    + (IF request.provider = "futu" /\ work.session = {} /\ Unasked(request, work.todo) # {}
       THEN 1 ELSE 0)

CallsInv ==
    ~others.cleared /\ ~others.repeats =>
        /\ step = "asked" => ProviderCalls(request) <= estimate.calls
        /\ step = "run" => work.calls + StillToSend <= estimate.calls
        /\ step = "done" => work.calls <= estimate.calls

Fits(asked, known, more) == Cardinality(asked \ known.reusable) <= known.remaining + more

KnownQuota == IF work.session = {} THEN {quota} ELSE work.session

QuotaInv ==
    ~others.cleared /\ others.used = 0 /\ request.provider = "futu" =>
        /\ step = "asked" => Fits(QuotaSymbols(request), quota, estimate.short)
        /\ step = "run" => \A known \in KnownQuota : Fits(Unasked(request, work.todo), known, 0)

AskedInv == step \in {"edit", "asked", "yahoo"} => ~work.blocked

PartInv ==
    TypeOK /\ CallsInv /\ QuotaInv /\ AskedInv /\ EstimateCoversTheRun /\ LetThroughFitsTheQuota

-----------------------------------------------------------------------------
(* What does not hold: nothing is read again between the estimate and the  *)
(* run, and the estimate knows nothing of a server that repeats bars.       *)
EstimateAlwaysCovers ==
    step \in {"run", "done"} => work.calls <= estimate.calls

EstimateCoversRepeats ==
    step \in {"run", "done"} /\ ~others.cleared => work.calls <= estimate.calls
=============================================================================
