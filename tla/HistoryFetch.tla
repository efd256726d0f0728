----------------------------- MODULE HistoryFetch -----------------------------
(***************************************************************************)
(* The providers' calls for bars and for data of companies: Longbridge      *)
(* (infrastructure/providers/longbridge.py) asks backwards page by page, by *)
(* cursor, symbol after symbol or Width of them at a time; Futu (futu.py)   *)
(* asks forwards by page key, after it has checked its quota of symbols and *)
(* under a circuit breaker; profiles and snapshots go in batches.  Every    *)
(* request has a few attempts, and a cancellation is noticed between them.  *)
(*                                                                          *)
(* Bars are numbered by time; a failure is "infra" (retryable, counted by   *)
(* the breaker), "denied" (neither) or "malformed".                         *)
(***************************************************************************)
EXTENDS Naturals, Sequences, FiniteSets, FiniteSetsExt

CONSTANTS Symbols,   \* numbered in the order asked for: 1..n
          MaxBar,    \* bars are 1..MaxBar
          PageSize, MaxPages, MaxRetries,
          Width,     \* symbols at a time of the asynchronous call
          Streak,    \* the breaker's limit
          MaxQuota, MaxCalls

VARIABLES
    server,   \* the bars there are, whether a page repeats the cursor's bar
    call,     \* the call under way: kind, state, symbols, start or count
    fetch,    \* per symbol: at, cursor, got, pages, attempt, error
    canceled,
    futu      \* quota snapshot, authorized symbols, breaker; the symbols the
              \* server charged, and whether a call left granted ones unasked

vars == <<server, call, fetch, canceled, futu>>

Kinds == {"candles", "daily", "async", "futu", "profiles", "snapshots"}
Fresh == [at |-> "idle", cursor |-> MaxBar + 1, got |-> {}, pages |-> 0, attempt |-> 0,
          error |-> "none"]

Init ==
    /\ server \in [bars : SUBSET (1..MaxBar), inclusive : BOOLEAN]
    /\ call = [kind |-> "none", state |-> "idle", asked |-> Symbols, want |-> 0, number |-> 0]
    /\ fetch = [s \in Symbols |-> Fresh]
    /\ canceled = FALSE
    /\ futu = [known |-> FALSE, remaining |-> 0, reusable |-> {}, authorized |-> {},
               run |-> 0, open |-> FALSE, charged |-> {}, left |-> FALSE]

Ended(s, error) == [fetch[s] EXCEPT !.at = "done", !.error = error]
Ends(s, error) == fetch' = [fetch EXCEPT ![s] = Ended(s, error)]
Earlier(s) == {t \in call.asked : t < s}

-----------------------------------------------------------------------------
(* A call.  "want" is the number of candles, or the first day.              *)

StartCall(kind, asked, want) ==
    /\ call.state = "idle" /\ call.number < MaxCalls
    /\ call' = [kind |-> kind, state |-> IF kind = "futu" THEN "quota" ELSE "fetching",
                asked |-> asked, want |-> want, number |-> call.number + 1]
    /\ fetch' = [s \in Symbols |-> Fresh]
    /\ canceled' = FALSE
    /\ UNCHANGED <<server, futu>>

Cancel ==
    /\ call.state # "idle" /\ ~canceled
    /\ canceled' = TRUE
    /\ UNCHANGED <<server, call, fetch, futu>>

(* Whether the next symbol's turn has come.                                 *)
Turn(s) ==
    /\ call.state = "fetching" /\ call.kind \notin {"profiles", "snapshots"}
    /\ s \in call.asked /\ fetch[s].at = "idle"
    /\ IF call.kind = "async"
       THEN Cardinality({t \in Symbols : fetch[t].at = "asking"}) < Width
       ELSE \A t \in Earlier(s) : fetch[t].at = "done"

Begin(s) ==
    /\ Turn(s) /\ ~canceled
    /\ fetch' = [fetch EXCEPT ![s].at = "asking"]
    /\ futu' = IF call.kind = "futu" THEN [futu EXCEPT !.charged = @ \cup {s}] ELSE futu
    /\ UNCHANGED <<server, call, canceled>>

(* A canceled call has no answer for the symbols it did not begin; Futu's   *)
(* says so.                                                                 *)
Skip(s) ==
    /\ Turn(s) /\ canceled
    /\ Ends(s, IF call.kind = "futu" THEN "canceled" ELSE "skipped")
    /\ UNCHANGED <<server, call, canceled, futu>>

Return ==
    /\ call.state = "fetching" /\ \A s \in call.asked : fetch[s].at = "done"
    /\ call' = [call EXCEPT !.state = "idle"]
    /\ futu' = IF call.kind = "futu" /\ call.asked \subseteq futu.authorized
               THEN [futu EXCEPT !.left = @ \/ ~(call.asked \subseteq futu.charged)] ELSE futu
    /\ UNCHANGED <<server, fetch, canceled>>

-----------------------------------------------------------------------------
(* One attempt at a request.                                                *)

Asking(s) == call.state = "fetching" /\ fetch[s].at = "asking"

(* Futu's loop looks for a cancellation before a page, not before a retry,  *)
(* and takes the page that comes; Longbridge's looks before each attempt.   *)
CancelSeen(s) ==
    /\ Asking(s) /\ canceled
    /\ call.kind = "futu" => fetch[s].attempt = 0
    /\ Ends(s, "canceled")
    /\ UNCHANGED <<server, call, canceled, futu>>

RetryOr(s, failed) ==
    IF fetch[s].attempt < MaxRetries
    THEN /\ fetch' = [fetch EXCEPT ![s].attempt = @ + 1]
         /\ UNCHANGED futu
    ELSE failed

(* A failed history request of Futu is told to the breaker; an open breaker *)
(* answers for the symbols that are left, whatever the failure was.         *)
RecordHistoryFailure(s, code) ==
    LET run == IF code = "infra" THEN futu.run + 1 ELSE 0
        open == futu.open \/ run >= Streak
    IN  /\ futu' = [futu EXCEPT !.run = Min({run, Streak}), !.open = open]
        /\ fetch' = [t \in Symbols |->
               IF t = s THEN Ended(s, code)
               ELSE IF open /\ t \in call.asked /\ t > s THEN [Fresh EXCEPT !.at = "done", !.error = "circuit_open"]
               ELSE fetch[t]]

GiveUp(s, code) ==
    IF call.kind = "futu" THEN RecordHistoryFailure(s, code)
    ELSE Ends(s, code) /\ UNCHANGED futu

AttemptFails(s, code) ==
    /\ Asking(s)
    /\ IF code = "infra" THEN RetryOr(s, GiveUp(s, code)) ELSE GiveUp(s, code)
    /\ UNCHANGED <<server, call, canceled>>

(* What cannot be parsed is not a failure code, so the breaker ignores it.  *)
Malformed(s) ==
    /\ Asking(s)
    /\ Ends(s, "malformed") /\ UNCHANGED <<server, call, canceled, futu>>

-----------------------------------------------------------------------------
(* Pages.                                                                   *)

Newest(n, bars) == {b \in bars : Cardinality({c \in bars : c >= b}) <= n}
Oldest(n, bars) == {b \in bars : Cardinality({c \in bars : c <= b}) <= n}

(* What the server answers to a cursor.                                     *)
PageBefore(cursor, size) ==
    Newest(size, {b \in server.bars : b < cursor \/ (server.inclusive /\ b = cursor)})

Turned(s, got, cursor) ==
    fetch' = [fetch EXCEPT ![s].got = got, ![s].cursor = cursor,
                           ![s].pages = @ + 1, ![s].attempt = 0]

(* get_candle_series: until there are count bars, a page brings nothing, or *)
(* it is short.  Once a page repeated a bar the next asks for one more.     *)
CandlePage(s) ==
    LET f == fetch[s]
        repeats == server.inclusive /\ f.pages > 1
        size == Min({PageSize, call.want - Cardinality(f.got) + (IF repeats THEN 1 ELSE 0)})
        page == PageBefore(f.cursor, size)
        got == f.got \cup page
    IN  /\ Asking(s) /\ call.kind = "candles"
        /\ IF page = {} \/ got = f.got
           THEN fetch' = [fetch EXCEPT ![s].at = "done"]
           ELSE IF Cardinality(page) < size \/ Cardinality(got) >= call.want
           THEN fetch' = [fetch EXCEPT ![s].at = "done", ![s].got = Newest(call.want, got)]
           ELSE IF f.pages + 1 >= MaxPages
           THEN Ends(s, "partial")
           ELSE Turned(s, got, Min(page))
        /\ UNCHANGED <<server, call, canceled, futu>>

(* _series and _series_async: until a page reaches the first day or is      *)
(* short.                                                                   *)
DailyPageOf(s, reached(_)) ==
    LET f == fetch[s]
        page == PageBefore(f.cursor, PageSize)
        got == f.got \cup {b \in page : b >= call.want}
    IN  /\ Asking(s) /\ call.kind \in {"daily", "async"}
        /\ IF page = {}
           THEN fetch' = [fetch EXCEPT ![s].at = "done"]
           ELSE IF f.pages > 0 /\ Min(page) >= f.cursor
           THEN Ends(s, "malformed")
           ELSE IF reached(Min(page)) \/ Cardinality(page) < PageSize
           THEN fetch' = [fetch EXCEPT ![s].at = "done", ![s].got = got]
           ELSE IF f.pages + 1 >= MaxPages
           THEN Ends(s, "partial")
           ELSE Turned(s, got, Min(page))
        /\ UNCHANGED <<server, call, canceled, futu>>

(* One day too early.                                                       *)
FaultyDailyPage(s) == DailyPageOf(s, LAMBDA earliest : earliest <= call.want + 1)

DailyPage(s) == DailyPageOf(s, LAMBDA earliest : earliest <= call.want)

(* _history_rows: until the server gives no further key.  "cursor" is how   *)
(* many rows are behind the key.                                            *)
HistoryPage(s) ==
    LET wanted == {b \in server.bars : b >= call.want}
        got == fetch[s].got \cup Oldest(PageSize, wanted \ fetch[s].got)
    IN  /\ Asking(s) /\ call.kind = "futu"
        /\ IF got = wanted
           THEN fetch' = [fetch EXCEPT ![s].at = "done", ![s].got = got]
           ELSE IF fetch[s].pages + 1 >= MaxPages
           THEN Ends(s, "partial")
           ELSE Turned(s, got, fetch[s].cursor)
        /\ UNCHANGED <<server, call, canceled, futu>>

(* Profiles and snapshots: all of a batch is answered or fails at once; a   *)
(* symbol the answer lacks is an error.                                     *)
Batch(kind, answer) ==
    /\ call.kind = kind /\ call.state = "fetching"
    /\ \A s \in Symbols : fetch[s].at = "idle"
    /\ fetch' = [s \in Symbols |-> Ended(s, answer[s])]
    /\ UNCHANGED <<server, call, canceled, futu>>

Failed(kind) == \E code \in {"infra", "denied", "malformed"} : Batch(kind, [s \in Symbols |-> code])

GetSecurityProfiles ==
    \/ ~canceled /\ \E answer \in [Symbols -> {"none", "unavailable"}] : Batch("profiles", answer)
    \/ ~canceled /\ Failed("profiles")
    \/ canceled /\ Batch("profiles", [s \in Symbols |-> "skipped"])

(* A row that cannot be parsed costs Longbridge one symbol, Futu the batch. *)
LongbridgeSnapshots ==
    \/ ~canceled /\ \E answer \in [Symbols -> {"none", "unavailable", "malformed"}] :
                       Batch("snapshots", answer)
    \/ ~canceled /\ Failed("snapshots")
    \/ canceled /\ Batch("snapshots", [s \in Symbols |-> "canceled"])

FutuSnapshots ==
    \/ ~canceled /\ \E answer \in [Symbols -> {"none", "unavailable"}] : Batch("snapshots", answer)
    \/ ~canceled /\ Failed("snapshots")
    \/ canceled /\ Batch("snapshots", [s \in Symbols |-> "skipped"])

-----------------------------------------------------------------------------
(* The quota of Futu.                                                       *)

(* get_history_quota: a new snapshot, a new breaker.  What was authorized   *)
(* stays authorized.                                                        *)
Snapshot ==
    [futu EXCEPT !.known = TRUE, !.remaining = MaxQuota - Cardinality(futu.charged),
                 !.reusable = futu.charged, !.run = 0, !.open = FALSE]

GetHistoryQuota ==
    /\ call.state = "idle" /\ call.number < MaxCalls /\ Cardinality(futu.charged) <= MaxQuota
    /\ futu' = Snapshot
    /\ UNCHANGED <<server, call, fetch, canceled>>

Blocked(code) ==
    fetch' = [s \in Symbols |-> IF s \in call.asked THEN Ended(s, code) ELSE fetch[s]]

Charge(quota, new) ==
    IF Cardinality(new) > quota.remaining
    THEN Blocked("quota_exhausted") /\ futu' = quota
    ELSE /\ futu' = [quota EXCEPT !.authorized = @ \cup call.asked,
                                  !.remaining = @ - Cardinality(new),
                                  !.reusable = @ \cup new]
         /\ UNCHANGED fetch

QuotaBlockOf(new(_)) ==
    /\ call.state = "quota"
    /\ call' = [call EXCEPT !.state = "fetching"]
    /\ IF call.asked \subseteq futu.authorized THEN UNCHANGED <<fetch, futu>>
       ELSE IF futu.known THEN Charge(futu, new(futu))
       ELSE \/ Blocked(IF canceled THEN "canceled" ELSE "denied") /\ UNCHANGED futu
            \/ ~canceled /\ Charge(Snapshot, new(Snapshot))
    /\ UNCHANGED <<server, canceled>>

(* Each call is checked alone.                                              *)
FaultyQuotaBlock == QuotaBlockOf(LAMBDA q : {})

QuotaBlock == QuotaBlockOf(LAMBDA q : call.asked \ (q.reusable \cup q.authorized))

-----------------------------------------------------------------------------
Next ==
    \/ \E k \in Kinds, n \in 1..MaxBar : StartCall(k, Symbols, n)
    \/ \E S \in SUBSET Symbols \ {{}}, n \in 1..MaxBar : StartCall("futu", S, n)
    \/ Cancel \/ Return \/ GetHistoryQuota \/ QuotaBlock
    \/ \E s \in Symbols :
          \/ Begin(s) \/ Skip(s) \/ CancelSeen(s) \/ Malformed(s)
          \/ \E code \in {"infra", "denied"} : AttemptFails(s, code)
          \/ CandlePage(s) \/ DailyPage(s) \/ HistoryPage(s)
    \/ GetSecurityProfiles \/ LongbridgeSnapshots \/ FutuSnapshots

Spec == Init /\ [][Next]_vars

-----------------------------------------------------------------------------
TypeOK ==
    /\ call.kind \in Kinds \cup {"none"} /\ call.state \in {"idle", "quota", "fetching"}
    /\ \A s \in Symbols : /\ fetch[s].got \subseteq server.bars
                          /\ fetch[s].attempt \in 0..MaxRetries
                          /\ fetch[s].pages \in 0..(MaxPages - 1)

(* A symbol that has no error has all the bars asked for: the last count,   *)
(* or all since the first day.  A server that repeats the bar of the cursor *)
(* may cost the oldest candle, and no other.                                *)
Asked == IF call.kind = "candles" THEN Newest(call.want, server.bars)
         ELSE {b \in server.bars : b >= call.want}
NoErrorIsWhole ==
    \A s \in Symbols :
        /\ call.kind \in {"daily", "async", "futu", "candles"}
        /\ fetch[s].at = "done" /\ fetch[s].error = "none"
        => \/ fetch[s].got = Asked
           \/ /\ call.kind = "candles" /\ server.inclusive
              /\ fetch[s].got = Newest(call.want - 1, server.bars)

(* Once Futu's breaker opened, no later symbol of the call is asked for.    *)
OpenBreakerAnswersAll ==
    call.kind = "futu" /\ call.state = "fetching" =>
        \A s \in Symbols : fetch[s].error = "circuit_open" =>
            \E t \in Earlier(s) : fetch[t].error \in {"infra", "denied"}

(* Futu is never asked for more symbols than its quota, as long as no call  *)
(* ended with granted symbols it had not asked for: those stay authorized   *)
(* when a new snapshot gives their share to others.                         *)
WithinQuota == ~futu.left => Cardinality(futu.charged) <= MaxQuota
=============================================================================
