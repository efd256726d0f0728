---------------------------- MODULE CandleCache ----------------------------
(***************************************************************************)
(* The candle cache that the turning point and the extreme deviation        *)
(* analyses share: CachedCandleService over SQLiteCandleCache, for one      *)
(* provider, symbol and interval.                                           *)
(*                                                                          *)
(* A request reads rows, reads the coverage, fetches, stores, reads again   *)
(* and marks, each on a connection of its own, so requests of different     *)
(* worker processes interleave between any two of these.  Bars are          *)
(* numbered by the time they complete, one a day, the most the estimate of  *)
(* the missing tail allows for.                                             *)
(***************************************************************************)
EXTENDS Naturals, FiniteSets

CONSTANTS Clients,   \* requests in flight
          Counts,    \* bars a request asks for, from 1: 220 and 650 in the code
          Listed,    \* the first bar of the security, from 1
          MaxTime,   \* bound on time
          Overlap,   \* bars a tail fetch adds, 4 in the code (2 for weeks)
          Replays,   \* may a request be for an earlier date than the last?
          Early,     \* may it be for a date whose session is not over?
          Cleanups   \* may a storage guard clear the cache under a request?

Times == 1..MaxTime

VARIABLES
    now,       \* the last completed bar
    latest,    \* the date asked for last, when dates never go back
    rows,      \* market_candle_cache
    coverage,  \* market_candle_coverage: {} or one row
    step,      \* where a request is
    count,     \* what it asks for
    end,
    due,       \* the newest bar that was complete when it was made
    cached,    \* the rows it has read
    seen,      \* the coverage it has read
    fetched,   \* the provider's answer
    answered,  \* the request completed last, {} if the cache was cleared since
    repeated,  \* is this request that one, or a smaller one of its date?
    overtaken  \* did another one mark between its two reads?

request == <<count, end, due>>
vars == <<now, latest, rows, coverage, step, request, cached, seen, fetched, answered, repeated,
          overtaken>>

Coverages == [through : Times, requested : Nat, returned : Nat]

Least(a, b) == IF a <= b THEN a ELSE b
Most(a, b) == IF a >= b THEN a ELSE b

(* ORDER BY timestamp_utc DESC LIMIT n                                      *)
Latest(bars, n) == {t \in bars : Cardinality({u \in bars : u > t}) < n}
Load(c) == Latest({t \in rows : t <= end[c]}, count[c])

Init ==
    /\ now = 1 /\ latest = 0
    /\ rows = {} /\ coverage = {} /\ answered = {}
    /\ step = [c \in Clients |-> "idle"]
    /\ count = [c \in Clients |-> 0]
    /\ end = [c \in Clients |-> 0]
    /\ due = [c \in Clients |-> 0]
    /\ cached = [c \in Clients |-> {}]
    /\ seen = [c \in Clients |-> {}]
    /\ fetched = [c \in Clients |-> {}]
    /\ repeated = [c \in Clients |-> FALSE]
    /\ overtaken = [c \in Clients |-> FALSE]

-----------------------------------------------------------------------------
(* cache_covers_request.                                                    *)

FaultyCovers(rowCount, cover, n, e) ==
    \E v \in cover : /\ v.requested >= n
                     /\ Least(n, v.returned) > 0
                     /\ rowCount >= Least(n, v.returned)

FaultyCoversFull(rowCount, cover, n, e) == rowCount >= n

Covers(rowCount, cover, n, e) ==
    \E v \in cover : /\ v.through >= e
                     /\ v.requested >= n
                     /\ Least(n, v.returned) > 0
                     /\ rowCount >= Least(n, v.returned)

(* _tail_request_count: all of it, or what may have completed since, plus   *)
(* an overlap.                                                              *)
FaultyTail(rowCount, cover, n, e) ==
    IF rowCount < n THEN n ELSE Least(n, 1 + Overlap)

Tail(rowCount, cover, n, e) ==
    IF rowCount < n \/ cover = {} THEN n
    ELSE LET v == CHOOSE v \in cover : TRUE
         IN  Least(n, Most(1, IF e > v.through THEN e - v.through ELSE 0) + Overlap)

-----------------------------------------------------------------------------
(* CachedCandleService.get.                                                 *)

(* A run asks for the bars up to a date, and reads what the cache has.      *)
Ask(c, n, e) ==
    /\ step[c] \in {"idle", "done"}
    /\ e <= IF Early THEN now + 1 ELSE now
    /\ Replays \/ e >= latest
    /\ latest' = IF Replays THEN latest ELSE e
    /\ step' = [step EXCEPT ![c] = "read"]
    /\ count' = [count EXCEPT ![c] = n]
    /\ end' = [end EXCEPT ![c] = e]
    /\ due' = [due EXCEPT ![c] = Least(e, now)]
    /\ cached' = [cached EXCEPT ![c] = Latest({t \in rows : t <= e}, n)]
    /\ repeated' = [repeated EXCEPT ![c] = \E a \in answered : a.end = e /\ a.count >= n]
    /\ overtaken' = [overtaken EXCEPT ![c] = FALSE]
    /\ UNCHANGED <<now, rows, coverage, seen, fetched, answered>>

Answered(c) == [count |-> count[c], end |-> end[c]]

(* The coverage says the rows are all there is.                             *)
Hit(c) ==
    /\ step[c] = "read"
    /\ Covers(Cardinality(cached[c]), coverage, count[c], end[c])
    /\ step' = [step EXCEPT ![c] = "done"]
    /\ answered' = {Answered(c)}
    /\ UNCHANGED <<now, latest, rows, coverage, request, cached, seen, fetched, repeated, overtaken>>

Miss(c) ==
    /\ step[c] = "read"
    /\ ~Covers(Cardinality(cached[c]), coverage, count[c], end[c])
    /\ step' = [step EXCEPT ![c] = "fetch"]
    /\ seen' = [seen EXCEPT ![c] = coverage]
    /\ UNCHANGED <<now, latest, rows, coverage, request, cached, fetched, answered, repeated, overtaken>>

(* The provider answers with the bars that are complete by now.  One size   *)
(* serves every symbol of the batch, so it may exceed what this one needs.  *)
Fetch(c) ==
    /\ step[c] = "fetch"
    /\ \E n \in Tail(Cardinality(cached[c]), seen[c], count[c], end[c])..count[c] :
          LET answer == Latest(Listed..Least(end[c], now), n)
          IN  /\ answer # {}
              /\ fetched' = [fetched EXCEPT ![c] = answer]
    /\ step' = [step EXCEPT ![c] = "store"]
    /\ seen' = [seen EXCEPT ![c] = {}]
    /\ UNCHANGED <<now, latest, rows, coverage, request, cached, answered, repeated, overtaken>>

Upsert(c) ==
    /\ step[c] = "store"
    /\ rows' = rows \cup fetched[c]
    /\ fetched' = [fetched EXCEPT ![c] = {}]
    /\ step' = [step EXCEPT ![c] = "reload"]
    /\ UNCHANGED <<now, latest, coverage, request, cached, seen, answered, repeated, overtaken>>

Reload(c) ==
    /\ step[c] = "reload"
    /\ cached' = [cached EXCEPT ![c] = Load(c)]
    /\ step' = [step EXCEPT ![c] = "mark"]
    /\ UNCHANGED <<now, latest, rows, coverage, request, seen, fetched, answered, repeated, overtaken>>

FaultyMarked(cover, c) ==
    {[through |-> end[c], requested |-> count[c], returned |-> Cardinality(cached[c])]}

FaultyMarkedTwice(cover, c) == cover \cup FaultyMarked(cover, c)

(* mark_covered_through: the later date wins; on one date, the larger size. *)
Marked(cover, c) ==
    IF \E v \in cover : end[c] < v.through \/ (end[c] = v.through /\ count[c] < v.requested)
    THEN cover
    ELSE {[through |-> end[c], requested |-> count[c], returned |-> Cardinality(cached[c])]}

Mark(c) ==
    /\ step[c] = "mark"
    /\ coverage' = Marked(coverage, c)
    /\ step' = [step EXCEPT ![c] = "done"]
    /\ answered' = {Answered(c)}
    /\ overtaken' = [d \in Clients |-> overtaken[d] \/ (d # c /\ step[d] = "read")]
    /\ UNCHANGED <<now, latest, rows, request, cached, seen, fetched, repeated>>

(* The provider failed, the run was canceled, or its process died.          *)
Abandon(c) ==
    /\ step[c] \notin {"idle", "done"}
    /\ step' = [step EXCEPT ![c] = "idle"]
    /\ cached' = [cached EXCEPT ![c] = {}]
    /\ seen' = [seen EXCEPT ![c] = {}]
    /\ fetched' = [fetched EXCEPT ![c] = {}]
    /\ UNCHANGED <<now, latest, rows, coverage, request, answered, repeated, overtaken>>

-----------------------------------------------------------------------------
(* Another run found the disk low: one transaction empties both tables.     *)
ClearRecomputable ==
    /\ Cleanups \/ \A c \in Clients : step[c] \in {"idle", "done"}
    /\ rows' = {} /\ coverage' = {} /\ answered' = {}
    /\ repeated' = [c \in Clients |-> FALSE]
    /\ UNCHANGED <<now, latest, step, request, cached, seen, fetched, overtaken>>

Tick ==
    /\ now < MaxTime
    /\ now' = now + 1
    /\ UNCHANGED <<latest, rows, coverage, step, request, cached, seen, fetched, answered, repeated, overtaken>>

Next ==
    \/ \E c \in Clients :
          \/ \E n \in Counts, e \in Times : Ask(c, n, e)
          \/ Hit(c)
          \/ Miss(c)
          \/ Fetch(c)
          \/ Upsert(c)
          \/ Reload(c)
          \/ Mark(c)
          \/ Abandon(c)
    \/ ClearRecomputable
    \/ Tick

Spec == Init /\ [][Next]_vars

-----------------------------------------------------------------------------
TypeOK ==
    /\ now \in Times /\ latest \in 0..MaxTime
    /\ rows \subseteq Listed..now
    /\ coverage \subseteq Coverages /\ Cardinality(coverage) <= 1
    /\ step \in [Clients -> {"idle", "read", "fetch", "store", "reload", "mark", "done"}]
    /\ count \in [Clients -> Counts \cup {0}]
    /\ end \in [Clients -> 0..MaxTime]
    /\ due \in [Clients -> 0..now]
    /\ \A c \in Clients : /\ cached[c] \subseteq Listed..now
                          /\ seen[c] \subseteq coverage \cup Coverages
                          /\ fetched[c] \subseteq Listed..now
    /\ answered \subseteq [count : Counts, end : Times]
    /\ repeated \in [Clients -> BOOLEAN] /\ overtaken \in [Clients -> BOOLEAN]

(* What a completed request hands to the analysis.                          *)
Served(c) == step[c] = "done"
Complete(bars, n) == bars = Latest({t \in Listed..MaxTime : \E u \in bars : t <= u}, n)

(* The series has no hole: it is the market's last bars up to its newest.   *)
ServedWithoutGap == \A c \in Clients : Served(c) => Complete(cached[c], count[c])

(* The newest bar that was complete when the run asked is in the series,    *)
(* unless another request marked its coverage between the two reads.        *)
Fresh(c) == due[c] >= Listed => \E t \in cached[c] : t >= due[c]
FreshUnlessOvertaken == \A c \in Clients : Served(c) /\ ~overtaken[c] => Fresh(c)

(* A request that was answered, or a smaller one of its date, is not sent   *)
(* to the provider again, unless it was overtaken.                          *)
RepeatIsHit ==
    \A c \in Clients : step[c] \in {"fetch", "store"} => ~repeated[c] \/ overtaken[c]

(* The coverage tells the truth: as many rows as it says, the market's last *)
(* ones up to its date.                                                     *)
CoverageIsBacked ==
    \A v \in coverage :
        LET backed == Latest({t \in rows : t <= v.through}, v.requested)
        IN  /\ Cardinality(backed) = v.returned
            /\ backed = Latest(Listed..v.through, v.requested)

(* The watermark only moves forward, whichever request finishes last.       *)
WatermarkForward ==
    \A v \in coverage, w \in coverage' :
        w.through >= v.through /\ (w.through = v.through => w.requested >= v.requested)
=============================================================================
