------------------------------ MODULE MCAnalyses ------------------------------
(* What an analysis is made of, on small instances: one part is picked      *)
(* at the start and runs alone.  The quant batch keeps its own variables,   *)
(* which the other parts leave as they begin; the i-th variable of the      *)
(* others is kept in vi.                                                    *)
EXTENDS QuantBatch, Integers, TLC

VARIABLES part, v1, v2, v3, v4, v5, v6, v7, v8, v9, v10, v11, v12, v13, v14

few == <<v6, v7, v8, v9, v10, v11, v12, v13, v14>>
rest == <<v1, v2, v3, v4, v5, few>>
allVars == <<part, rest, vars>>

CONSTANTS c1, c2

MCClients == {c1, c2}
Symmetry == Permutations(MCClients)

CC == INSTANCE CandleCache WITH
        Clients <- MCClients, Counts <- {3}, Listed <- 2, MaxTime <- 8, Overlap <- 1,
        Replays <- FALSE, Early <- FALSE, Cleanups <- FALSE,
        now <- v1, latest <- v2, rows <- v3, coverage <- v4, step <- v5, count <- v6, end <- v7,
        due <- v8, cached <- v9, seen <- v10, fetched <- v11, answered <- v12,
        repeated <- v13, overtaken <- v14

\* pages and retries of one call
HP == INSTANCE HistoryFetch WITH
        Symbols <- {1, 2}, MaxBar <- 3, PageSize <- 2, MaxPages <- 2, MaxRetries <- 1,
        Width <- 2, Streak <- 2, MaxQuota <- 2, MaxCalls <- 1,
        server <- v1, call <- v2, fetch <- v3, canceled <- v4, futu <- v5

\* the quota over two calls
HQ == INSTANCE HistoryFetch WITH
        Symbols <- {1, 2, 3}, MaxBar <- 1, PageSize <- 2, MaxPages <- 1, MaxRetries <- 0,
        Width <- 2, Streak <- 2, MaxQuota <- 2, MaxCalls <- 2,
        server <- v1, call <- v2, fetch <- v3, canceled <- v4, futu <- v5

\* prices that rise, fall, start late, end early; or none
Prices ==
    {[d \in 0..3 |-> IF d < 2 THEN 1 ELSE 2],
     [d \in 0..3 |-> IF d < 3 THEN 2 ELSE 1],
     [d \in 1..3 |-> 1],
     [d \in 0..2 |-> IF d = 0 THEN 2 ELSE 4]}

RC == INSTANCE RsCalculation WITH
        Labels <- <<1, 1, 2, 2, 3>>,
        Catalogue <- {[came |-> "series", closes |-> p] : p \in Prices}
                     \cup {[came |-> "failed", closes |-> <<>>]},
        Benchmarks <- {[d \in 0..4 |-> 1], [d \in 0..3 |-> IF d = 3 THEN 2 ELSE 1]},
        Ranges <- <<[from |-> 0, to |-> 3], [from |-> 2, to |-> 3]>>,
        Buffer <- 1, LongSpan <- 2, MemberChunk <- 2, ClassChunk <- 2,
        MinValid <- 1, MinComparable <- 2,
        input <- v1, stage <- v2, done <- v3, kept <- v4, output <- v5

\* fall, recover, fall further with less momentum, cross
Bar(c, d, h, s, k) == [close |-> c, dif |-> d, hist |-> h, side |-> s, weak |-> k]

TS == INSTANCE TurningSignal WITH
        Bars <- {Bar(3, -3, -1, -1, TRUE), Bar(2, -2, -1, -1, TRUE), Bar(1, -1, -1, 1, TRUE),
                 Bar(3, -1, 1, 1, FALSE), Bar(2, -1, 0, -1, TRUE)},
        MaxBars <- 7, Window <- 6, MinBars <- 3, Lookback <- 4, MaxDistance <- 2, Hold <- 3,
        bars <- v1, told <- v2, entries <- v3

\* low, high, close; the two pressures; the two deviations in percent
Input(l, h, c, b, s, bg, sg) ==
    [low |-> l, high |-> h, close |-> c, buy |-> b, sell |-> s, buyGap |-> bg, sellGap |-> sg]

DS == INSTANCE DeviationScore WITH
        Inputs <- {Input(2, 4, 3, 1, 1, 0, 0), Input(1, 3, 1, 3, 1, 8, 0), Input(3, 5, 5, 1, 3, 0, 8),
                   Input(1, 5, 2, 2, 2, 3, 3), Input(2, 5, 4, 1, 2, 0, 150), Input(2, 2, 2, 2, 1, 30, 0)},
        MaxBars <- 6, Trigger <- 3, MinHistory <- 3, History <- 6, Floor <- 3,
        Gain <- [g \in 3..150 |-> CASE g < 8 -> 0 [] g \in 8..29 -> 17 [] g \in 30..149 -> 39 [] OTHER -> 66],
        bars <- v1, queues <- v2, ages <- v3, points <- v4

MCInit ==
    /\ Init
    /\ \/ part = "cache" /\ CC!Init
       \/ /\ \/ part = "batch" /\ v1 = 0 /\ v2 = 0 /\ v3 = 0 /\ v4 = 0 /\ v5 = 0
             \/ part = "pages" /\ HP!Init
             \/ part = "quota" /\ HQ!Init
             \/ part = "calculation" /\ RC!Init
             \/ part = "signals" /\ TS!Init /\ v4 = 0 /\ v5 = 0
             \/ part = "score" /\ DS!Init /\ v5 = 0
          /\ v6 = 0 /\ v7 = 0 /\ v8 = 0 /\ v9 = 0 /\ v10 = 0 /\ v11 = 0 /\ v12 = 0 /\ v13 = 0 /\ v14 = 0

MCNext ==
    /\ UNCHANGED part
    /\ \/ part = "batch" /\ Next /\ UNCHANGED rest
       \/ /\ UNCHANGED vars
          /\ \/ part = "cache" /\ CC!Next
             \/ /\ \/ part = "pages" /\ HP!Next
                   \/ part = "quota" /\ HQ!Next
                   \/ part = "calculation" /\ RC!Next
                   \/ part = "signals" /\ TS!Next /\ UNCHANGED <<v4, v5>>
                   \/ part = "score" /\ DS!Next /\ UNCHANGED v5
                /\ UNCHANGED few

MCSpec == MCInit /\ [][MCNext]_allVars

-----------------------------------------------------------------------------
(* Types.                                                                   *)
AnalysesTypeOK ==
    /\ TypeOK
    /\ CASE part = "cache" -> CC!TypeOK
         [] part = "pages" -> HP!TypeOK
         [] part = "quota" -> HQ!TypeOK
         [] part = "calculation" -> RC!TypeOK
         [] part = "signals" -> TS!TypeOK
         [] part = "score" -> DS!TypeOK
         [] OTHER -> TRUE

(* Page by page, a series without an error has every bar asked for, but for *)
(* the oldest candle where the server repeats the cursor's bar; an open     *)
(* breaker answers without a request, and Futu's quota is kept while no     *)
(* call ended with granted symbols unasked.  Out of the cache, for requests *)
(* of one count, of the present, about finished sessions and beside no      *)
(* cleanup, a series has no hole and the bars that were complete when it    *)
(* was asked for, unless another run moved the coverage between the two     *)
(* reads; a repeated request is a hit; the coverage never moves back.  With *)
(* two counts the hole is there (ServedWithoutGap of CandleCache), and with *)
(* Replays, Early or Cleanups other parts fail (cache.py, longbridge.py,    *)
(* futu.py).                                                                *)
SeriesIsWhole ==
    /\ [](CASE part = "cache" ->
                  /\ CC!ServedWithoutGap /\ CC!CoverageIsBacked
                  /\ CC!FreshUnlessOvertaken /\ CC!RepeatIsHit
            [] part = "pages" -> HP!NoErrorIsWhole /\ HP!OpenBreakerAnswersAll
            [] part = "quota" -> HQ!NoErrorIsWhole /\ HQ!OpenBreakerAnswersAll /\ HQ!WithinQuota
            [] OTHER -> TRUE)
    /\ [][part = "cache" => CC!WatermarkForward]_allVars

(* The calculation in chunks brings what it would bring in one piece, and a *)
(* classification that is nowhere weaker is not ranked lower.               *)
StagedIsSerial == part = "calculation" => RC!StagedIsSerial /\ RC!StrongerIsNotLower

(* The scans find the divergences of the swings, a signal is entered once   *)
(* and no two trades are held at once (engine.py, backtest.py); the queue   *)
(* finds the extremes, both sides are scored alike, and the table shows the *)
(* end of the chart (primitives.py, scoring.py).                            *)
SignalsAndScoresAgree ==
    CASE part = "signals" ->
            /\ TS!ScansFindSwings /\ TS!TradesDoNotOverlap
            /\ TS!OneEntryPerSignal /\ TS!RightFollowsLeft
      [] part = "score" -> DS!QueueFindsExtreme /\ DS!MirrorNegates /\ DS!ScoreAgrees
                         /\ (v1 = <<>> => DS!ConsensusIsFair)
      [] OTHER -> TRUE
=============================================================================
