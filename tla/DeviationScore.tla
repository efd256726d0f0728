---------------------------- MODULE DeviationScore ----------------------------
(* The extreme deviation score, bar by bar: the rolling extremes kept in a  *)
(* queue, the triggers and their ages, the points of the indicator, and the *)
(* score of a period out of its own history (primitives.py, indicator.py,   *)
(* scoring.py).  The smoothed pressures and the distances from the anchor   *)
(* come with the bar; percentages are whole numbers.                        *)
EXTENDS Integers, Sequences, FiniteSets, FiniteSetsExt, Functions, SequencesExt

CONSTANTS
    Inputs,   \* [low, high, close, buy, sell: pressures while they last,
              \* buyGap, sellGap: deviations in percent]
    MaxBars,
    Trigger,    \* bars of the trigger window, 30
    MinHistory, \* points a score needs, 30
    History,    \* points a score is compared with, 100
    Floor,      \* the deviation that is material, in percent
    Gain        \* what a material deviation adds, by its percentage

VARIABLES
    bars,   \* the bars so far
    queues, \* for the lows and the highs, the positions that may be extreme
    ages,   \* bars since the last trigger of each side, {} for none
    points  \* of the indicator, one for a bar

vars == <<bars, queues, ages, points>>

Sides == {"buy", "sell"}

Init ==
    /\ bars = <<>> /\ points = <<>>
    /\ queues = [s \in Sides |-> <<>>] /\ ages = [s \in Sides |-> {}]

-----------------------------------------------------------------------------
(* The indicator.                                                           *)
Extreme(bar, side) == IF side = "buy" THEN bar.low ELSE bar.high
Passes(side, a, b) == IF side = "buy" THEN a <= b ELSE a >= b

(* The front is dropped one bar late.                                       *)
FaultyFresh(queue, i) == SelectSeq(queue, LAMBDA j : j >= i - Trigger)

Fresh(queue, i) == SelectSeq(queue, LAMBDA j : j > i - Trigger)

(* What the new value passes leaves the end of the queue.                   *)
RollingExtreme(all, queue, side) ==
    LET i == Len(all)
        fresh == Fresh(queue, i)
        kept == {n \in DOMAIN fresh : \A m \in 1..n :
                    ~Passes(side, Extreme(all[i], side), Extreme(all[fresh[m]], side))}
    IN  Append(SubSeq(fresh, 1, Cardinality(kept)), i)

Triggered(all, queue, side) ==
    Passes(side, Extreme(all[Len(all)], side), Extreme(all[Head(queue)], side))

AgeAfter(age, triggered) == IF triggered THEN {0} ELSE {a + 1 : a \in age}

(* Where the close is between the two extremes; in the middle if they meet. *)
Position(all, queue) ==
    LET low == all[Head(queue["buy"])].low
        high == all[Head(queue["sell"])].high
    IN  IF high <= low THEN 50
        ELSE Max({0, Min({100, (100 * (all[Len(all)].close - low)) \div (high - low)})})

Calculate ==
    \E bar \in Inputs :
        LET all == Append(bars, bar)
            queue == [s \in Sides |-> RollingExtreme(all, queues[s], s)]
            age == [s \in Sides |-> AgeAfter(ages[s], Triggered(all, queue[s], s))]
            point == [buy |-> bar.buy, sell |-> bar.sell,
                      buyGap |-> bar.buyGap, sellGap |-> bar.sellGap,
                      buyAge |-> age["buy"], sellAge |-> age["sell"],
                      position |-> Position(all, queue)]
        IN  /\ Len(bars) < MaxBars
            /\ bars' = all /\ queues' = queue /\ ages' = age
            /\ points' = Append(points, point)

-----------------------------------------------------------------------------
(* The score.                                                               *)
Round(n, d) ==
    LET q == n \div d r == n % d
    IN  IF 2 * r > d \/ (2 * r = d /\ q % 2 = 1) THEN q + 1 ELSE q

\* twice the number of points below, and once those equal
Rank(values, v) ==
    2 * Cardinality({i \in DOMAIN values : values[i] < v})
    + Cardinality({i \in DOMAIN values : values[i] = v})

Structural(gap) == IF gap < Floor THEN 0 ELSE Min({95, Max({30, 30 + Gain[gap]})})

Freshness(age) == IF age = {} THEN 0 ELSE Max({0, 100 - 15 * (CHOOSE a \in age : TRUE)})

(* The cap of a score below the sixtieth or ninetieth percentile.           *)
Cap(rank, n, place, age) ==
    IF age = {} THEN 29
    ELSE IF 50 * rank < 60 * n THEN 59
    ELSE IF 50 * rank >= 90 * n /\ place >= 80 /\ (\A a \in age : a <= 2) THEN 100
    ELSE 79

Severity(values, place, gap, age) ==
    LET n == Len(values)
        rank == Rank(values, values[n])
        value == 300 * rank + n * (2 * place + Min({100, 5 * gap}) + Freshness(age))
        rounded == Round(value, 10 * n)
    IN  IF values[n] <= 0 THEN Structural(gap)
        ELSE Max({Structural(gap), Max({0, Min({rounded, Cap(rank, n, place, age)})})})

Label(score) ==
    CASE score <= -80 -> "super buy" [] score \in -79..-60 -> "buy"
      [] score \in -59..-30 -> "rather buy" [] score \in -29..29 -> "neutral"
      [] score \in 30..59 -> "rather sell" [] score \in 60..79 -> "sell" [] OTHER -> "super sell"

NoScore == [score |-> {}, direction |-> "neutral", full |-> FALSE, label |-> "insufficient"]

FaultyCapped(severity, full) == severity

Capped(severity, full) == IF full THEN severity ELSE Min({79, severity})

Scored(buy, sell, full) ==
    LET score == CASE buy >= 60 /\ sell >= 60 -> 0
                   [] buy > sell /\ buy >= 30 -> -buy
                   [] sell > buy /\ sell >= 30 -> sell
                   [] OTHER -> Max({-29, Min({29, sell - buy})})
    IN  [score |-> {score}, full |-> full,
         direction |-> CASE buy >= 60 /\ sell >= 60 -> "conflict"
                         [] score <= -30 -> "buy" [] score >= 30 -> "sell" [] OTHER -> "neutral",
         label |-> IF buy >= 60 /\ sell >= 60 THEN "conflict" ELSE Label(score)]

LastOf(s, n) == SubSeq(s, Max({1, Len(s) - n + 1}), Len(s))

ScoreLatest(candles, all) ==
    LET past == LastOf(all, History)
        now == all[Len(all)]
        full == candles >= History
        values(field) == [i \in DOMAIN past |-> past[i][field]]
    IN  IF candles < MinHistory \/ Len(all) < MinHistory THEN NoScore
        ELSE Scored(Capped(Severity(values("buy"), 100 - now.position, now.buyGap, now.buyAge), full),
                    Capped(Severity(values("sell"), now.position, now.sellGap, now.sellAge), full),
                    full)

(* The scores of the chart, the last one at its end.                        *)
ScoreSeries(candles, all, retained) ==
    [n \in Max({MinHistory, Len(all) - retained + 1})..Len(all) |->
        ScoreLatest(Min({candles, n}), LastOf(SubSeq(all, 1, n), History))]

-----------------------------------------------------------------------------
(* The conclusion over the periods, each one with the sign of its side, its *)
(* size, and whether its two sides conflict.                                *)
Weights == [half |-> 10, hour |-> 11, day |-> 17, week |-> 20]
Kinds == {-1, 0, 1, 2} \* to buy, of no side, to sell, in conflict

Weight(T) == MapThenSumSet(LAMBDA t : Weights[t], T)

NoConsensus == [kind |-> "neutral", score |-> 0, of |-> {}]

Consensus(side, size) ==
    LET active == {t \in DOMAIN side : side[t] \in {-1, 1} /\ size[t] >= 30}
        conflicts == {t \in DOMAIN side : side[t] = 2 /\ size[t] >= 30}
        buy == {t \in active : side[t] = -1}
        sell == active \ buy
        share(T) == 10 * Weight(T) >= 3 * Weight(active)
        dominant == IF Weight(buy) > Weight(sell) THEN buy ELSE sell
        magnitude == Round(MapThenSumSet(LAMBDA t : size[t] * Weights[t], dominant), Weight(dominant))
    IN  IF conflicts # {} THEN [kind |-> "divergence", score |-> 0, of |-> active \cup conflicts]
        ELSE IF Cardinality(active) < 2
        THEN IF \E t \in active : t \in {"day", "week"} /\ size[t] >= 60
             THEN LET t == CHOOSE t \in active : TRUE
                  IN  [kind |-> "single", score |-> side[t] * size[t], of |-> active]
             ELSE NoConsensus
        ELSE IF buy # {} /\ sell # {} /\ share(buy) /\ share(sell)
        THEN [kind |-> "divergence", score |-> 0, of |-> active]
        ELSE IF Cardinality(dominant) < 2 THEN NoConsensus
        ELSE [kind |-> IF dominant = buy THEN "buy" ELSE "sell",
              score |-> IF dominant = buy THEN -magnitude ELSE magnitude, of |-> dominant]

Next == Calculate

Spec == Init /\ [][Next]_vars

-----------------------------------------------------------------------------
(* The bars, queues and points have their types (indicator.py).             *)
TypeOK ==
    /\ bars \in Seq(Inputs) /\ Len(bars) <= MaxBars /\ Len(points) = Len(bars)
    /\ \A s \in Sides : queues[s] \in Seq(DOMAIN bars) /\ Cardinality(ages[s]) <= 1

(* The front of the queue is the extreme of the last Trigger bars, although *)
(* most of them have left the queue (primitives.py _rolling_extreme), and   *)
(* an age counts from the last bar that reached it.                         *)
Reached(side, i) ==
    \A j \in Max({1, i - Trigger + 1})..i :
        Passes(side, Extreme(bars[i], side), Extreme(bars[j], side))

QueueFindsExtreme ==
    \A s \in Sides :
        /\ bars # <<>> =>
              /\ Len(bars) - Head(queues[s]) < Trigger
              /\ \A j \in Max({1, Len(bars) - Trigger + 1})..Len(bars) :
                    Passes(s, Extreme(bars[Head(queues[s])], s), Extreme(bars[j], s))
        /\ ages[s] = {Len(bars) - i : i \in LET r == {i \in DOMAIN bars : Reached(s, i)}
                                            IN  IF r = {} THEN {} ELSE {Max(r)}}

(* Buying and selling are mirror images: a history with its sides exchanged *)
(* has the opposite score (scoring.py).                                     *)
Mirrored(p) ==
    [buy |-> p.sell, sell |-> p.buy, buyGap |-> p.sellGap, sellGap |-> p.buyGap,
     buyAge |-> p.sellAge, sellAge |-> p.buyAge, position |-> 100 - p.position]

MirrorNegates ==
    points # <<>> =>
        LET here == ScoreLatest(Len(bars), points)
            there == ScoreLatest(Len(bars), [i \in DOMAIN points |-> Mirrored(points[i])])
        IN  there.score = {-v : v \in here.score}

(* What the table shows of a period is the end of its chart; a short        *)
(* history is never called extreme; a side without a pulse or a material    *)
(* gap has no direction (scoring.py score_series, score_latest).            *)
ScoreAgrees ==
    LET here == ScoreLatest(Len(bars), points)
    IN  /\ Len(points) >= MinHistory => ScoreSeries(Len(bars), points, History)[Len(points)] = here
        /\ ~here.full => here.label \notin {"super buy", "super sell"}
        /\ here.direction = "buy" =>
              \/ points[Len(points)].buy > 0
              \/ points[Len(points)].buyGap >= Floor
        /\ \A v \in here.score : here.direction = "conflict" => v = 0

(* The conclusion over the periods mirrors as well, a resonance has two     *)
(* periods of its side and more than twice the weight of the other, and no  *)
(* period of the other side pulls its score beyond those it names           *)
(* (consensus.py build_consensus).                                          *)
ConsensusIsFair ==
    \A side \in [DOMAIN Weights -> Kinds], low \in {20, 30, 61}, high \in {30, 60, 95} :
        LET size == [t \in DOMAIN Weights |-> IF t \in {"half", "day"} THEN low ELSE high]
            here == Consensus(side, size)
            there == Consensus([t \in DOMAIN side |-> IF side[t] = 2 THEN 2 ELSE -side[t]], size)
            against == {t \in DOMAIN side : side[t] \in {-1, 1} /\ size[t] >= 30} \ here.of
        IN  /\ there.score = -here.score /\ there.of = here.of
            /\ here.kind \in {"buy", "sell"} =>
                  /\ Cardinality(here.of) >= 2 /\ Weight(here.of) > 2 * Weight(against)
                  /\ \A t \in here.of : side[t] = (IF here.kind = "buy" THEN -1 ELSE 1)
                  /\ \E t \in here.of : side[t] * here.score >= size[t]
                  /\ \E t \in here.of : side[t] * here.score <= size[t]
=============================================================================
