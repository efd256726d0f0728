----------------------------- MODULE TurningSignal -----------------------------
(* The turning point signal, bar by bar: the scans that find a bullish      *)
(* divergence, the screening of the last Window bars from either side, and  *)
(* the replay that enters a trade for each new signal (engine.py,           *)
(* backtest.py).  The values derived from the closes come with the bar and  *)
(* stay as the window moves, as when the provider sends them; the averages  *)
(* a replay starts again in each window are taken to agree with them, and   *)
(* an easing by one hundredth is any easing.  Positions count from 1.       *)
EXTENDS Integers, Sequences, FiniteSets, FiniteSetsExt, SequencesExt

CONSTANTS
    Bars,        \* [close, dif, hist, side, weak]: side is where the close is
                 \* from the average of the highs, weak whether that average is
                 \* below the slow one
    MaxBars,
    Window,      \* bars of a screening, 220
    MinBars,     \* bars a screening needs, 119
    Lookback,    \* bars a signal or a cross is recent, 30
    MaxDistance, \* bars from a signal to its cross, 20
    Hold         \* bars a trade is held, 10

VARIABLES
    bars, \* the bars so far
    told, \* per side the signals it matched, as <<signal, cross>>
    entries \* per side the bars at which a new one was told, in order

vars == <<bars, told, entries>>

Sides == {"left", "right"}

Init ==
    /\ bars = <<>>
    /\ told = [s \in Sides |-> {}] /\ entries = [s \in Sides |-> <<>>]

-----------------------------------------------------------------------------
(* The scans.  A value there may not be is a set of at most one.            *)
NegativeCross(w) == {i \in 2..Len(w) : w[i - 1].hist >= 0 /\ w[i].hist < 0}
PositiveCross(w) == {i \in 2..Len(w) : w[i - 1].hist <= 0 /\ w[i].hist > 0}

BarsSinceLast(w, events) ==
    [i \in DOMAIN w |-> LET before == {e \in events : e <= i}
                        IN  IF before = {} THEN i ELSE i - Max(before)]

(* The scan goes on over the event.                                         *)
FaultyLowestSinceEvent(value, distance) ==
    [i \in DOMAIN value |-> Min({value[j] : j \in 1..i})]

LowestSinceEvent(value, distance) ==
    LET low[i \in DOMAIN value] ==
            IF i = 1 \/ distance[i] = 0 THEN value[i] ELSE Min({low[i - 1], value[i]})
    IN  low

DynamicRef(value, offset) ==
    [i \in DOMAIN value |-> IF i > offset[i] THEN value[i - offset[i]] ELSE {}]

Below(a, b) == \E x \in a, y \in b : x < y

Divergence(w) ==
    LET since == BarsSinceLast(w, NegativeCross(w))
        turned == BarsSinceLast(w, PositiveCross(w))
        back == [i \in DOMAIN w |-> turned[i] + 1]
        close == LowestSinceEvent([i \in DOMAIN w |-> w[i].close], since)
        dif == LowestSinceEvent([i \in DOMAIN w |-> w[i].dif], since)
        close1 == [i \in DOMAIN w |-> {close[i]}]
        dif1 == [i \in DOMAIN w |-> {dif[i]}]
        close2 == DynamicRef(close1, back)
        close3 == DynamicRef(close2, back)
        dif2 == DynamicRef(dif1, back)
        dif3 == DynamicRef(dif2, back)
        falling(i) == i > 1 /\ w[i - 1].hist < 0 /\ w[i].dif < 0
    IN  [i \in DOMAIN w |->
            [recent |-> falling(i) /\ Below(close1[i], close2[i]) /\ Below(dif2[i], dif1[i]),
             multi |-> falling(i) /\ Below(close1[i], close3[i])
                       /\ Below(dif1[i], dif2[i]) /\ Below(dif3[i], dif1[i])]]

-----------------------------------------------------------------------------
(* The screening of a window.                                               *)
Active(d, i) == d[i].recent \/ d[i].multi
Starts(d) == {i \in DOMAIN d : Active(d, i) /\ (i = 1 \/ ~Active(d, i - 1))}

Size(x) == IF x < 0 THEN -x ELSE x
LeftCd(w, d) ==
    LET eased == {i \in 2..Len(w) : Active(d, i - 1) /\ Size(w[i - 1].dif) > Size(w[i].dif)}
    IN  {i \in eased : i - 1 \notin eased}

Recent(w) == {i \in 2..Len(w) : i > Len(w) - Lookback}
RecentCrosses(w) == {i \in Recent(w) : w[i].side > 0 /\ w[i - 1].side < 0}

(* The kind of the nearest start, at most 30 bars back, or a plain one.     *)
KindOf(d, i) ==
    LET near == {j \in Starts(d) : j <= i /\ j > i - Lookback}
    IN  IF near = {} THEN "cd" ELSE
        LET x == d[Max(near)]
        IN  IF x.recent /\ x.multi THEN "confirmed" ELSE IF x.recent THEN "recent" ELSE "multi"

NoMatch(reason) == [matched |-> FALSE, reason |-> reason, signal |-> 0, cross |-> 0,
                    kind |-> "none", enhanced |-> {}]

FirstFrom(S, i) == LET later == {j \in S : j >= i} IN IF later = {} THEN {} ELSE {Min(later)}

Match(w, d, signal, cross, kind) ==
    [matched |-> TRUE, reason |-> "matched", signal |-> signal, cross |-> cross, kind |-> kind,
     enhanced |-> FirstFrom(LeftCd(w, d), signal)]

FaultyBest(pairs) ==
    CHOOSE p \in pairs : \A q \in pairs :
        p[1] > q[1] \/ (p[1] = q[1] /\ p[2] >= q[2])

(* The pair of the latest signal that has a cross, and its nearest cross.   *)
Best(pairs) ==
    CHOOSE p \in pairs : \A q \in pairs :
        p[1] > q[1] \/ (p[1] = q[1] /\ p[2] <= q[2])

ScreenDerived(w, side) ==
    LET d == Divergence(w)
        signals == Starts(d) \cap Recent(w)
        weak == {i \in signals : w[i].weak}
        crosses == RecentCrosses(w)
        pairs == {p \in weak \X crosses : p[2] - p[1] \in 0..MaxDistance}
    IN  IF Len(w) < MinBars THEN NoMatch("insufficient bars")
        ELSE IF signals = {}
        THEN NoMatch(IF side = "right" /\ crosses # {} THEN "cross without divergence" ELSE "no signal")
        ELSE IF side = "left" THEN Match(w, d, Max(signals), 0, "cd")
        ELSE IF weak = {} THEN NoMatch("trend filter")
        ELSE IF crosses = {} THEN NoMatch("awaiting confirmation")
        ELSE IF pairs = {} THEN NoMatch("expired")
        ELSE LET p == Best(pairs) IN Match(w, d, p[1], p[2], KindOf(d, p[1]))

-----------------------------------------------------------------------------
(* The replay: each new bar is screened with the bars before it.            *)
Offset(all) == IF Len(all) > Window THEN Len(all) - Window ELSE 0
View(all) == SubSeq(all, Offset(all) + 1, Len(all))
Found(all, side) ==
    LET r == ScreenDerived(View(all), side)
    IN  IF r.matched
        THEN {<<r.signal + Offset(all), IF r.cross = 0 THEN 0 ELSE r.cross + Offset(all)>>}
        ELSE {}

DetectSignal ==
    \E b \in Bars :
        LET next == Append(bars, b)
            found == [s \in Sides |-> Found(next, s)]
        IN  /\ Len(bars) < MaxBars
            /\ bars' = next
            /\ told' = [s \in Sides |-> told[s] \cup found[s]]
            /\ entries' = [s \in Sides |-> IF found[s] \subseteq told[s] THEN entries[s]
                                           ELSE Append(entries[s], Len(next))]

(* Entered at the next open and left at a close; a signal that comes while a*)
(* trade is held is skipped, and one whose exit is not there yet is open.   *)
FaultyEnter(acc, i) ==
    IF i + 1 <= acc.exit THEN [acc EXCEPT !.skipped = @ \cup {i}]
    ELSE IF i + Hold > acc.last THEN [acc EXCEPT !.open = @ \cup {i}, !.exit = i + Hold]
    ELSE [acc EXCEPT !.taken = @ \cup {i}, !.exit = i + Hold]

Enter(acc, i) ==
    IF i + 1 <= acc.exit THEN [acc EXCEPT !.skipped = @ \cup {i}]
    ELSE IF i + Hold > acc.last THEN [acc EXCEPT !.open = @ \cup {i}]
    ELSE [acc EXCEPT !.taken = @ \cup {i}, !.exit = i + Hold]

Evaluate(all, indexes) ==
    FoldLeft(Enter, [taken |-> {}, skipped |-> {}, open |-> {}, exit |-> 0, last |-> Len(all)], indexes)

Next == DetectSignal

Spec == Init /\ [][Next]_vars

-----------------------------------------------------------------------------
(* The bars, the signals and their entries have their types (backtest.py).  *)
TypeOK ==
    /\ bars \in Seq(Bars) /\ Len(bars) <= MaxBars
    /\ \A s \in Sides : /\ told[s] \subseteq (1..Len(bars)) \X (0..Len(bars))
                        /\ Len(entries[s]) <= Len(bars)

(* What the scans find is a divergence of swings: the lowest close since    *)
(* the histogram turned negative is below that of the swing before the last *)
(* turn to positive, or of the one before that, while the lowest DIF is     *)
(* not (engine.py _divergence_state_from_macd).                             *)
LastOf(S) == IF S = {} THEN {} ELSE {Max(S)}
Swing(w, i) == (Max({1} \cup {e \in NegativeCross(w) : e <= i}))..i
Lows(w, i, field) == Min({w[j][field] : j \in Swing(w, i)})
Earlier(w, i) == {e - 1 : e \in LastOf({e \in PositiveCross(w) : e <= i})}

SwingsDiverge(w, i) ==
    /\ i > 1 /\ w[i - 1].hist < 0 /\ w[i].dif < 0
    /\ \E a \in Earlier(w, i) :
          \/ /\ Lows(w, i, "close") < Lows(w, a, "close")
             /\ Lows(w, i, "dif") > Lows(w, a, "dif")
          \/ \E b \in Earlier(w, a) :
                /\ Lows(w, i, "close") < Lows(w, b, "close")
                /\ Lows(w, b, "dif") < Lows(w, i, "dif") /\ Lows(w, i, "dif") < Lows(w, a, "dif")

ScansFindSwings ==
    LET w == View(bars) d == Divergence(w)
    IN  \A i \in DOMAIN w : Active(d, i) <=> SwingsDiverge(w, i)

(* A trade is taken, skipped or open for each entry; no two trades are held *)
(* at once, and a signal is skipped only under a trade that was taken       *)
(* (backtest.py evaluate_signal_indexes).                                   *)
TradesDoNotOverlap ==
    \A s \in Sides :
        LET e == Evaluate(bars, entries[s])
        IN  /\ e.taken \cup e.skipped \cup e.open = ToSet(entries[s])
            /\ \A i, j \in e.taken : i < j => i + Hold < j + 1
            /\ \A i \in e.skipped : \E j \in e.taken : j < i /\ i < j + Hold
            /\ \A i \in e.open : i + Hold > Len(bars)

(* A signal has one entry: the cross it is matched with does not change as  *)
(* bars follow, and it is told within the lookback (engine.py, backtest.py).*)
OneEntryPerSignal ==
    \A s \in Sides :
        /\ \A p, q \in told[s] : p[1] = q[1] => p = q
        /\ Cardinality(told[s]) = Len(entries[s])

(* What the right side matches, the left side told when it came, as long as *)
(* no bar has left the window (engine.py screen_derived).                   *)
RightFollowsLeftAt(n) ==
    \A p \in told["right"] : p[1] >= MinBars /\ Len(bars) <= n => <<p[1], 0>> \in told["left"]
RightFollowsLeft == RightFollowsLeftAt(Window)

-----------------------------------------------------------------------------
(* Does not hold: when the first bars of a swing leave the window, its      *)
(* lowest close rises, and an older bar becomes a signal after the fact.    *)
RightAlwaysFollowsLeft == RightFollowsLeftAt(MaxBars)
=============================================================================
