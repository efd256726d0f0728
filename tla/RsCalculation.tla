--------------------------- MODULE RsCalculation ---------------------------
(***************************************************************************)
(* The relative strength algorithm in stages: calculate_run_staged takes    *)
(* the members and the classifications in chunks, so that a cancellation    *)
(* is seen between two of them; calculate_run of domain/engine.py is the    *)
(* same algorithm in one piece.                                             *)
(*                                                                          *)
(* Dates are numbers. A close is 1, 2 or 4, so that returns times four are  *)
(* integers; medians are kept twice as large, percentiles and scores in     *)
(* units that keep them whole. Results are functions of a member and a      *)
(* range: what the code sorts by is the key.                                *)
(***************************************************************************)
EXTENDS Integers, Sequences, FiniteSets, FiniteSetsExt

CONSTANTS
    Labels,         \* the classification of each member, a sequence
    Catalogue,      \* the series a member may come with
    Benchmarks,     \* the series of the benchmark
    Ranges,         \* the requested ranges, a sequence of [from, to]
    Buffer,         \* days a boundary may be away from the requested one
    LongSpan,       \* span above which a range weighs more
    MemberChunk, ClassChunk, \* members and classifications in a chunk
    MinValid,       \* valid members an eligible classification has
    MinComparable   \* eligible classifications a score needs

VARIABLES
    input,  \* the series of the benchmark and of the members
    stage,  \* the stage that is next
    done,   \* what the chunks of this stage have brought so far
    kept,   \* what the stages before have brought
    output  \* the result, a fatal issue, or "canceled"

vars == <<input, stage, done, kept, output>>

Members == DOMAIN Labels
Classes == {Labels[m] : m \in Members}
RangeIds == DOMAIN Ranges
Fatal(code) == [fatal |-> code]

-----------------------------------------------------------------------------
(* Validation.                                                              *)

(* What came for a member: the closes of its days, unless the request       *)
(* failed or the series is none (two closes of one day).                    *)
IsSeries(s) == s.came = "series"
CoversDay(s, day) == s.came # "failed" /\ day \in DOMAIN s.closes

(* align_benchmark_to_member_coverage: the last day of the benchmark near   *)
(* the end of the ranges that four fifths of the members have, too.         *)
RequestedEnd == Max({Ranges[r].to : r \in RangeIds})
AlignedEnds(i) ==
    {day \in DOMAIN i.benchmark :
        /\ day \in RequestedEnd - Buffer .. RequestedEnd
        /\ Cardinality({m \in Members : CoversDay(i.members[m], day)}) * 5 >= Len(Labels) * 4}
AlignBenchmark(i) ==
    IF AlignedEnds(i) = {} THEN i
    ELSE [i EXCEPT !.benchmark =
             [day \in {d \in DOMAIN @ : d <= Max(AlignedEnds(i))} |-> @[day]]]

(* The days of the benchmark inside a range; the first and the last of them *)
(* are its boundaries.                                                      *)
Inside(i, r) == {day \in DOMAIN i.benchmark : day \in Ranges[r].from .. Ranges[r].to}
Boundaries(i, r) == [first |-> Min(Inside(i, r)), last |-> Max(Inside(i, r))]

RangeIssue(i, r) ==
    IF Inside(i, r) = {} THEN "range not found"
    ELSE IF Boundaries(i, r).first > Ranges[r].from + Buffer THEN "start too far"
    ELSE IF Boundaries(i, r).last < Ranges[r].to - Buffer THEN "end too far"
    ELSE IF Boundaries(i, r).first >= Boundaries(i, r).last THEN "invalid boundaries" ELSE "none"

Resolve(i) ==
    IF \E r \in RangeIds : RangeIssue(i, r) # "none"
    THEN Fatal(RangeIssue(i, Min({r \in RangeIds : RangeIssue(i, r) # "none"})))
    ELSE [ranges |-> [r \in RangeIds |-> Boundaries(i, r)]]

(* normalize_member_chunk, complete_validation.                             *)
Normalize(i, ms) ==
    [members |-> ms,
     series |-> [m \in {x \in ms : IsSeries(i.members[x])} |-> i.members[m].closes],
     failures |-> {[member |-> m, range |-> 0,
                    code |-> IF i.members[m].came = "failed" THEN "fetch" ELSE "invalid"] :
                      m \in {x \in ms : ~IsSeries(i.members[x])}}]

Merged(fs) == [x \in UNION {DOMAIN f : f \in fs} |-> (CHOOSE f \in fs : x \in DOMAIN f)[x]]
Partition(chunks, whole) ==
    /\ UNION {c.members : c \in {chunks[j] : j \in DOMAIN chunks}} = whole
    /\ \A a, b \in DOMAIN chunks : a # b => chunks[a].members \cap chunks[b].members = {}
FailuresOf(chunks) == UNION {chunks[j].failures : j \in DOMAIN chunks}

CompleteValidation(resolved, chunks) ==
    IF ~Partition(chunks, Members) THEN Fatal("member coverage")
    ELSE [ranges |-> resolved.ranges, failures |-> FailuresOf(chunks),
          series |-> Merged({chunks[j].series : j \in DOMAIN chunks})]

-----------------------------------------------------------------------------
(* Members.                                                                 *)

Return(s, b) == (4 * s[b.last]) \div s[b.first]

(* calculate_member_chunk: the return beyond the benchmark's, of the        *)
(* members that have both boundary days.                                    *)
Calculate(prepared, benchmark, ms) ==
    LET Both == {<<m, r>> \in (ms \cap DOMAIN prepared.series) \X RangeIds :
                    {prepared.ranges[r].first, prepared.ranges[r].last}
                        \subseteq DOMAIN prepared.series[m]}
        Lacking(m, r) ==
            IF prepared.ranges[r].last \in DOMAIN prepared.series[m] THEN "no start"
            ELSE IF prepared.ranges[r].first \in DOMAIN prepared.series[m] THEN "no end"
            ELSE "no boundaries"
    IN  [members |-> ms,
         rs |-> [x \in Both |-> Return(prepared.series[x[1]], prepared.ranges[x[2]])
                                - Return(benchmark, prepared.ranges[x[2]])],
         failures |-> {[member |-> x[1], range |-> x[2], code |-> Lacking(x[1], x[2])] :
                          x \in ((ms \cap DOMAIN prepared.series) \X RangeIds) \ Both}]

(* complete_stock_calculation: a member is valid if nothing of it failed,   *)
(* and then has a result for every range.                                   *)
CompleteStock(prepared, chunks) ==
    LET rs == Merged({chunks[j].rs : j \in DOMAIN chunks})
        failures == prepared.failures \cup FailuresOf(chunks)
        failed == {f.member : f \in failures}
    IN  IF ~Partition(chunks, Members) THEN Fatal("calculation coverage")
        ELSE IF \E m \in Members \ failed : \E r \in RangeIds : <<m, r>> \notin DOMAIN rs
        THEN Fatal("result coverage")
        ELSE [rs |-> rs, failures |-> failures, valid |-> Len(Labels) - Cardinality(failed)]

-----------------------------------------------------------------------------
(* Classifications.                                                         *)

Holding(c) == {m \in Members : Labels[m] = c}

(* Twice the median of the values f takes on S, sorted.                     *)
Median2(f, S) ==
    LET n == Cardinality(S)
        ValueAt(k) == CHOOSE v \in {f[x] : x \in S} :
                         /\ Cardinality({x \in S : f[x] < v}) < k
                         /\ Cardinality({x \in S : f[x] <= v}) >= k
    IN  IF n % 2 = 1 THEN 2 * ValueAt((n + 1) \div 2)
        ELSE ValueAt(n \div 2) + ValueAt(n \div 2 + 1)

Base(stock, c, r) ==
    LET results == {x \in DOMAIN stock.rs : x[1] \in Holding(c) /\ x[2] = r}
        valid == Cardinality(results)
    IN  [total |-> Cardinality(Holding(c)), valid |-> valid,
         median |-> IF valid = 0 THEN {} ELSE {Median2(stock.rs, results)},
         positive |-> Cardinality({x \in results : stock.rs[x] > 0}),
         eligible |-> valid >= MinValid /\ valid * 10 >= Cardinality(Holding(c)) * 6]

Aggregate(stock, cs) ==
    [members |-> cs, bases |-> [x \in cs \X RangeIds |-> Base(stock, x[1], x[2])]]

Value(base) == CHOOSE v \in base.median : TRUE
StrictlyWeaker(a, b) == a.positive * b.valid < b.positive * a.valid

(* _percentile, times 12 by the number of others: those below count twice,  *)
(* the equal ones once.                                                     *)
PercentileOf(n, lower, equal) == (12 * (2 * lower + equal - 1)) \div (n - 1)

FaultyMedianPercentile(bases, E, r, c) ==
    PercentileOf(Cardinality(E),
        Cardinality({e \in E : Value(bases[e, r]) > Value(bases[c, r])}),
        Cardinality({e \in E : Value(bases[e, r]) = Value(bases[c, r])}))

MedianPercentile(bases, E, r, c) ==
    PercentileOf(Cardinality(E),
        Cardinality({e \in E : Value(bases[e, r]) < Value(bases[c, r])}),
        Cardinality({e \in E : Value(bases[e, r]) = Value(bases[c, r])}))
BreadthPercentile(bases, E, r, c) ==
    PercentileOf(Cardinality(E),
        Cardinality({e \in E : StrictlyWeaker(bases[e, r], bases[c, r])}),
        Cardinality({e \in E : ~StrictlyWeaker(bases[e, r], bases[c, r])
                               /\ ~StrictlyWeaker(bases[c, r], bases[e, r])}))

Eligible(bases, r) == {c \in Classes : bases[c, r].eligible}
Scored(bases, r, c) == c \in Eligible(bases, r) /\ Cardinality(Eligible(bases, r)) >= MinComparable
Score(bases, r, c) ==
    7 * MedianPercentile(bases, Eligible(bases, r), r, c)
    + 3 * BreadthPercentile(bases, Eligible(bases, r), r, c)

Span(r) == Ranges[r].to - Ranges[r].from
Weight(r) == IF Span(r) <= LongSpan THEN 100 ELSE 115

Composite(bases, c) ==
    IF \A r \in RangeIds : Scored(bases, r, c)
    THEN {MapThenSumSet(LAMBDA r : Score(bases, r, c) * Weight(r), RangeIds)} ELSE {}

(* calculate_composite_and_status.                                          *)
Status(bases, c) ==
    LET median(r) == Value(bases[c, r])
        shortest == {r \in RangeIds : \A x \in RangeIds : Span(r) <= Span(x)}
        longest == {r \in RangeIds : \A x \in RangeIds : Span(r) >= Span(x)}
        Turns(sign) == \E s \in shortest, l \in longest : sign * median(s) > 0 /\ sign * median(l) < 0
    IN  CASE Len(Ranges) = 1 -> "not applicable"
          [] \E r \in RangeIds : bases[c, r].median = {} -> "insufficient data"
          [] \A r \in RangeIds : median(r) > 0 -> "sustained strong"
          [] \A r \in RangeIds : median(r) < 0 -> "sustained weak"
          [] Cardinality(shortest) # 1 \/ Cardinality(longest) # 1 -> "tied span"
          [] Turns(1) -> "strengthening"
          [] Turns(-1) -> "weakening"
          [] OTHER -> "divergent"

(* The best composite first, those without one last; the name decides.      *)
Before(composite, a, b) ==
    \/ composite[a] # {} /\ composite[b] = {}
    \/ composite[a] = {} /\ composite[b] = {} /\ a < b
    \/ \E v \in composite[a], w \in composite[b] : v > w \/ (v = w /\ a < b)

Finalize(stock, chunks) ==
    LET bases == Merged({chunks[j].bases : j \in DOMAIN chunks})
        composite == [c \in Classes |-> Composite(bases, c)]
    IN  IF ~Partition(chunks, Classes) THEN Fatal("classification coverage")
        ELSE [stock |-> stock, bases |-> bases, composite |-> composite,
              status |-> [c \in Classes |-> Status(bases, c)],
              rank |-> [c \in Classes |-> 1 + Cardinality({b \in Classes : Before(composite, b, c)})]]

IsFatal(x) == "fatal" \in DOMAIN x

(* calculate_run: the stages with one chunk each.                           *)
CalculateRun(i) ==
    LET resolved == Resolve(i)
        prepared == CompleteValidation(resolved, <<Normalize(i, Members)>>)
        stock == CompleteStock(prepared, <<Calculate(prepared, i.benchmark, Members)>>)
    IN  IF IsFatal(resolved) THEN resolved
        ELSE IF IsFatal(prepared) THEN prepared
        ELSE IF IsFatal(stock) THEN stock
        ELSE Finalize(stock, <<Aggregate(stock, Classes)>>)

-----------------------------------------------------------------------------
(* calculate_run_staged.                                                    *)

Init ==
    /\ input \in {AlignBenchmark(i) :
                     i \in [benchmark : Benchmarks, members : [Members -> Catalogue]]}
    /\ stage = "resolve" /\ done = <<>> /\ kept = <<>> /\ output = <<>>

Ends(result) == output' = <<result>> /\ stage' = "over" /\ UNCHANGED <<done, kept>>
Goes(to, result) ==
    IF IsFatal(result) THEN Ends(result)
    ELSE stage' = to /\ kept' = Append(kept, result) /\ done' = <<>> /\ UNCHANGED output

(* _chunks over the sorted members or classifications.                      *)
Taken == UNION {done[j].members : j \in DOMAIN done}
FaultyChunk(whole, size) ==
    {x \in whole : Cardinality({y \in whole : y < x}) \in (Len(done) * size)..((Len(done) + 1) * size)}
Chunk(whole, size) == {x \in whole \ Taken : Cardinality({y \in whole \ Taken : y < x}) < size}
Adds(chunk) == done' = Append(done, chunk) /\ UNCHANGED <<stage, kept, output>>

ResolveRanges == stage = "resolve" /\ Goes("normalize", Resolve(input)) /\ UNCHANGED input

NormalizeMembers ==
    /\ stage = "normalize"
    /\ IF Taken # Members THEN Adds(Normalize(input, Chunk(Members, MemberChunk)))
       ELSE Goes("calculate", CompleteValidation(kept[1], done))
    /\ UNCHANGED input

CalculateMembers ==
    /\ stage = "calculate"
    /\ IF Taken # Members THEN Adds(Calculate(kept[2], input.benchmark, Chunk(Members, MemberChunk)))
       ELSE Goes("aggregate", CompleteStock(kept[2], done))
    /\ UNCHANGED input

AggregateClasses ==
    /\ stage = "aggregate"
    /\ IF Taken # Classes THEN Adds(Aggregate(kept[3], Chunk(Classes, ClassChunk)))
       ELSE Ends(Finalize(kept[3], done))
    /\ UNCHANGED input

(* Seen before a chunk.                                                     *)
Cancel ==
    /\ \/ stage \in {"normalize", "calculate"} /\ Taken # Members
       \/ stage = "aggregate" /\ Taken # Classes
    /\ stage' = "canceled" /\ UNCHANGED <<input, done, kept, output>>

Next ==
    \/ ResolveRanges \/ NormalizeMembers \/ CalculateMembers \/ AggregateClasses \/ Cancel

Spec == Init /\ [][Next]_vars

-----------------------------------------------------------------------------
TypeOK ==
    /\ stage \in {"resolve", "normalize", "calculate", "aggregate", "over", "canceled"}
    /\ Len(done) <= Len(Labels) /\ Len(kept) <= 3
    /\ (output # <<>>) <=> stage = "over"

(* The chunks bring what the algorithm brings in one piece, the same fatal  *)
(* issue included; only the benchmark can bring one.                        *)
StagedIsSerial ==
    stage = "over" =>
        /\ output[1] = CalculateRun(input)
        /\ IsFatal(output[1]) =>
              output[1].fatal \in {"range not found", "start too far", "end too far", "invalid boundaries"}

(* A classification whose median and whose share of positive members are    *)
(* nowhere lower than another one's has no lower score, and one that is     *)
(* nowhere negative is not called weak.                                     *)
Dominates(bases, a, b) ==
    \A r \in RangeIds :
        /\ Value(bases[a, r]) >= Value(bases[b, r])
        /\ ~StrictlyWeaker(bases[a, r], bases[b, r])

StrongerIsNotLower ==
    stage = "over" /\ ~IsFatal(output[1]) =>
        \A a, b \in Classes :
            LET o == output[1]
            IN  o.composite[a] # {} /\ o.composite[b] # {} =>
                  /\ Dominates(o.bases, a, b) =>
                        \A v \in o.composite[a], w \in o.composite[b] :
                            v > w \/ (v = w /\ (a < b => o.rank[a] < o.rank[b]))
                  /\ o.status[a] = "sustained strong" /\ o.status[b] = "sustained weak"
                        => o.rank[a] < o.rank[b]

-----------------------------------------------------------------------------
(* What does not hold: a benchmark that is cut to the members' last day     *)
(* still has the ranges it had.                                             *)
AlignmentKeepsRanges ==
    stage = "over" => ~(IsFatal(output[1]) /\ output[1].fatal = "invalid boundaries")
=============================================================================
