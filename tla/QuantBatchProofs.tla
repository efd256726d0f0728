--------------------------- MODULE QuantBatchProofs ---------------------------
(***************************************************************************)
(* What get_quant_series promises of a batch, for any symbols, any width,   *)
(* any number of retries and any limits of the breaker.                     *)
(*                                                                          *)
(* The invariant says where each symbol is (planned, deferred, in flight or *)
(* answered), what the flags of the loop and of the workers mean for those  *)
(* places, and how many requests may be under way.                          *)
(***************************************************************************)
EXTENDS QuantBatch, SequenceTheorems, FiniteSetTheorems, TLAPS

Phases == {"fill", "wait", "handle", "stopping", "returned"}
Stops == {"none", "canceled", "circuit_open"} \cup Fatal
Answers == {"none", "circuit_open"} \cup Outcomes

Types ==
    /\ todo \in [planned : Seq(Symbols), deferred : Seq(Symbols)]
    /\ tries \in [Symbols -> 0..Retries]
    /\ DOMAIN flight \subseteq Symbols
    /\ flight \in [DOMAIN flight -> Outcomes \cup {"running", "dropped"}]
    /\ loop \in [phase : Phases, done : SUBSET Symbols, concurrency : 1..Width,
                 throttled : BOOLEAN, rateLimitSeen : BOOLEAN, stop : Stops]
    /\ limited \in BOOLEAN /\ canceled \in BOOLEAN
    /\ answer \in [Symbols -> Answers]
    /\ finished \in Seq(Outcomes)

(* The breaker opens no later than at its limits, and an open one ends the  *)
(* loop.                                                                    *)
BreakerInv ==
    /\ breaker \in [recent : Seq(Failures), code : Infrastructure \cup {"none"},
                    run : 0..Streak, open : BOOLEAN]
    /\ Len(breaker.recent) <= Window
    /\ loop.phase \in {"fill", "wait", "handle"} => ~breaker.open /\ breaker.run < Streak

(* Every symbol is in one place, and there once.                            *)
Once(q) == \A i, j \in 1..Len(q) : q[i] = q[j] => i = j
Apart(P, D, F, A) ==
    /\ P \cap D = {} /\ P \cap F = {} /\ P \cap A = {}
    /\ D \cap F = {} /\ D \cap A = {} /\ F \cap A = {}
    /\ Symbols = P \cup D \cup F \cup A
PlacesInv ==
    loop.phase # "returned" =>
        /\ Once(todo.planned) /\ Once(todo.deferred)
        /\ Apart(Range(todo.planned), Range(todo.deferred), DOMAIN flight, Answered)

(* What is deferred waits for a throttled loop, a limit that was observed   *)
(* for a future that says so, and a loop that stopped by itself for nothing.*)
LoopInv ==
    /\ loop.phase # "returned" =>
          /\ loop.throttled <=> todo.deferred # <<>>
          /\ limited => \E s \in DOMAIN flight : flight[s] = "rate_limited"
          /\ loop.phase # "stopping" => \A s \in DOMAIN flight : flight[s] # "dropped"
    /\ loop.phase = "handle" =>
          /\ loop.done \subseteq DOMAIN flight
          /\ \A s \in loop.done : flight[s] # "running"
    /\ loop.phase \in {"fill", "wait", "handle"} => loop.stop = "none"
    /\ loop.phase = "stopping" /\ loop.stop = "none" =>
          flight = <<>> /\ todo.planned = <<>> /\ todo.deferred = <<>>
    /\ loop.phase = "returned" => flight = <<>> /\ Answered = Symbols

AloneInv ==
    /\ Cardinality(DOMAIN flight) <= Width
    /\ (\A s \in Symbols : answer[s] # "ok") =>
          loop.concurrency = 1 /\ Cardinality(DOMAIN flight) <= 1
    /\ loop.rateLimitSeen => loop.concurrency = 1
    /\ "rate_limited" \in Range(finished) => loop.rateLimitSeen

IInv == Types /\ BreakerInv /\ PlacesInv /\ LoopInv /\ AloneInv

-----------------------------------------------------------------------------
(* Sequences that hold each element once.                                   *)

LEMMA RangeHolds ==
    ASSUME NEW S, NEW q \in Seq(S)
    PROVE  /\ \A i \in 1..Len(q) : q[i] \in Range(q)
           /\ \A x \in Range(q) : \E i \in 1..Len(q) : q[i] = x
           /\ Range(q) \subseteq S
           /\ Range(q) = {} <=> q = <<>>
           /\ Len(q) \in Nat
<1>1. Range(q) = {q[i] : i \in 1..Len(q)}
  BY RangeEquality
<1>2. Len(q) \in Nat /\ \A i \in 1..Len(q) : q[i] \in S
  BY ElementOfSeq, LenProperties
<1>3. q # <<>> => 1 \in 1..Len(q)
  BY EmptySeq
<1>4. q = <<>> => 1..Len(q) = {}
  OBVIOUS
<1> QED
  BY <1>1, <1>2, <1>3, <1>4

LEMMA OnceEmpty == Once(<<>>) /\ Range(<<>>) = {}
<1>1. <<>> \in Seq({}) /\ Len(<<>>) = 0
  OBVIOUS
<1> QED
  BY <1>1, RangeHolds DEF Once

LEMMA OnceConcat ==
    ASSUME NEW S, NEW p \in Seq(S), NEW q \in Seq(S),
           Once(p), Once(q), Range(p) \cap Range(q) = {}
    PROVE  /\ p \o q \in Seq(S) /\ Once(p \o q)
           /\ Range(p \o q) = Range(p) \cup Range(q)
<1>1. /\ p \o q \in Seq(S) /\ Len(p \o q) = Len(p) + Len(q)
      /\ \A i \in 1..Len(p) + Len(q) :
            (p \o q)[i] = IF i <= Len(p) THEN p[i] ELSE q[i - Len(p)]
  BY ConcatProperties
<1>2. Len(p) \in Nat /\ Len(q) \in Nat
  BY LenProperties
<1>3. Once(p \o q)
  <2> SUFFICES ASSUME NEW i \in 1..Len(p) + Len(q), NEW j \in 1..Len(p) + Len(q),
                      (p \o q)[i] = (p \o q)[j]
               PROVE  i = j
    BY <1>1 DEF Once
  <2>1. CASE i <= Len(p) /\ j <= Len(p)
    BY <2>1, <1>1, <1>2 DEF Once
  <2>2. CASE i > Len(p) /\ j > Len(p)
    <3>1. i - Len(p) \in 1..Len(q) /\ j - Len(p) \in 1..Len(q)
      BY <2>2, <1>2
    <3>2. q[i - Len(p)] = q[j - Len(p)]
      BY <2>2, <1>1, <1>2
    <3>3. i - Len(p) = j - Len(p)
      BY <3>1, <3>2 DEF Once
    <3> QED
      BY <3>3, <1>2
  <2>3. CASE i <= Len(p) /\ j > Len(p)
    <3>1. i \in 1..Len(p) /\ j - Len(p) \in 1..Len(q)
      BY <2>3, <1>2
    <3>2. p[i] = q[j - Len(p)]
      BY <2>3, <1>1, <1>2
    <3> QED
      BY <3>1, <3>2, RangeHolds
  <2>4. CASE i > Len(p) /\ j <= Len(p)
    <3>1. j \in 1..Len(p) /\ i - Len(p) \in 1..Len(q)
      BY <2>4, <1>2
    <3>2. p[j] = q[i - Len(p)]
      BY <2>4, <1>1, <1>2
    <3> QED
      BY <3>1, <3>2, RangeHolds
  <2> QED
    BY <2>1, <2>2, <2>3, <2>4, <1>2
<1> QED
  BY <1>1, <1>3, RangeConcatenation

LEMMA OnceSingle ==
    ASSUME NEW S, NEW s \in S
    PROVE  <<s>> \in Seq(S) /\ Once(<<s>>) /\ Range(<<s>>) = {s} /\ <<s>> # <<>>
<1>1. <<s>> \in Seq(S) /\ Len(<<s>>) = 1 /\ <<s>>[1] = s
  OBVIOUS
<1>2. Range(<<s>>) = {<<s>>[i] : i \in 1..1}
  BY <1>1, RangeEquality
<1> QED
  BY <1>1, <1>2 DEF Once

LEMMA OnceFront ==
    ASSUME NEW S, NEW q \in Seq(S), NEW s \in S, Once(q), s \notin Range(q)
    PROVE  /\ <<s>> \o q \in Seq(S) /\ Once(<<s>> \o q) /\ <<s>> \o q # <<>>
           /\ Range(<<s>> \o q) = Range(q) \cup {s}
<1> DEFINE f == <<s>>
<1>1. f \in Seq(S) /\ Once(f) /\ Range(f) = {s}
  BY OnceSingle
<1> HIDE DEF f
<1>2. /\ f \o q \in Seq(S) /\ Once(f \o q)
      /\ Range(f \o q) = Range(q) \cup {s}
  BY <1>1, OnceConcat
<1>3. f \o q # <<>>
  BY <1>2, RangeHolds
<1> QED
  BY <1>2, <1>3 DEF f

LEMMA OnceAppend ==
    ASSUME NEW S, NEW q \in Seq(S), NEW s \in S, Once(q), s \notin Range(q)
    PROVE  /\ Append(q, s) \in Seq(S) /\ Once(Append(q, s)) /\ Append(q, s) # <<>>
           /\ Range(Append(q, s)) = Range(q) \cup {s}
<1>1. Append(q, s) = q \o <<s>>
  BY AppendIsConcat
<1> DEFINE f == <<s>>
<1>2. f \in Seq(S) /\ Once(f) /\ Range(f) = {s}
  BY OnceSingle
<1> HIDE DEF f
<1>3. /\ q \o f \in Seq(S) /\ Once(q \o f)
      /\ Range(q \o f) = Range(q) \cup {s}
  BY <1>2, OnceConcat
<1>4. q \o f # <<>>
  BY <1>3, RangeHolds
<1> QED
  BY <1>1, <1>3, <1>4 DEF f

LEMMA OnceTail ==
    ASSUME NEW S, NEW q \in Seq(S), q # <<>>, Once(q)
    PROVE  /\ Head(q) \in Range(q) /\ Tail(q) \in Seq(S) /\ Once(Tail(q))
           /\ Range(Tail(q)) = Range(q) \ {Head(q)}
<1>1. /\ Tail(q) \in Seq(S) /\ Len(Tail(q)) = Len(q) - 1
      /\ \A i \in 1..Len(Tail(q)) : Tail(q)[i] = q[i + 1]
  BY HeadTailProperties
<1>2. Len(q) \in Nat \ {0} /\ Head(q) = q[1]
  BY EmptySeq
<1>3. Head(q) \in Range(q)
  BY <1>2, RangeHolds
<1>4. Once(Tail(q))
  <2> SUFFICES ASSUME NEW i \in 1..Len(Tail(q)), NEW j \in 1..Len(Tail(q)),
                      Tail(q)[i] = Tail(q)[j]
               PROVE  i = j
    BY DEF Once
  <2>1. i + 1 \in 1..Len(q) /\ j + 1 \in 1..Len(q) /\ q[i + 1] = q[j + 1]
    BY <1>1, <1>2
  <2>2. i + 1 = j + 1
    BY <2>1 DEF Once
  <2> QED
    BY <2>2
<1>5. Range(Tail(q)) \subseteq Range(q) \ {Head(q)}
  <2> SUFFICES ASSUME NEW x \in Range(Tail(q)) PROVE x \in Range(q) /\ x # Head(q)
    OBVIOUS
  <2>1. PICK i \in 1..Len(Tail(q)) : Tail(q)[i] = x
    BY <1>1, RangeHolds
  <2>2. i + 1 \in 1..Len(q) /\ q[i + 1] = x /\ i + 1 # 1 /\ 1 \in 1..Len(q)
    BY <2>1, <1>1, <1>2
  <2> QED
    BY <2>2, <1>2, RangeHolds DEF Once
<1>6. Range(q) \ {Head(q)} \subseteq Range(Tail(q))
  <2> SUFFICES ASSUME NEW x \in Range(q), x # Head(q) PROVE x \in Range(Tail(q))
    OBVIOUS
  <2>1. PICK i \in 1..Len(q) : q[i] = x
    BY RangeHolds
  <2>2. i # 1
    BY <2>1, <1>2
  <2>3. i - 1 \in 1..Len(Tail(q)) /\ Tail(q)[i - 1] = x
    BY <2>1, <2>2, <1>1, <1>2
  <2> QED
    BY <2>3, <1>1, RangeHolds
<1> QED
  BY <1>1, <1>3, <1>4, <1>5, <1>6

(* CountOf counts an element such a sequence holds as one.                  *)
LEMMA CountOnce ==
    ASSUME NEW S, NEW q \in Seq(S), Once(q), NEW s
    PROVE  CountOf(s, q) = IF s \in Range(q) THEN 1 ELSE 0
<1>1. DOMAIN q = 1..Len(q)
  BY LenProperties
<1>2. CASE s \in Range(q)
  <2>1. PICK i \in 1..Len(q) : q[i] = s
    BY <1>2, RangeHolds
  <2>2. {j \in DOMAIN q : q[j] = s} = {i}
    BY <2>1, <1>1 DEF Once
  <2> QED
    BY <2>2, <1>2, FS_Singleton DEF CountOf
<1>3. CASE s \notin Range(q)
  <2>1. {j \in DOMAIN q : q[j] = s} = {}
    BY <1>1, <1>3, RangeHolds
  <2> QED
    BY <2>1, <1>3, FS_EmptySet DEF CountOf
<1> QED
  BY <1>2, <1>3

(* LastOf drops at most the oldest of one too many.                         *)
LEMMA LastOfKeeps ==
    ASSUME Window \in Nat, NEW S, NEW q \in Seq(S), NEW x \in S
    PROVE  /\ LastOf(Append(q, x)) \in Seq(S)
           /\ Range(LastOf(Append(q, x))) \subseteq Range(q) \cup {x}
           /\ Len(q) <= Window => Len(LastOf(Append(q, x))) <= Window
<1> DEFINE a == Append(q, x)
<1>1. a \in Seq(S) /\ a # <<>> /\ Len(a) = Len(q) + 1 /\ Len(q) \in Nat
  BY AppendProperties, LenProperties
<1>2. Range(a) \subseteq Range(q) \cup {x}
  <2> DEFINE f == <<x>>
  <2>1. a = q \o f
    BY AppendIsConcat
  <2>2. f \in Seq(S) /\ Range(f) = {x}
    BY OnceSingle
  <2> HIDE DEF f, a
  <2> QED
    BY <2>1, <2>2, RangeConcatenation
<1>3. Tail(a) \in Seq(S) /\ Len(Tail(a)) = Len(q) /\ Range(Tail(a)) \subseteq Range(a)
  <2>1. /\ Tail(a) \in Seq(S) /\ Len(Tail(a)) = Len(q)
        /\ \A i \in 1..Len(q) : Tail(a)[i] = a[i + 1] /\ i + 1 \in 1..Len(a)
    BY <1>1, HeadTailProperties
  <2> HIDE DEF a
  <2>2. ASSUME NEW y \in Range(Tail(a)) PROVE y \in Range(a)
    <3>1. PICK i \in 1..Len(Tail(a)) : Tail(a)[i] = y
      BY <2>1, RangeHolds
    <3> QED
      BY <3>1, <2>1, <1>1, RangeHolds
  <2> QED
    BY <2>1, <2>2
<1> QED
  BY <1>1, <1>2, <1>3 DEF LastOf

-----------------------------------------------------------------------------
(* Nothing in flight is the empty function.                                 *)
LEMMA NothingInFlight ==
    ASSUME NEW S, NEW f, f \in [DOMAIN f -> S]
    PROVE  f = <<>> <=> DOMAIN f = {}
<1>1. ASSUME DOMAIN f = {} PROVE f = <<>>
  <2>1. f \in [1..0 -> S]
    BY <1>1
  <2>2. f \in Seq(S)
    BY <2>1, SeqDef
  <2> QED
    BY <2>1, <2>2, EmptySeq, LenProperties
<1>2. DOMAIN <<>> = {}
  OBVIOUS
<1> QED
  BY <1>1, <1>2

(* A batch begins with each symbol planned once.                            *)
LEMMA PlannedAtFirst ==
    /\ SetToSeq(Symbols) \in Seq(Symbols) /\ Once(SetToSeq(Symbols))
    /\ Range(SetToSeq(Symbols)) = Symbols
<1> DEFINE n == Cardinality(Symbols)
           q == SetToSeq(Symbols)
<1>1. n \in Nat /\ ExistsBijection(1..n, Symbols)
  BY BatchAssumption, FS_CardinalityType
<1>2. \E f \in [1..n -> Symbols] : IsInjective(f)
  BY <1>1 DEF ExistsBijection, Bijection, Injection
<1>3. q \in [1..n -> Symbols] /\ IsInjective(q)
  BY <1>2 DEF SetToSeq
<1>4. q \in Surjection(1..n, Symbols)
  <2>1. IsFiniteSet(1..n) /\ Cardinality(1..n) = n
    BY <1>1, FS_Interval
  <2>2. q \in Injection(1..n, Symbols)
    BY <1>3 DEF Injection
  <2> QED
    BY <2>1, <2>2, BatchAssumption, FS_Injection
<1>5. q \in Seq(Symbols)
  BY <1>1, <1>3, SeqDef
<1>6. Len(q) = n
  BY <1>1, <1>3, <1>5, LenProperties
<1> HIDE DEF n, q
<1>7. Once(q)
  BY <1>3, <1>6 DEF Once, IsInjective
<1>8. Range(q) = Symbols
  <2>1. ASSUME NEW s \in Symbols PROVE s \in Range(q)
    <3>1. PICK i \in 1..n : q[i] = s
      BY <1>4 DEF Surjection
    <3> QED
      BY <3>1, <1>5, <1>6, RangeHolds
  <2>2. Range(q) \subseteq Symbols
    BY <1>5, RangeHolds
  <2> QED
    BY <2>1, <2>2
<1> QED
  BY <1>5, <1>7, <1>8 DEF q

-----------------------------------------------------------------------------
(* What handling one future comes to: an answer for its symbol, or another  *)
(* attempt, in front of what is planned, behind or in front of what is      *)
(* deferred.                                                                *)

Loops == [phase : Phases, done : SUBSET Symbols, concurrency : 1..Width,
          throttled : BOOLEAN, rateLimitSeen : BOOLEAN, stop : Stops]

Handles(s) == HandleSuccess(s) \/ HandleCanceled(s) \/ HandleRateLimit(s) \/ HandleFailure(s)

Settles(s) == \E e \in Outcomes : GiveUp(s, e)
GoesAgain(s, q) ==
    /\ tries[s] < Retries /\ tries' = [tries EXCEPT ![s] = @ + 1]
    /\ UNCHANGED answer /\ todo' = q

Comes(s, goes) ==
    /\ loop.phase = "handle" /\ s \in loop.done /\ flight' = Land(s)
    /\ canceled' = canceled
    /\ Handled(s, goes)
    /\ \/ Settles(s) /\ goes.throttled = loop.throttled
       \/ /\ GoesAgain(s, [todo EXCEPT !.planned = <<s>> \o @])
          /\ goes.stop = "none" /\ ~loop.throttled /\ ~goes.throttled
       \/ /\ GoesAgain(s, [todo EXCEPT !.deferred = Append(@, s)])
          /\ goes.stop = "none" /\ loop.throttled /\ goes.throttled
       \/ /\ GoesAgain(s, [todo EXCEPT !.deferred = <<s>> \o @])
          /\ goes.stop = "none" /\ goes.throttled

LEMMA RecordCounts ==
    ASSUME BreakerInv, loop.phase = "handle", NEW code \in Failures
    PROVE  /\ Record(code) \in [recent : Seq(Failures), code : Infrastructure \cup {"none"},
                                run : 0..Streak, open : BOOLEAN]
           /\ Len(Record(code).recent) <= Window
           /\ ~Record(code).open => Record(code).run < Streak
<1> DEFINE recent == LastOf(Append(breaker.recent, code))
           run == IF code \in Infrastructure
                  THEN IF code = breaker.code THEN breaker.run + 1 ELSE 1
                  ELSE 0
           rolling == Len(recent) = Window /\ \E c \in Infrastructure : CountOf(c, recent) >= Rolling
<1>1. Record(code) = [recent |-> recent, run |-> run,
                      code |-> IF code \in Infrastructure THEN code ELSE "none",
                      open |-> breaker.open \/ run >= Streak \/ rolling]
  BY DEF Record
<1>2. recent \in Seq(Failures) /\ Len(recent) <= Window
  BY BatchAssumption, LastOfKeeps DEF BreakerInv
<1>3. run \in 0..Streak
  BY BatchAssumption DEF BreakerInv
<1> HIDE DEF recent, run, rolling
<1>4. Record(code) \in [recent : Seq(Failures), code : Infrastructure \cup {"none"},
                        run : 0..Streak, open : BOOLEAN]
  BY <1>1, <1>2, <1>3
<1>5. Record(code).recent = recent /\ Record(code).run = run
  BY <1>1
<1>6. Record(code).open = (breaker.open \/ run >= Streak \/ rolling)
  BY <1>1
<1>7. run >= Streak => Record(code).open
  BY <1>6
<1> QED
  BY <1>2, <1>3, <1>4, <1>5, <1>7, BatchAssumption

LEMMA WidthWithin ==
    ASSUME NEW s \in Symbols
    PROVE  Min({Width, Cardinality(Symbols)}) \in 1..Width
<1>1. Cardinality(Symbols) \in Nat \ {0}
  BY BatchAssumption, FS_CardinalityType, FS_EmptySet
<1>2. \E x \in {Width, Cardinality(Symbols)} : \A y \in {Width, Cardinality(Symbols)} : x <= y
  <2>1. CASE Width <= Cardinality(Symbols)
    BY <2>1, <1>1, BatchAssumption
  <2>2. CASE Cardinality(Symbols) <= Width
    BY <2>2, <1>1, BatchAssumption
  <2> QED
    BY <2>1, <2>2, <1>1, BatchAssumption
<1>3. /\ Min({Width, Cardinality(Symbols)}) \in {Width, Cardinality(Symbols)}
      /\ Min({Width, Cardinality(Symbols)}) <= Width
  BY <1>2 DEF Min
<1> QED
  BY <1>1, <1>3, BatchAssumption

LEMMA HandlingComes ==
    ASSUME Types, BreakerInv, LoopInv, NEW s \in Symbols, Handles(s)
    PROVE  \E goes \in Loops : Comes(s, goes)
<1> USE DEF Settles, GoesAgain, Comes, Taken
<1>1. /\ loop \in Loops /\ breaker.open \in BOOLEAN
      /\ tries \in [Symbols -> 0..Retries] /\ Retries \in Nat
      /\ todo \in [planned : Seq(Symbols), deferred : Seq(Symbols)]
  BY BatchAssumption DEF Types, BreakerInv, Loops
<1>0. loop.phase = "handle" => loop.stop = "none"
  BY DEF LoopInv
<1>2. 1 \in 1..Width
  BY BatchAssumption
<1>3. CASE HandleSuccess(s)
  <2> DEFINE goes == [loop EXCEPT !.concurrency =
                  IF @ = 1 /\ tries[s] = 0 /\ ~loop.rateLimitSeen
                  THEN Min({Width, Cardinality(Symbols)}) ELSE @]
  <2>1. goes \in Loops /\ goes.throttled = loop.throttled
    BY <1>1, WidthWithin DEF Loops
  <2>2. Handled(s, goes) /\ GiveUp(s, "ok")
    BY <1>3 DEF HandleSuccess
  <2> HIDE DEF goes
  <2> QED
    BY <1>3, <2>1, <2>2 DEF HandleSuccess, Outcomes
<1>4. CASE HandleCanceled(s)
  <2>1. Handled(s, loop) /\ GiveUp(s, "canceled")
    BY <1>4 DEF HandleCanceled
  <2> QED
    BY <1>1, <1>4, <2>1 DEF HandleCanceled, Outcomes
<1>5. CASE HandleRateLimit(s)
  <2> DEFINE slow == [loop EXCEPT !.rateLimitSeen = TRUE, !.concurrency = 1]
             next == Record("rate_limited")
  <2>1. /\ slow \in Loops /\ slow.throttled = loop.throttled
        /\ [slow EXCEPT !.stop = "circuit_open"] \in Loops
        /\ [slow EXCEPT !.stop = "circuit_open"].throttled = loop.throttled
        /\ [slow EXCEPT !.throttled = TRUE] \in Loops
        /\ [slow EXCEPT !.throttled = TRUE].throttled
        /\ [slow EXCEPT !.throttled = TRUE].stop = loop.stop
    BY <1>1, <1>2 DEF Loops, Stops
  <2>2. loop.phase = "handle" /\ s \in loop.done /\ flight' = Land(s) /\ canceled' = canceled
    BY <1>5 DEF HandleRateLimit, RateLimitHandled
  <2>3. IF next.open
        THEN GiveUp(s, "rate_limited") /\ Handled(s, [slow EXCEPT !.stop = "circuit_open"])
        ELSE IF tries[s] >= Retries
        THEN GiveUp(s, "rate_limited") /\ Handled(s, slow)
        ELSE /\ tries' = [tries EXCEPT ![s] = @ + 1]
             /\ todo' = [todo EXCEPT !.deferred = <<s>> \o @]
             /\ UNCHANGED answer
             /\ Handled(s, [slow EXCEPT !.throttled = TRUE])
    BY <1>5 DEF HandleRateLimit, RateLimitHandled
  <2> HIDE DEF slow, next
  <2>4. \/ GiveUp(s, "rate_limited") /\ Handled(s, [slow EXCEPT !.stop = "circuit_open"])
        \/ GiveUp(s, "rate_limited") /\ Handled(s, slow)
        \/ /\ tries[s] < Retries /\ tries' = [tries EXCEPT ![s] = @ + 1]
           /\ todo' = [todo EXCEPT !.deferred = <<s>> \o @]
           /\ UNCHANGED answer
           /\ Handled(s, [slow EXCEPT !.throttled = TRUE])
    BY <2>3, <1>1
  <2>5. "rate_limited" \in Outcomes
    BY DEF Outcomes, Failures, Infrastructure
  <2>6. CASE GiveUp(s, "rate_limited") /\ Handled(s, [slow EXCEPT !.stop = "circuit_open"])
    BY <2>1, <2>2, <2>5, <2>6
  <2>7. CASE GiveUp(s, "rate_limited") /\ Handled(s, slow)
    BY <2>1, <2>2, <2>5, <2>7
  <2>8. CASE /\ tries[s] < Retries /\ tries' = [tries EXCEPT ![s] = @ + 1]
             /\ todo' = [todo EXCEPT !.deferred = <<s>> \o @]
             /\ UNCHANGED answer
             /\ Handled(s, [slow EXCEPT !.throttled = TRUE])
    <3>1. [slow EXCEPT !.throttled = TRUE].stop = "none"
      BY <2>1, <2>2, <1>0
    <3> QED
      BY <2>1, <2>2, <2>8, <3>1
  <2> QED
    BY <2>4, <2>6, <2>7, <2>8
<1>6. CASE HandleFailure(s)
  <2>1. PICK code \in Failures \ {"rate_limited"} : FailureHandled(s, code, Retries)
    BY <1>6 DEF HandleFailure
  <2> DEFINE next == Record(code)
             broken == [loop EXCEPT !.concurrency = 1, !.stop = "circuit_open"]
             fatal == [loop EXCEPT !.stop = code]
  <2>2. loop.phase = "handle" /\ s \in loop.done /\ flight' = Land(s) /\ canceled' = canceled
    BY <2>1 DEF FailureHandled
  <2>3. /\ broken \in Loops /\ broken.throttled = loop.throttled
        /\ code \in Fatal => fatal \in Loops /\ fatal.throttled = loop.throttled
        /\ code \in Outcomes
    BY <1>1, <1>2 DEF Loops, Stops, Outcomes
  <2>4. \/ GiveUp(s, code) /\ Handled(s, broken)
        \/ code \in Fatal /\ GiveUp(s, code) /\ Handled(s, fatal)
        \/ tries[s] < Retries /\ Retry(s, loop.throttled) /\ Handled(s, loop)
        \/ GiveUp(s, code) /\ Handled(s, loop)
    BY <2>1 DEF FailureHandled
  <2>5. ASSUME Retry(s, loop.throttled)
        PROVE  /\ tries' = [tries EXCEPT ![s] = @ + 1] /\ UNCHANGED answer
               /\ \/ ~loop.throttled /\ todo' = [todo EXCEPT !.planned = <<s>> \o @]
                  \/ loop.throttled /\ todo' = [todo EXCEPT !.deferred = Append(@, s)]
    BY <2>5, <1>1 DEF Retry, Loops
  <2> HIDE DEF broken, fatal
  <2> QED
    BY <2>2, <2>3, <2>4, <2>5, <1>0, <1>1
<1> QED
  BY <1>3, <1>4, <1>5, <1>6 DEF Handles

LEMMA AfterHandling ==
    ASSUME Types, NEW s \in Symbols, NEW goes \in Loops, Comes(s, goes)
    PROVE  /\ loop' \in Loops /\ loop'.throttled = goes.throttled /\ loop'.stop = goes.stop
           /\ loop'.rateLimitSeen = goes.rateLimitSeen
           /\ loop'.concurrency = goes.concurrency
           /\ goes.stop # "none" => loop'.phase = "stopping"
           /\ goes.stop = "none" =>
                 /\ loop'.phase \in {"fill", "handle"}
                 /\ loop'.phase = "handle" => loop'.done = loop.done \ {s}
<1>1. loop.done \ {s} \in SUBSET Symbols
  BY DEF Types
<1>2. loop' = [goes EXCEPT !.done = IF goes.stop # "none" THEN {} ELSE loop.done \ {s},
                           !.phase = IF goes.stop # "none" THEN "stopping"
                                     ELSE IF loop.done \ {s} = {} THEN "fill" ELSE "handle"]
  BY DEF Comes, Handled
<1> QED
  BY <1>1, <1>2 DEF Loops, Phases

(* A handled future lands, and another one tells of a limit that is still   *)
(* to be observed.                                                          *)
LEMMA Landing ==
    ASSUME Types, LoopInv, NEW s \in Symbols, Handles(s)
    PROVE  /\ loop.phase = "handle" /\ s \in loop.done /\ s \in DOMAIN flight
           /\ DOMAIN flight' = DOMAIN flight \ {s}
           /\ \A t \in DOMAIN flight' : flight'[t] = flight[t]
           /\ flight' \in [DOMAIN flight' -> Outcomes \cup {"running", "dropped"}]
           /\ canceled' = canceled
           /\ limited' = FALSE \/ (limited' = limited /\ flight[s] # "rate_limited")
           /\ \/ finished' = finished
              \/ /\ finished' = LastOf(Append(finished, flight[s]))
                 /\ flight[s] \in Outcomes
           /\ flight[s] = "rate_limited" => HandleRateLimit(s)
<1>1. PICK outcome \in Outcomes :
         /\ Taken(s, outcome)
         /\ outcome = "rate_limited" => HandleRateLimit(s)
         /\ limited' = FALSE \/ (limited' = limited /\ outcome # "rate_limited")
  <2>1. CASE HandleSuccess(s)
    BY <2>1 DEF HandleSuccess, Outcomes
  <2>2. CASE HandleCanceled(s)
    BY <2>2 DEF HandleCanceled, Outcomes
  <2>3. CASE HandleRateLimit(s)
    BY <2>3 DEF HandleRateLimit, RateLimitHandled, Outcomes, Failures, Infrastructure
  <2>4. CASE HandleFailure(s)
    BY <2>4 DEF HandleFailure, FailureHandled, Outcomes
  <2> QED
    BY <2>1, <2>2, <2>3, <2>4 DEF Handles
<1>2. Taken(s, outcome)
  BY <1>1
<1>3. /\ loop.phase = "handle" /\ s \in loop.done /\ flight[s] = outcome
      /\ flight' = Land(s) /\ canceled' = canceled
      /\ finished' = finished \/ finished' = LastOf(Append(finished, outcome))
  BY <1>2 DEF Taken
<1>4. s \in DOMAIN flight
  BY <1>3 DEF LoopInv
<1>5. /\ DOMAIN flight' = DOMAIN flight \ {s}
      /\ \A t \in DOMAIN flight' : flight'[t] = flight[t]
      /\ flight' \in [DOMAIN flight' -> Outcomes \cup {"running", "dropped"}]
  BY <1>3, <1>4 DEF Land, Types
<1> QED
  BY <1>1, <1>3, <1>4, <1>5

-----------------------------------------------------------------------------
(* Types.                                                                   *)

LEMMA TypesAfterHandling ==
    ASSUME IInv, NEW s \in Symbols, Handles(s)
    PROVE  Types'
<1>1. PICK goes \in Loops : Comes(s, goes)
  BY HandlingComes DEF IInv
<1>2. loop' \in Loops
  BY <1>1, AfterHandling DEF IInv
<1>3. todo' \in [planned : Seq(Symbols), deferred : Seq(Symbols)]
  <2>1. /\ <<s>> \o todo.planned \in Seq(Symbols)
        /\ Append(todo.deferred, s) \in Seq(Symbols)
        /\ <<s>> \o todo.deferred \in Seq(Symbols)
    BY OnceSingle, ConcatProperties, AppendProperties DEF IInv, Types
  <2> QED
    BY <1>1, <2>1 DEF Comes, Settles, GiveUp, GoesAgain, IInv, Types
<1>4. tries' \in [Symbols -> 0..Retries] /\ answer' \in [Symbols -> Answers]
  <2>1. CASE Settles(s)
    BY <2>1 DEF Settles, GiveUp, Answers, IInv, Types
  <2>2. CASE tries[s] < Retries /\ tries' = [tries EXCEPT ![s] = @ + 1] /\ UNCHANGED answer
    <3>1. tries[s] + 1 \in 0..Retries
      BY <2>2, BatchAssumption DEF IInv, Types
    <3> QED
      BY <2>2, <3>1 DEF IInv, Types
  <2> QED
    BY <1>1, <2>1, <2>2 DEF Comes, GoesAgain
<1>5. finished' \in Seq(Outcomes)
  <2>1. CASE finished' = finished
    BY <2>1 DEF IInv, Types
  <2>2. CASE finished' = LastOf(Append(finished, flight[s])) /\ flight[s] \in Outcomes
    BY <2>2, LastOfKeeps, BatchAssumption DEF IInv, Types
  <2> QED
    BY <2>1, <2>2, Landing DEF IInv
<1>6. /\ limited' \in BOOLEAN /\ canceled' \in BOOLEAN
      /\ DOMAIN flight' \subseteq Symbols
      /\ flight' \in [DOMAIN flight' -> Outcomes \cup {"running", "dropped"}]
  BY Landing DEF IInv, Types
<1> QED
  BY <1>2, <1>3, <1>4, <1>5, <1>6 DEF Types, Loops

LEMMA TypesStep == IInv /\ [Next]_vars => Types'
<1> SUFFICES ASSUME IInv, [Next]_vars PROVE Types'
  OBVIOUS
<1> USE DEF IInv
<1>1. ASSUME NEW s \in Symbols, NEW o \in Outcomes, AttemptEnds(s, o) PROVE Types'
  <2>1. DOMAIN flight' = DOMAIN flight
    BY <1>1 DEF AttemptEnds
  <2>2. flight' \in [DOMAIN flight -> Outcomes \cup {"running", "dropped"}]
    BY <1>1 DEF AttemptEnds, Types
  <2> QED
    BY <1>1, <2>1, <2>2 DEF AttemptEnds, Types
<1>2. ASSUME NEW s \in Symbols, Dropped(s) PROVE Types'
  <2>1. DOMAIN flight' = DOMAIN flight
    BY <1>2 DEF Dropped
  <2>2. flight' \in [DOMAIN flight -> Outcomes \cup {"running", "dropped"}]
    BY <1>2 DEF Dropped, Types
  <2> QED
    BY <1>2, <2>1, <2>2 DEF Dropped, Types
<1>3. ASSUME NEW s \in Symbols, Handles(s) PROVE Types'
  BY <1>3, TypesAfterHandling
<1>4. CASE Cancel
  BY <1>4 DEF Cancel, Types
<1>5. CASE Resume
  <2>1. todo.deferred \o todo.planned \in Seq(Symbols) /\ <<>> \in Seq(Symbols)
    BY ConcatProperties DEF Types
  <2> QED
    BY <1>5, <2>1 DEF Resume, Types
<1>6. CASE Submit
  <2> DEFINE s == Head(todo.planned)
  <2>1. s \in Symbols /\ Tail(todo.planned) \in Seq(Symbols)
    BY <1>6, HeadTailProperties DEF Submit, MaySubmit, Types
  <2>2. /\ flight' = [t \in DOMAIN flight \cup {s} |-> IF t = s THEN "running" ELSE flight[t]]
        /\ todo' = [todo EXCEPT !.planned = Tail(@)]
    BY <1>6 DEF Submit
  <2> HIDE DEF s
  <2>3. /\ DOMAIN flight' \subseteq Symbols
        /\ flight' \in [DOMAIN flight' -> Outcomes \cup {"running", "dropped"}]
    BY <2>1, <2>2 DEF Types
  <2>4. todo' \in [planned : Seq(Symbols), deferred : Seq(Symbols)]
    BY <2>1, <2>2 DEF Types
  <2> QED
    BY <1>6, <2>3, <2>4 DEF Submit, Types
<1>7. CASE Wait
  <2>1. loop' \in Loops
    <3>1. loop \in Loops
      BY DEF Types, Loops
    <3>2. \/ loop' = [loop EXCEPT !.phase = "stopping", !.stop = "canceled"]
          \/ loop' = [loop EXCEPT !.phase = "stopping"]
          \/ loop' = [loop EXCEPT !.phase = "wait"]
      BY <1>7 DEF Wait
    <3> QED
      BY <3>1, <3>2 DEF Loops, Phases, Stops
  <2> QED
    BY <1>7, <2>1 DEF Wait, Types, Loops
<1>8. CASE Wake
  <2>1. {s \in DOMAIN flight : flight[s] # "running"} \in SUBSET Symbols
    BY DEF Types
  <2>2. loop' \in Loops
    BY <1>8, <2>1 DEF Wake, Types, Phases, Loops
  <2> QED
    BY <1>8, <2>2 DEF Wake, Types, Loops
<1>9. CASE GetQuantSeries
  <2>1. ASSUME NEW s \in Symbols PROVE Drained(s) \in Answers
    BY <1>9 DEF GetQuantSeries, Drained, Types, Answers, Stops, Outcomes, Failures
  <2>2. answer' \in [Symbols -> Answers]
    BY <1>9, <2>1 DEF GetQuantSeries
  <2>3. /\ DOMAIN flight' \subseteq Symbols
        /\ flight' \in [DOMAIN flight' -> Outcomes \cup {"running", "dropped"}]
    <3>1. flight' = <<>> /\ DOMAIN <<>> = {}
      BY <1>9 DEF GetQuantSeries
    <3>2. <<>> \in [{} -> Outcomes \cup {"running", "dropped"}]
      OBVIOUS
    <3> QED
      BY <3>1, <3>2
  <2> QED
    BY <1>9, <2>2, <2>3 DEF GetQuantSeries, Types, Phases
<1>10. CASE UNCHANGED vars
  BY <1>10 DEF vars, Types
<1> QED
  BY <1>1, <1>2, <1>3, <1>4, <1>5, <1>6, <1>7, <1>8, <1>9, <1>10 DEF Next, Handles, Returned

LEMMA BreakerStep == IInv /\ [Next]_vars => BreakerInv'
<1> SUFFICES ASSUME IInv, [Next]_vars PROVE BreakerInv'
  OBVIOUS
<1>1. ASSUME NEW s \in Symbols, Handles(s) PROVE BreakerInv'
  <2>1. loop.phase = "handle" /\ BreakerInv
    BY <1>1, Landing DEF IInv
  <2>2. \/ breaker' = breaker
        \/ \E code \in Failures :
              breaker' = Record(code) /\ (Record(code).open => loop'.phase = "stopping")
    <3>1. loop \in Loops
      BY DEF IInv, Types, Loops
    <3>2. CASE HandleSuccess(s) \/ HandleCanceled(s)
      BY <3>2 DEF HandleSuccess, HandleCanceled
    <3>3. CASE HandleRateLimit(s)
      <4>1. /\ breaker' = Record("rate_limited") /\ "rate_limited" \in Failures
            /\ Record("rate_limited").open =>
                 Handled(s, [loop EXCEPT !.rateLimitSeen = TRUE, !.concurrency = 1,
                                         !.stop = "circuit_open"])
        BY <3>3, <3>1 DEF HandleRateLimit, RateLimitHandled, Failures, Infrastructure, Loops
      <4> QED
        BY <4>1, <3>1 DEF Handled, Loops
    <3>4. CASE HandleFailure(s)
      <4>1. PICK code \in Failures :
               /\ breaker' = Record(code)
               /\ Record(code).open =>
                    Handled(s, [loop EXCEPT !.concurrency = 1, !.stop = "circuit_open"])
        BY <3>4 DEF HandleFailure, FailureHandled
      <4> QED
        BY <4>1, <3>1 DEF Handled, Loops
    <3> QED
      BY <1>1, <3>2, <3>3, <3>4 DEF Handles
  <2>3. CASE breaker' = breaker
    BY <2>1, <2>3 DEF BreakerInv
  <2>4. ASSUME NEW code \in Failures, breaker' = Record(code),
               Record(code).open => loop'.phase = "stopping"
        PROVE  BreakerInv'
    BY <2>1, <2>4, RecordCounts DEF BreakerInv
  <2> QED
    BY <2>2, <2>3, <2>4
<1>2. CASE breaker' = breaker /\ (loop'.phase \in {"fill", "wait", "handle"}
                                     => loop.phase \in {"fill", "wait", "handle"})
  BY <1>2 DEF BreakerInv, IInv
<1>3. ASSUME NEW s \in Symbols, \/ \E o \in Outcomes : AttemptEnds(s, o)
                                \/ Dropped(s)
      PROVE  BreakerInv'
  BY <1>3, <1>2 DEF AttemptEnds, Dropped
<1>4. CASE Cancel \/ Submit \/ UNCHANGED vars
  BY <1>4, <1>2 DEF Cancel, Submit, vars
<1>5. CASE Resume \/ Wait \/ Wake \/ GetQuantSeries
  BY <1>5, <1>2 DEF Resume, Wait, Wake, GetQuantSeries, IInv, Types
<1> QED
  BY <1>1, <1>3, <1>4, <1>5 DEF Next, Handles, Returned

-----------------------------------------------------------------------------
(* Where the symbols are.                                                   *)

(* A handled symbol moves from the requests in flight to one other place.   *)
LEMMA PlacesAfterHandling ==
    ASSUME IInv, NEW s \in Symbols, Handles(s)
    PROVE  PlacesInv'
<1> DEFINE P == todo.planned
           D == todo.deferred
<1>1. PICK goes \in Loops : Comes(s, goes)
  BY HandlingComes DEF IInv
<1>2. /\ P \in Seq(Symbols) /\ D \in Seq(Symbols)
      /\ todo = [planned |-> P, deferred |-> D]
      /\ answer \in [Symbols -> Answers]
  BY DEF IInv, Types
<1>3. /\ s \in DOMAIN flight /\ DOMAIN flight' = DOMAIN flight \ {s} /\ loop.phase = "handle"
  BY Landing DEF IInv
<1>4. Once(P) /\ Once(D) /\ Apart(Range(P), Range(D), DOMAIN flight, Answered)
  BY <1>3 DEF IInv, PlacesInv
<1>5. s \notin Range(P) /\ s \notin Range(D) /\ s \notin Answered
  BY <1>3, <1>4 DEF Apart
<1> HIDE DEF P, D
<1>6. CASE Settles(s)
  <2>1. PICK e \in Outcomes : answer' = [answer EXCEPT ![s] = e] /\ todo' = todo
    BY <1>6 DEF Settles, GiveUp
  <2>2. e # "none"
    BY DEF Outcomes, Failures, Infrastructure, Fatal, Retryable
  <2>3. Answered' = Answered \cup {s}
    BY <2>1, <2>2, <1>2 DEF Answered
  <2>4. Apart(Range(P), Range(D), DOMAIN flight', Answered')
    BY <2>3, <1>3, <1>4, <1>5 DEF Apart
  <2> QED
    BY <2>1, <2>4, <1>2, <1>4 DEF PlacesInv
<1>7. ASSUME UNCHANGED answer PROVE Answered' = Answered
  BY <1>7 DEF Answered
<1>8. CASE GoesAgain(s, [todo EXCEPT !.planned = <<s>> \o @])
  <2> DEFINE q == <<s>> \o P
  <2>1. Once(q) /\ Range(q) = Range(P) \cup {s}
    BY <1>2, <1>4, <1>5, OnceFront
  <2>2. todo'.planned = q /\ todo'.deferred = D
    BY <1>8, <1>2 DEF GoesAgain
  <2> HIDE DEF q
  <2>3. Apart(Range(q), Range(D), DOMAIN flight', Answered')
    BY <1>8, <1>7, <2>1, <1>3, <1>4, <1>5 DEF Apart, GoesAgain
  <2> QED
    BY <2>1, <2>2, <2>3, <1>4 DEF PlacesInv
<1>9. ASSUME NEW q, Once(q), Range(q) = Range(D) \cup {s},
             GoesAgain(s, [todo EXCEPT !.deferred = q])
      PROVE  PlacesInv'
  <2>1. todo'.planned = P /\ todo'.deferred = q
    BY <1>9, <1>2 DEF GoesAgain
  <2>2. Apart(Range(P), Range(q), DOMAIN flight', Answered')
    BY <1>9, <1>7, <1>3, <1>4, <1>5 DEF Apart, GoesAgain
  <2> QED
    BY <1>9, <2>1, <2>2, <1>4 DEF PlacesInv
<1>10. CASE GoesAgain(s, [todo EXCEPT !.deferred = Append(@, s)])
  <2>1. Once(Append(D, s)) /\ Range(Append(D, s)) = Range(D) \cup {s}
    BY <1>2, <1>4, <1>5, OnceAppend
  <2>2. [todo EXCEPT !.deferred = Append(@, s)] = [todo EXCEPT !.deferred = Append(D, s)]
    BY <1>2
  <2> QED
    BY <1>9, <1>10, <2>1, <2>2
<1>11. CASE GoesAgain(s, [todo EXCEPT !.deferred = <<s>> \o @])
  <2> DEFINE q == <<s>> \o D
  <2>1. Once(q) /\ Range(q) = Range(D) \cup {s}
    BY <1>2, <1>4, <1>5, OnceFront
  <2>2. [todo EXCEPT !.deferred = <<s>> \o @] = [todo EXCEPT !.deferred = q]
    BY <1>2
  <2> HIDE DEF q
  <2> QED
    BY <1>9, <1>11, <2>1, <2>2
<1> QED
  BY <1>1, <1>6, <1>8, <1>10, <1>11 DEF Comes

LEMMA PlacesStep == IInv /\ [Next]_vars => PlacesInv'
<1> SUFFICES ASSUME IInv, [Next]_vars PROVE PlacesInv'
  OBVIOUS
<1> DEFINE P == todo.planned
           D == todo.deferred
<1>1. /\ P \in Seq(Symbols) /\ D \in Seq(Symbols)
      /\ todo = [planned |-> P, deferred |-> D]
  BY DEF IInv, Types
<1>2. loop.phase # "returned" =>
         Once(P) /\ Once(D) /\ Apart(Range(P), Range(D), DOMAIN flight, Answered)
  BY DEF IInv, PlacesInv
<1>3. ASSUME NEW s \in Symbols, Handles(s) PROVE PlacesInv'
  BY <1>3, PlacesAfterHandling
<1>4. CASE /\ UNCHANGED <<todo, answer>> /\ DOMAIN flight' = DOMAIN flight
           /\ loop'.phase = "returned" \/ loop.phase # "returned"
  <2>1. Answered' = Answered
    BY <1>4 DEF Answered
  <2> QED
    BY <1>2, <1>4, <2>1 DEF PlacesInv
<1>5. ASSUME NEW s \in Symbols, \/ \E o \in Outcomes : AttemptEnds(s, o)
                                \/ Dropped(s)
      PROVE  PlacesInv'
  <2>1. loop.phase # "returned"
    <3>1. s \in DOMAIN flight
      BY <1>5 DEF AttemptEnds, Dropped
    <3>2. flight # <<>>
      BY <3>1
    <3> QED
      BY <3>2 DEF IInv, LoopInv
  <2> QED
    BY <1>4, <1>5, <2>1 DEF AttemptEnds, Dropped
<1>6. CASE Resume
  <2>1. loop.phase # "returned"
    BY <1>6 DEF Resume
  <2>2. Range(D) \cap Range(P) = {}
    BY <2>1, <1>2 DEF Apart
  <2>3. Once(D \o P) /\ Range(D \o P) = Range(D) \cup Range(P)
    BY <1>1, <1>2, <2>1, <2>2, OnceConcat
  <2>4. todo'.planned = D \o P /\ todo'.deferred = <<>> /\ UNCHANGED <<flight, answer>>
    BY <1>6 DEF Resume
  <2>5. Answered' = Answered
    BY <2>4 DEF Answered
  <2> HIDE DEF P, D
  <2>6. Apart(Range(D \o P), {}, DOMAIN flight, Answered)
    BY <1>2, <2>1, <2>3 DEF Apart
  <2> QED
    BY <2>3, <2>4, <2>5, <2>6, OnceEmpty DEF PlacesInv
<1>7. CASE Submit
  <2> DEFINE s == Head(P)
  <2>1. loop.phase # "returned" /\ P # <<>> /\ UNCHANGED answer
    BY <1>7 DEF Submit, MaySubmit
  <2>2. /\ s \in Range(P) /\ Once(Tail(P)) /\ Range(Tail(P)) = Range(P) \ {s}
    BY <1>1, <1>2, <2>1, OnceTail
  <2>3. /\ flight' = [t \in DOMAIN flight \cup {s} |-> IF t = s THEN "running" ELSE flight[t]]
        /\ todo' = [todo EXCEPT !.planned = Tail(@)]
    BY <1>7 DEF Submit
  <2>4. todo'.planned = Tail(P) /\ todo'.deferred = D
    BY <2>3, <1>1
  <2> HIDE DEF s, P, D
  <2>5. DOMAIN flight' = DOMAIN flight \cup {s}
    BY <2>3
  <2>6. Answered' = Answered
    BY <2>1 DEF Answered
  <2>7. Apart(Range(Tail(P)), Range(D), DOMAIN flight', Answered')
    BY <1>2, <2>1, <2>2, <2>5, <2>6 DEF Apart
  <2> QED
    BY <1>2, <2>1, <2>2, <2>4, <2>7 DEF PlacesInv
<1>8. CASE Cancel \/ Wait \/ Wake \/ UNCHANGED vars
  <2>1. UNCHANGED <<todo, answer, flight>>
    BY <1>8 DEF Cancel, Wait, Wake, vars
  <2>2. loop'.phase = "returned" \/ loop.phase # "returned"
    BY <1>8 DEF Cancel, Wait, Wake, vars
  <2> QED
    BY <1>4, <2>1, <2>2
<1>9. CASE GetQuantSeries
  BY <1>9 DEF GetQuantSeries, PlacesInv, IInv, Types
<1> QED
  BY <1>3, <1>5, <1>6, <1>7, <1>8, <1>9 DEF Next, Handles, Returned

-----------------------------------------------------------------------------
(* The flags of the loop and of the workers.                                *)

LEMMA LoopAfterHandling ==
    ASSUME IInv, NEW s \in Symbols, Handles(s)
    PROVE  LoopInv'
<1>1. PICK goes \in Loops : Comes(s, goes)
  BY HandlingComes DEF IInv
<1>2. /\ loop'.throttled = goes.throttled /\ loop'.stop = goes.stop
      /\ goes.stop # "none" => loop'.phase = "stopping"
      /\ goes.stop = "none" =>
            /\ loop'.phase \in {"fill", "handle"}
            /\ loop'.phase = "handle" => loop'.done = loop.done \ {s}
  BY <1>1, AfterHandling DEF IInv
<1>3. /\ loop.phase = "handle" /\ s \in loop.done
      /\ DOMAIN flight' = DOMAIN flight \ {s}
      /\ \A t \in DOMAIN flight' : flight'[t] = flight[t]
      /\ limited' = FALSE \/ (limited' = limited /\ flight[s] # "rate_limited")
  BY Landing DEF IInv
<1>4. /\ loop.throttled <=> todo.deferred # <<>>
      /\ limited => \E t \in DOMAIN flight : flight[t] = "rate_limited"
      /\ \A t \in DOMAIN flight : flight[t] # "dropped"
      /\ loop.done \subseteq DOMAIN flight
      /\ \A t \in loop.done : flight[t] # "running"
  BY <1>3 DEF IInv, LoopInv
<1>5. loop'.throttled <=> todo'.deferred # <<>>
  <2>1. /\ todo.deferred \in Seq(Symbols) /\ loop.throttled \in BOOLEAN
        /\ todo \in [planned : Seq(Symbols), deferred : Seq(Symbols)]
    BY DEF IInv, Types
  <2>2. CASE Settles(s) /\ goes.throttled = loop.throttled
    BY <2>2, <1>2, <1>4 DEF Settles, GiveUp
  <2>3. CASE /\ GoesAgain(s, [todo EXCEPT !.planned = <<s>> \o @])
             /\ goes.stop = "none" /\ ~loop.throttled /\ ~goes.throttled
    BY <2>1, <2>3, <1>2, <1>4 DEF GoesAgain
  <2>4. CASE /\ GoesAgain(s, [todo EXCEPT !.deferred = Append(@, s)])
             /\ goes.stop = "none" /\ loop.throttled /\ goes.throttled
    BY <2>1, <2>4, <1>2, <1>4, AppendProperties DEF GoesAgain
  <2>5. CASE /\ GoesAgain(s, [todo EXCEPT !.deferred = <<s>> \o @])
             /\ goes.stop = "none" /\ goes.throttled
    <3>1. <<s>> \o todo.deferred # <<>>
      <4> DEFINE q == <<s>> \o todo.deferred
      <4>1. Len(q) = 1 + Len(todo.deferred) /\ Len(todo.deferred) \in Nat
        BY <2>1, OnceSingle, ConcatProperties, LenProperties
      <4> QED
        BY <4>1, EmptySeq
    <3> QED
      BY <2>1, <2>5, <3>1, <1>2 DEF GoesAgain
  <2> QED
    BY <1>1, <2>2, <2>3, <2>4, <2>5 DEF Comes
<1>6. limited' => \E t \in DOMAIN flight' : flight'[t] = "rate_limited"
  BY <1>3, <1>4
<1>7. loop'.phase \in {"fill", "handle", "stopping"}
  BY <1>2
<1>8. loop'.phase \in {"fill", "handle"} => loop'.stop = "none"
  BY <1>2
<1>9. loop'.phase = "stopping" => loop'.stop # "none"
  BY <1>2
<1>10. \A t \in DOMAIN flight' : flight'[t] # "dropped"
  BY <1>3, <1>4
<1>11. loop'.phase = "handle" => /\ loop'.done \subseteq DOMAIN flight'
                                 /\ \A t \in loop'.done : flight'[t] # "running"
  <2> SUFFICES ASSUME loop'.phase = "handle"
               PROVE  /\ loop'.done \subseteq DOMAIN flight'
                      /\ \A t \in loop'.done : flight'[t] # "running"
    OBVIOUS
  <2>1. loop'.done = loop.done \ {s}
    BY <1>2
  <2> QED
    BY <2>1, <1>3, <1>4
<1> QED
  BY <1>5, <1>6, <1>7, <1>8, <1>9, <1>10, <1>11 DEF LoopInv

(* A request ends, or is dropped when the batch stops.                      *)
LEMMA LoopAfterRequest ==
    ASSUME IInv, NEW s \in Symbols, \/ \E o \in Outcomes : AttemptEnds(s, o)
                                    \/ Dropped(s)
    PROVE  LoopInv'
<1>1. /\ s \in DOMAIN flight /\ flight[s] = "running"
      /\ UNCHANGED <<todo, loop, answer>>
      /\ DOMAIN flight' = DOMAIN flight
      /\ \A t \in DOMAIN flight : t # s => flight'[t] = flight[t]
      /\ flight'[s] # "running"
      /\ flight'[s] = "dropped" => loop.phase = "stopping"
      /\ limited' = (limited \/ flight'[s] = "rate_limited") \/ limited' = limited
  <2>1. CASE \E o \in Outcomes : AttemptEnds(s, o)
    <3>1. PICK o \in Outcomes : AttemptEnds(s, o)
      BY <2>1
    <3>2. o # "running" /\ o # "dropped"
      BY DEF Outcomes, Failures, Infrastructure, Fatal, Retryable
    <3> QED
      BY <3>1, <3>2 DEF AttemptEnds
  <2>2. CASE Dropped(s)
    BY <2>2 DEF Dropped
  <2> QED
    BY <2>1, <2>2
<1>2. flight # <<>>
  BY <1>1
<1>3. loop.phase # "returned" /\ ~(loop.phase = "stopping" /\ loop.stop = "none")
  BY <1>2 DEF IInv, LoopInv
<1>4. limited' => \E t \in DOMAIN flight' : flight'[t] = "rate_limited"
  BY <1>1, <1>3 DEF IInv, LoopInv
<1> QED
  BY <1>1, <1>3, <1>4 DEF IInv, LoopInv

(* The batch goes to its end with nothing in flight only when nothing is    *)
(* left: what is deferred would be resumed first, and a limit nobody has    *)
(* observed is told by a future in flight.                                  *)
LEMMA LoopAfterWait ==
    ASSUME IInv, Wait
    PROVE  LoopInv'
<1>1. loop.phase = "fill" /\ UNCHANGED <<todo, flight, limited, answer>>
  BY DEF Wait
<1>2. loop \in Loops
  BY DEF IInv, Types, Loops
<1>3. CASE canceled
  <2>1. loop' = [loop EXCEPT !.phase = "stopping", !.stop = "canceled"]
    BY <1>3 DEF Wait
  <2> QED
    BY <1>1, <1>2, <2>1 DEF IInv, LoopInv, Loops
<1>4. CASE ~canceled
  <2>1. /\ ~MaySubmit /\ ~(loop.throttled /\ flight = <<>> /\ todo.deferred # <<>>)
        /\ loop' = [loop EXCEPT !.phase = IF flight = <<>> THEN "stopping" ELSE "wait"]
    BY <1>4 DEF Wait
  <2>2. CASE flight = <<>>
    <3>1. ~limited
      BY <1>1, <2>2 DEF IInv, LoopInv
    <3>2. ~loop.throttled /\ todo.deferred = <<>>
      BY <1>1, <2>1, <2>2 DEF IInv, LoopInv
    <3>3. Cardinality(DOMAIN flight) = 0 /\ loop.concurrency > 0
      BY <1>2, <2>2, FS_EmptySet, BatchAssumption DEF Loops
    <3>4. todo.planned = <<>>
      BY <2>1, <3>1, <3>2, <3>3, <1>2, BatchAssumption DEF MaySubmit, Loops
    <3>5. loop' = [loop EXCEPT !.phase = "stopping"]
      BY <2>1, <2>2
    <3> QED
      BY <1>1, <1>2, <2>2, <3>1, <3>2, <3>4, <3>5 DEF IInv, LoopInv, Loops
  <2>3. CASE flight # <<>>
    <3>1. loop' = [loop EXCEPT !.phase = "wait"]
      BY <2>1, <2>3
    <3> QED
      BY <1>1, <1>2, <3>1 DEF IInv, LoopInv, Loops
  <2> QED
    BY <2>2, <2>3
<1> QED
  BY <1>3, <1>4

(* A batch that returns has answered every symbol: a batch that stopped by  *)
(* itself has nothing left, any other answers with what stopped it.         *)
LEMMA LoopAfterReturn ==
    ASSUME IInv, GetQuantSeries
    PROVE  LoopInv'
<1>1. /\ loop.phase = "stopping" /\ \A s \in DOMAIN flight : flight[s] # "running"
      /\ answer' = [s \in Symbols |-> Drained(s)] /\ flight' = <<>>
  BY DEF GetQuantSeries
<1>2. loop'.phase = "returned"
  BY DEF GetQuantSeries, IInv, Types
<1>3. ASSUME NEW s \in Symbols PROVE Drained(s) # "none"
  <2>1. CASE answer[s] # "none"
    BY <2>1 DEF Drained
  <2>2. CASE answer[s] = "none" /\ loop.stop # "none"
    <3>1. s \in DOMAIN flight => flight[s] # "none"
      BY DEF IInv, Types, Outcomes, Failures, Infrastructure, Fatal, Retryable
    <3> QED
      BY <2>2, <3>1 DEF Drained
  <2>3. CASE answer[s] = "none" /\ loop.stop = "none"
    <3>1. flight = <<>> /\ todo.planned = <<>> /\ todo.deferred = <<>>
      BY <1>1, <2>3 DEF IInv, LoopInv
    <3>2. Answered = Symbols
      <4>1. /\ Range(todo.planned) = {} /\ Range(todo.deferred) = {}
            /\ DOMAIN flight = {}
        BY <3>1, OnceEmpty
      <4>2. Apart(Range(todo.planned), Range(todo.deferred), DOMAIN flight, Answered)
        BY <1>1 DEF IInv, PlacesInv
      <4> QED
        BY <4>1, <4>2 DEF Apart
    <3> QED
      BY <2>3, <3>2 DEF Answered
  <2> QED
    BY <2>1, <2>2, <2>3
<1>4. Answered' = Symbols
  BY <1>1, <1>3 DEF Answered
<1> QED
  BY <1>1, <1>2, <1>4 DEF LoopInv

LEMMA LoopStep == IInv /\ [Next]_vars => LoopInv'
<1> SUFFICES ASSUME IInv, [Next]_vars PROVE LoopInv'
  OBVIOUS
<1>1. loop \in Loops /\ todo \in [planned : Seq(Symbols), deferred : Seq(Symbols)]
  BY DEF IInv, Types, Loops
<1>2. CASE Cancel \/ UNCHANGED vars
  <2>1. UNCHANGED <<todo, flight, loop, limited, answer>>
    BY <1>2 DEF Cancel, vars
  <2> QED
    BY <2>1 DEF IInv, LoopInv, Answered
<1>3. CASE Resume
  <2>1. /\ loop.phase = "fill" /\ flight = <<>> /\ UNCHANGED <<flight, limited, answer>>
        /\ todo'.deferred = <<>> /\ loop' = [loop EXCEPT !.throttled = FALSE]
    BY <1>3 DEF Resume
  <2> QED
    BY <1>1, <2>1 DEF IInv, LoopInv, Loops
<1>4. CASE Submit
  <2> DEFINE s == Head(todo.planned)
  <2>1. loop.phase = "fill" /\ todo.planned # <<>> /\ ~limited
        /\ UNCHANGED <<loop, limited, answer>>
    BY <1>4 DEF Submit, MaySubmit
  <2>2. /\ flight' = [t \in DOMAIN flight \cup {s} |-> IF t = s THEN "running" ELSE flight[t]]
        /\ todo' = [todo EXCEPT !.planned = Tail(@)]
    BY <1>4 DEF Submit
  <2> HIDE DEF s
  <2>3. \A t \in DOMAIN flight' : flight'[t] # "dropped"
    BY <2>1, <2>2 DEF IInv, LoopInv
  <2> QED
    BY <1>1, <2>1, <2>2, <2>3 DEF IInv, LoopInv
<1>5. CASE Wake
  <2>1. /\ loop.phase = "wait" /\ UNCHANGED <<todo, flight, limited, answer>>
        /\ loop' = [loop EXCEPT !.phase = "handle",
                                !.done = {s \in DOMAIN flight : flight[s] # "running"}]
    BY <1>5 DEF Wake
  <2> QED
    BY <1>1, <2>1 DEF IInv, LoopInv, Loops
<1> QED
  BY <1>2, <1>3, <1>4, <1>5, LoopAfterHandling, LoopAfterRequest, LoopAfterWait, LoopAfterReturn
     DEF Next, Handles, Returned

-----------------------------------------------------------------------------
(* How many requests are under way.                                         *)

LEMMA FlightCounts ==
    ASSUME Types
    PROVE  IsFiniteSet(DOMAIN flight) /\ Cardinality(DOMAIN flight) \in Nat
BY BatchAssumption, FS_Subset, FS_CardinalityType DEF Types

LEMMA AloneAfterHandling ==
    ASSUME IInv, NEW s \in Symbols, Handles(s)
    PROVE  AloneInv'
<1>1. PICK goes \in Loops : Comes(s, goes)
  BY HandlingComes DEF IInv
<1>2. /\ loop' \in Loops /\ loop \in Loops
      /\ loop.phase = "handle" /\ s \in DOMAIN flight
      /\ DOMAIN flight' = DOMAIN flight \ {s}
      /\ \/ finished' = finished
         \/ finished' = LastOf(Append(finished, flight[s])) /\ flight[s] \in Outcomes
      /\ flight[s] = "rate_limited" => HandleRateLimit(s)
  BY <1>1, AfterHandling, Landing DEF IInv, Types, Loops
<1>3. Cardinality(DOMAIN flight') <= Cardinality(DOMAIN flight)
      /\ Cardinality(DOMAIN flight') \in Nat /\ Cardinality(DOMAIN flight) \in Nat
  BY <1>2, FlightCounts, FS_Subset, FS_CardinalityType DEF IInv
<1>4. answer[s] = "none"
  BY <1>2 DEF IInv, PlacesInv, Apart, Answered
<1>5. (\A t \in Symbols : answer'[t] # "ok") => \A t \in Symbols : answer[t] # "ok"
  <2>1. answer' = answer \/ \E e \in Outcomes : answer' = [answer EXCEPT ![s] = e]
    BY <1>1 DEF Comes, Settles, GiveUp, GoesAgain
  <2>2. answer \in [Symbols -> Answers]
    BY DEF IInv, Types
  <2> QED
    BY <1>4, <2>1, <2>2
<1>6. /\ loop'.concurrency = loop.concurrency \/ loop'.concurrency = 1 \/ answer'[s] = "ok"
      /\ loop'.rateLimitSeen => loop'.concurrency = 1
      /\ loop.rateLimitSeen => loop'.rateLimitSeen
      /\ HandleRateLimit(s) => loop'.rateLimitSeen
  <2>1. loop.rateLimitSeen => loop.concurrency = 1
    BY DEF IInv, AloneInv
  <2>2. loop.done \ {s} \in SUBSET Symbols
    BY <1>2 DEF Loops
  <2>3. ASSUME NEW went \in Loops, Handled(s, went)
        PROVE  /\ loop'.concurrency = went.concurrency
               /\ loop'.rateLimitSeen = went.rateLimitSeen
    BY <2>2, <2>3 DEF Handled, Loops
  <2>4. ASSUME NEW went, Handled(s, went), DOMAIN went = DOMAIN loop
        PROVE  /\ loop'.concurrency = went.concurrency
               /\ loop'.rateLimitSeen = went.rateLimitSeen
    BY <2>4, <1>2 DEF Handled, Loops
  <2>5. CASE HandleSuccess(s)
    <3> DEFINE went == [loop EXCEPT !.concurrency =
                    IF @ = 1 /\ tries[s] = 0 /\ ~loop.rateLimitSeen
                    THEN Min({Width, Cardinality(Symbols)}) ELSE @]
    <3>1. Handled(s, went) /\ answer' = [answer EXCEPT ![s] = "ok"]
      BY <2>5 DEF HandleSuccess, GiveUp
    <3>2. /\ DOMAIN went = DOMAIN loop /\ went.rateLimitSeen = loop.rateLimitSeen
          /\ loop.rateLimitSeen => went.concurrency = loop.concurrency
      BY <1>2 DEF Loops
    <3>3. answer'[s] = "ok"
      BY <3>1 DEF IInv, Types
    <3> HIDE DEF went
    <3>4. ~HandleRateLimit(s)
      BY <2>5 DEF HandleSuccess, HandleRateLimit, RateLimitHandled, Taken
    <3> QED
      BY <2>1, <2>4, <3>1, <3>2, <3>3, <3>4
  <2>6. CASE HandleCanceled(s)
    <3>1. ~HandleRateLimit(s)
      BY <2>6 DEF HandleCanceled, HandleRateLimit, RateLimitHandled, Taken
    <3> QED
      BY <2>1, <2>4, <2>6, <3>1 DEF HandleCanceled
  <2>7. CASE HandleRateLimit(s)
    <3> DEFINE slow == [loop EXCEPT !.rateLimitSeen = TRUE, !.concurrency = 1]
    <3>1. /\ DOMAIN slow = DOMAIN loop /\ slow.rateLimitSeen /\ slow.concurrency = 1
          /\ \A x : /\ DOMAIN [slow EXCEPT !.stop = x] = DOMAIN loop
                    /\ [slow EXCEPT !.stop = x].rateLimitSeen
                    /\ [slow EXCEPT !.stop = x].concurrency = 1
          /\ \A x : /\ DOMAIN [slow EXCEPT !.throttled = x] = DOMAIN loop
                    /\ [slow EXCEPT !.throttled = x].rateLimitSeen
                    /\ [slow EXCEPT !.throttled = x].concurrency = 1
      BY <1>2 DEF Loops
    <3>2. \/ Handled(s, [slow EXCEPT !.stop = "circuit_open"])
          \/ Handled(s, slow)
          \/ Handled(s, [slow EXCEPT !.throttled = TRUE])
      BY <2>7 DEF HandleRateLimit, RateLimitHandled
    <3> HIDE DEF slow
    <3> QED
      BY <2>4, <3>1, <3>2
  <2>8. CASE HandleFailure(s)
    <3>1. PICK code \in Failures \ {"rate_limited"} : FailureHandled(s, code, Retries)
      BY <2>8 DEF HandleFailure
    <3>2. ~HandleRateLimit(s)
      BY <3>1 DEF FailureHandled, HandleRateLimit, RateLimitHandled, Taken
    <3>3. \/ Handled(s, [loop EXCEPT !.concurrency = 1, !.stop = "circuit_open"])
          \/ Handled(s, [loop EXCEPT !.stop = code])
          \/ Handled(s, loop)
      BY <3>1 DEF FailureHandled
    <3>4. LET w == [loop EXCEPT !.concurrency = 1, !.stop = "circuit_open"]
          IN  DOMAIN w = DOMAIN loop /\ w.concurrency = 1 /\ w.rateLimitSeen = loop.rateLimitSeen
      BY <1>2 DEF Loops
    <3>5. LET w == [loop EXCEPT !.stop = code]
          IN  /\ DOMAIN w = DOMAIN loop /\ w.concurrency = loop.concurrency
              /\ w.rateLimitSeen = loop.rateLimitSeen
      BY <1>2 DEF Loops
    <3> QED
      BY <2>1, <2>4, <3>2, <3>3, <3>4, <3>5
  <2> QED
    BY <2>5, <2>6, <2>7, <2>8 DEF Handles
<1>7. "rate_limited" \in Range(finished') => loop'.rateLimitSeen
  <2>1. "rate_limited" \in Range(finished') =>
           "rate_limited" \in Range(finished) \/ flight[s] = "rate_limited"
    <3>1. CASE finished' = finished
      BY <3>1
    <3>2. CASE finished' = LastOf(Append(finished, flight[s])) /\ flight[s] \in Outcomes
      BY <3>2, LastOfKeeps, BatchAssumption DEF IInv, Types
    <3> QED
      BY <1>2, <3>1, <3>2
  <2> QED
    BY <2>1, <1>2, <1>6 DEF IInv, AloneInv
<1>8. ASSUME \A t \in Symbols : answer'[t] # "ok"
      PROVE  loop'.concurrency = 1 /\ Cardinality(DOMAIN flight') <= 1
  BY <1>8, <1>3, <1>5, <1>6 DEF IInv, AloneInv
<1>9. Cardinality(DOMAIN flight') <= Width
  BY <1>3, BatchAssumption DEF IInv, AloneInv
<1> QED
  BY <1>6, <1>7, <1>8, <1>9 DEF AloneInv

LEMMA AloneStep == IInv /\ [Next]_vars => AloneInv'
<1> SUFFICES ASSUME IInv, [Next]_vars PROVE AloneInv'
  OBVIOUS
<1>1. loop \in Loops
  BY DEF IInv, Types, Loops
<1>2. CASE /\ DOMAIN flight' = DOMAIN flight /\ UNCHANGED <<answer, finished>>
           /\ loop'.concurrency = loop.concurrency
           /\ loop'.rateLimitSeen = loop.rateLimitSeen
  BY <1>2 DEF IInv, AloneInv
<1>3. ASSUME NEW s \in Symbols, \/ \E o \in Outcomes : AttemptEnds(s, o)
                                \/ Dropped(s)
      PROVE  AloneInv'
  BY <1>2, <1>3 DEF AttemptEnds, Dropped
<1>4. CASE Cancel \/ Resume \/ Wake \/ UNCHANGED vars
  BY <1>1, <1>2, <1>4 DEF Cancel, Resume, Wake, vars, Loops
<1>5. CASE Wait
  BY <1>1, <1>2, <1>5 DEF Wait, Loops
<1>6. CASE Submit
  <2> DEFINE s == Head(todo.planned)
  <2>1. /\ Cardinality(DOMAIN flight) < loop.concurrency
        /\ UNCHANGED <<loop, answer, finished>>
    BY <1>6 DEF Submit, MaySubmit
  <2>2. DOMAIN flight' = DOMAIN flight \cup {s}
    BY <1>6 DEF Submit
  <2> HIDE DEF s
  <2>3. /\ Cardinality(DOMAIN flight) \in Nat
        /\ \/ Cardinality(DOMAIN flight') = Cardinality(DOMAIN flight)
           \/ Cardinality(DOMAIN flight') = Cardinality(DOMAIN flight) + 1
    BY <2>2, FlightCounts, FS_AddElement DEF IInv
  <2> QED
    BY <1>1, <2>1, <2>3, BatchAssumption DEF IInv, AloneInv, Loops
<1>7. CASE GetQuantSeries
  <2>1. /\ loop' = [loop EXCEPT !.phase = "returned"] /\ flight' = <<>> /\ UNCHANGED finished
        /\ answer' = [s \in Symbols |-> Drained(s)]
    BY <1>7 DEF GetQuantSeries
  <2>2. DOMAIN flight' = {} /\ Cardinality(DOMAIN flight') = 0
    BY <2>1, FS_EmptySet
  <2>3. ASSUME NEW s \in Symbols, answer[s] = "ok" PROVE answer'[s] = "ok"
    BY <2>1, <2>3 DEF Drained
  <2>4. loop'.concurrency = loop.concurrency /\ loop'.rateLimitSeen = loop.rateLimitSeen
    BY <1>1, <2>1 DEF Loops
  <2> QED
    BY <2>1, <2>2, <2>3, <2>4, BatchAssumption DEF IInv, AloneInv
<1> QED
  BY <1>3, <1>4, <1>5, <1>6, <1>7, AloneAfterHandling DEF Next, Handles, Returned

-----------------------------------------------------------------------------
(* The invariant of a batch: where its symbols are, what its flags mean and *)
(* how many requests are under way.                                         *)
THEOREM BatchInvariant == Spec => []IInv
<1>1. Init => IInv
  <2> SUFFICES ASSUME Init PROVE IInv
    OBVIOUS
  <2>1. /\ todo = [planned |-> SetToSeq(Symbols), deferred |-> <<>>]
        /\ DOMAIN flight = {} /\ flight \in [DOMAIN flight -> {"running"}]
        /\ Answered = {}
    BY DEF Init, Answered
  <2>2. Types
    <3>1. 1 \in 1..Width /\ 0 \in 0..Retries
      BY BatchAssumption
    <3>2. <<>> \in Seq(Outcomes) /\ <<>> \in Seq(Symbols)
      OBVIOUS
    <3>3. todo \in [planned : Seq(Symbols), deferred : Seq(Symbols)]
      BY <2>1, <3>2, PlannedAtFirst
    <3>4. tries \in [Symbols -> 0..Retries] /\ answer \in [Symbols -> Answers]
      BY <3>1 DEF Init, Answers
    <3>5. loop \in [phase : Phases, done : SUBSET Symbols, concurrency : 1..Width,
                    throttled : BOOLEAN, rateLimitSeen : BOOLEAN, stop : Stops]
      BY <3>1 DEF Init, Phases, Stops
    <3>6. flight \in [DOMAIN flight -> Outcomes \cup {"running", "dropped"}]
      BY <2>1
    <3> QED
      BY <2>1, <3>2, <3>3, <3>4, <3>5, <3>6 DEF Init, Types
  <2>3. BreakerInv
    <3>1. <<>> \in Seq(Failures) /\ Len(<<>>) = 0 /\ 0 \in 0..Streak
      BY BatchAssumption
    <3> QED
      BY <3>1, BatchAssumption DEF Init, BreakerInv
  <2>4. PlacesInv
    BY <2>1, PlannedAtFirst, OnceEmpty DEF PlacesInv, Apart
  <2>5. LoopInv
    BY <2>1 DEF Init, LoopInv
  <2>6. AloneInv
    BY <2>1, FS_EmptySet, OnceEmpty, BatchAssumption DEF Init, AloneInv
  <2> QED
    BY <2>2, <2>3, <2>4, <2>5, <2>6 DEF IInv
<1>2. IInv /\ [Next]_vars => IInv'
  BY TypesStep, BreakerStep, PlacesStep, LoopStep, AloneStep DEF IInv
<1> QED
  BY <1>1, <1>2, PTL DEF Spec

(* The attempts of a symbol and the failures in a row stay within their     *)
(* limits (longbridge.py get_quant_series, CircuitBreaker.record).          *)
THEOREM TypeCorrect == Spec => []TypeOK
<1>1. IInv => TypeOK
  BY DEF IInv, Types, BreakerInv, TypeOK, Answers
<1> QED
  BY <1>1, BatchInvariant, PTL

(* Every symbol is planned, deferred, in flight or answered, in one place   *)
(* only, and answered when the batch returns, whatever fails, is deferred,  *)
(* dropped or canceled; a batch that stops by itself has nothing left; and  *)
(* requests go alone until one succeeds (longbridge.py get_quant_series).   *)
THEOREM EveryBatchIsAnswered == Spec => []BatchIsAnswered
<1>1. IInv => BatchIsAnswered
  <2> SUFFICES ASSUME IInv PROVE BatchIsAnswered
    OBVIOUS
  <2>1. ASSUME loop.phase # "returned", NEW s \in Symbols
        PROVE  CountOf(s, todo.planned) + CountOf(s, todo.deferred)
               + (IF s \in DOMAIN flight THEN 1 ELSE 0) + (IF s \in Answered THEN 1 ELSE 0) = 1
    <3>1. /\ CountOf(s, todo.planned) = IF s \in Range(todo.planned) THEN 1 ELSE 0
          /\ CountOf(s, todo.deferred) = IF s \in Range(todo.deferred) THEN 1 ELSE 0
      BY <2>1, CountOnce DEF IInv, Types, PlacesInv
    <3>2. Apart(Range(todo.planned), Range(todo.deferred), DOMAIN flight, Answered)
      BY <2>1 DEF IInv, PlacesInv
    <3> QED
      BY <3>1, <3>2 DEF Apart
  <2>2. EachSymbolOnce
    BY <2>1 DEF EachSymbolOnce, IInv, LoopInv
  <2>3. LoopGoesOn
    BY DEF LoopGoesOn, IInv, LoopInv
  <2>4. GoesAlone
    BY DEF GoesAlone, IInv, AloneInv
  <2> QED
    BY <2>2, <2>3, <2>4 DEF BatchIsAnswered
<1> QED
  BY <1>1, BatchInvariant, PTL

(* After a rate limit among the last requests, a request leaves only when   *)
(* no other is under way.                                                   *)
THEOREM LimitedGoesAlone == Spec => GoesAloneAfterLimit
<1>1. ASSUME IInv, [Next]_vars,
             \E i \in DOMAIN finished : finished[i] = "rate_limited",
             DOMAIN flight \subseteq DOMAIN flight', DOMAIN flight # DOMAIN flight'
      PROVE  flight = <<>>
  <2>1. Submit
    <3>1. ASSUME NEW s \in Symbols, Handles(s) PROVE FALSE
      BY <1>1, <3>1, Landing DEF IInv
    <3>2. ASSUME NEW s \in Symbols, \/ \E o \in Outcomes : AttemptEnds(s, o)
                                    \/ Dropped(s)
          PROVE  FALSE
      BY <1>1, <3>2 DEF AttemptEnds, Dropped
    <3>3. ~(Cancel \/ Resume \/ Wait \/ Wake \/ UNCHANGED vars)
      BY <1>1 DEF Cancel, Resume, Wait, Wake, vars
    <3>4. ~GetQuantSeries
      <4>1. ASSUME GetQuantSeries PROVE DOMAIN flight' = {}
        BY <4>1 DEF GetQuantSeries
      <4> QED
        BY <1>1, <4>1
    <3> QED
      BY <1>1, <3>1, <3>2, <3>3, <3>4 DEF Next, Handles, Returned
  <2>2. loop.concurrency = 1
    <3>1. "rate_limited" \in Range(finished)
      BY <1>1 DEF Range
    <3> QED
      BY <1>1, <3>1 DEF IInv, AloneInv
  <2>3. Cardinality(DOMAIN flight) < 1
    BY <2>1, <2>2 DEF Submit, MaySubmit
  <2>4. DOMAIN flight = {}
    <3>1. IsFiniteSet(DOMAIN flight) /\ Cardinality(DOMAIN flight) \in Nat
      BY <1>1, FlightCounts DEF IInv
    <3>2. Cardinality(DOMAIN flight) = 0
      BY <2>3, <3>1
    <3> QED
      BY <3>1, <3>2, FS_EmptySet
  <2> QED
    BY <1>1, <2>4, NothingInFlight DEF IInv, Types
<1>2. IInv /\ [Next]_vars =>
        [(/\ \E i \in DOMAIN finished : finished[i] = "rate_limited"
          /\ DOMAIN flight \subseteq DOMAIN flight' /\ DOMAIN flight # DOMAIN flight')
         => flight = <<>>]_vars
  BY <1>1
<1> QED
  BY <1>2, BatchInvariant, PTL DEF Spec, GoesAloneAfterLimit
=============================================================================
