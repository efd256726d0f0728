------------------------------ MODULE QuantBatch ------------------------------
(***************************************************************************)
(* LongbridgeProvider.get_quant_series: one script run per symbol on a pool *)
(* of worker threads, steered by one loop.  The first request goes alone;   *)
(* a success opens the batch to Width requests; a rate limit narrows it to  *)
(* one for good; a fatal error or an open CircuitBreaker                    *)
(* (core/operations/failure_policy.py) ends it.                             *)
(*                                                                          *)
(* Waiting times, feedback and the responses themselves are left out.  The  *)
(* limits of the breaker are parameters: the code has 8, 16 and 20.         *)
(***************************************************************************)
EXTENDS Naturals, Sequences, FiniteSets, SequencesExt, FiniteSetsExt

CONSTANTS Symbols,  \* the symbols asked for
          Width,    \* requests at a time once the batch is open: 4
          Retries,  \* retries of one symbol: 2, or 0 when the setting is 0
          Streak, Rolling, Window  \* the limits of the breaker

ASSUME BatchAssumption ==
    /\ IsFiniteSet(Symbols)
    /\ Width \in Nat \ {0} /\ Retries \in Nat
    /\ Streak \in Nat \ {0} /\ Rolling \in Nat /\ Window \in Nat

VARIABLES
    todo,    \* planned and deferred: sequences of symbols
    tries,   \* attempt of each symbol's task, from 0
    flight,  \* submitted symbols: "running", or what their request raised or gave
    loop,    \* the loop: phase, done set at hand, concurrency, throttled,
             \* rateLimitSeen, stop
    limited, \* rate_limit_observed, set by the workers
    breaker, \* recent failures, the code that repeats and how often, open
    answer,  \* completed and errors: per symbol "none", "ok" or an error
    canceled,
    finished \* how the last Window requests ended: "ok" or the failure

vars == <<todo, tries, flight, loop, limited, breaker, answer, canceled, finished>>

Infrastructure == {"rate_limited", "network_error"}
Fatal == {"authentication_failed"}
Retryable == {"network_error", "malformed"}
Failures == Infrastructure \cup Fatal \cup Retryable \cup {"data_unavailable"}
Outcomes == {"ok", "canceled"} \cup Failures

Answered == {s \in Symbols : answer[s] # "none"}

Init ==
    /\ todo = [planned |-> SetToSeq(Symbols), deferred |-> <<>>]
    /\ tries = [s \in Symbols |-> 0]
    /\ flight = [s \in {} |-> "running"]
    /\ loop = [phase |-> "fill", done |-> {}, concurrency |-> 1, throttled |-> FALSE,
               rateLimitSeen |-> FALSE, stop |-> "none"]
    /\ limited = FALSE
    /\ breaker = [recent |-> <<>>, code |-> "none", run |-> 0, open |-> FALSE]
    /\ answer = [s \in Symbols |-> "none"]
    /\ canceled = FALSE /\ finished = <<>>

Land(s) == [t \in DOMAIN flight \ {s} |-> flight[t]]

-----------------------------------------------------------------------------
(* The workers.  _wait_for_quant_request and _quant_series_attempt look for *)
(* a cancellation before the request and never after it.                    *)

AttemptEnds(s, outcome) ==
    /\ s \in DOMAIN flight /\ flight[s] = "running"
    /\ outcome = "canceled" => canceled
    /\ flight' = [flight EXCEPT ![s] = outcome]
    /\ limited' = (limited \/ outcome = "rate_limited")
    /\ UNCHANGED <<todo, tries, loop, breaker, answer, canceled, finished>>

(* A future the pool has not started when the batch stops is dropped.       *)
Dropped(s) ==
    /\ loop.phase = "stopping"
    /\ s \in DOMAIN flight /\ flight[s] = "running"
    /\ flight' = [flight EXCEPT ![s] = "dropped"]
    /\ UNCHANGED <<todo, tries, loop, limited, breaker, answer, canceled, finished>>

Cancel ==
    /\ ~canceled /\ loop.phase # "returned"
    /\ canceled' = TRUE
    /\ UNCHANGED <<todo, tries, flight, loop, limited, breaker, answer, finished>>

-----------------------------------------------------------------------------
(* CircuitBreaker.record: only failures are recorded.                       *)

CountOf(code, codes) == Cardinality({i \in DOMAIN codes : codes[i] = code})

LastOf(codes) == IF Len(codes) > Window THEN Tail(codes) ELSE codes

Record(code) ==
    LET recent == LastOf(Append(breaker.recent, code))
        run == IF code \in Infrastructure
               THEN IF code = breaker.code THEN breaker.run + 1 ELSE 1
               ELSE 0
        rolling == Len(recent) = Window /\ \E c \in Infrastructure : CountOf(c, recent) >= Rolling
    IN  [recent |-> recent, run |-> run,
         code |-> IF code \in Infrastructure THEN code ELSE "none",
         open |-> breaker.open \/ run >= Streak \/ rolling]

-----------------------------------------------------------------------------
(* The loop: resume what was throttled, submit, wait, handle what is done.  *)

Resume ==
    /\ loop.phase = "fill" /\ ~canceled
    /\ loop.throttled /\ flight = <<>> /\ todo.deferred # <<>>
    /\ todo' = [planned |-> todo.deferred \o todo.planned, deferred |-> <<>>]
    /\ loop' = [loop EXCEPT !.throttled = FALSE]
    /\ UNCHANGED <<tries, flight, limited, breaker, answer, canceled, finished>>

MaySubmit ==
    /\ todo.planned # <<>> /\ Cardinality(DOMAIN flight) < loop.concurrency
    /\ ~loop.throttled /\ ~limited

Submit ==
    /\ loop.phase = "fill" /\ ~canceled /\ MaySubmit
    /\ LET s == Head(todo.planned)
       IN  flight' = [t \in DOMAIN flight \cup {s} |-> IF t = s THEN "running" ELSE flight[t]]
    /\ todo' = [todo EXCEPT !.planned = Tail(@)]
    /\ UNCHANGED <<tries, loop, limited, breaker, answer, canceled, finished>>

(* To wait(FIRST_COMPLETED) once nothing more may be submitted; a batch with   *)
(* nothing left, or one canceled, goes to its end.                          *)
Wait ==
    /\ loop.phase = "fill"
    /\ IF canceled
       THEN loop' = [loop EXCEPT !.phase = "stopping", !.stop = "canceled"]
       ELSE /\ ~MaySubmit /\ ~(loop.throttled /\ flight = <<>> /\ todo.deferred # <<>>)
            /\ loop' = [loop EXCEPT !.phase = IF flight = <<>> THEN "stopping" ELSE "wait"]
    /\ UNCHANGED <<todo, tries, flight, limited, breaker, answer, canceled, finished>>

Wake ==
    LET ended == {s \in DOMAIN flight : flight[s] # "running"}
    IN  /\ loop.phase = "wait" /\ ended # {}
        /\ loop' = [loop EXCEPT !.phase = "handle", !.done = ended]
        /\ UNCHANGED <<todo, tries, flight, limited, breaker, answer, canceled, finished>>

(* One future of the done set.  "goes" is the loop afterwards.              *)
Handled(s, goes) ==
    LET left == loop.done \ {s}
    IN  loop' = [goes EXCEPT !.done = IF goes.stop # "none" THEN {} ELSE left,
                             !.phase = IF goes.stop # "none" THEN "stopping"
                                       ELSE IF left = {} THEN "fill" ELSE "handle"]

Retry(s, deferred) ==
    /\ tries' = [tries EXCEPT ![s] = @ + 1]
    /\ todo' = IF deferred THEN [todo EXCEPT !.deferred = Append(@, s)]
               ELSE [todo EXCEPT !.planned = <<s>> \o @]
    /\ UNCHANGED answer

GiveUp(s, error) ==
    /\ answer' = [answer EXCEPT ![s] = error]
    /\ UNCHANGED <<todo, tries>>

Taken(s, outcome) ==
    /\ loop.phase = "handle" /\ s \in loop.done /\ flight[s] = outcome
    /\ flight' = Land(s)
    /\ finished' = IF outcome = "canceled" THEN finished ELSE LastOf(Append(finished, outcome))
    /\ UNCHANGED canceled

HandleSuccess(s) ==
    /\ Taken(s, "ok")
    /\ GiveUp(s, "ok")
    /\ Handled(s, [loop EXCEPT !.concurrency =
           IF @ = 1 /\ tries[s] = 0 /\ ~loop.rateLimitSeen
           THEN Min({Width, Cardinality(Symbols)}) ELSE @])
    /\ UNCHANGED <<limited, breaker>>

HandleCanceled(s) ==
    /\ Taken(s, "canceled")
    /\ GiveUp(s, "canceled")
    /\ Handled(s, loop)
    /\ UNCHANGED <<limited, breaker>>

(* "slow" is the loop afterwards.                                           *)
RateLimitHandled(s, slow) ==
    LET next == Record("rate_limited")
    IN  /\ Taken(s, "rate_limited")
        /\ breaker' = next /\ limited' = FALSE
        /\ IF next.open
           THEN GiveUp(s, "rate_limited") /\ Handled(s, [slow EXCEPT !.stop = "circuit_open"])
           ELSE IF tries[s] >= Retries
           THEN GiveUp(s, "rate_limited") /\ Handled(s, slow)
           ELSE /\ tries' = [tries EXCEPT ![s] = @ + 1]
                /\ todo' = [todo EXCEPT !.deferred = <<s>> \o @]
                /\ UNCHANGED answer
                /\ Handled(s, [slow EXCEPT !.throttled = TRUE])

(* The batch stays as wide as it is.                                        *)
FaultyHandleRateLimit(s) == RateLimitHandled(s, [loop EXCEPT !.rateLimitSeen = TRUE])

HandleRateLimit(s) ==
    RateLimitHandled(s, [loop EXCEPT !.rateLimitSeen = TRUE, !.concurrency = 1])

FailureHandled(s, code, limit) ==
    LET next == Record(code)
    IN  /\ Taken(s, code)
        /\ breaker' = next /\ UNCHANGED limited
        /\ IF next.open
           THEN GiveUp(s, code) /\ Handled(s, [loop EXCEPT !.concurrency = 1, !.stop = "circuit_open"])
           ELSE IF code \in Fatal
           THEN GiveUp(s, code) /\ Handled(s, [loop EXCEPT !.stop = code])
           ELSE IF code \in Retryable /\ tries[s] < limit
           THEN Retry(s, loop.throttled) /\ Handled(s, loop)
           ELSE GiveUp(s, code) /\ Handled(s, loop)

HandleFailure(s) == \E code \in Failures \ {"rate_limited"} : FailureHandled(s, code, Retries)

(* Drained futures are forgotten when the loop stopped in the middle of a   *)
(* done set.                                                                *)
FaultyDrained(s) ==
    IF answer[s] # "none" THEN answer[s]
    ELSE IF s \in DOMAIN flight /\ flight[s] \notin {"dropped", "canceled"}
    THEN "none" ELSE loop.stop

(* The end: what was submitted is awaited, then drained, and whatever was   *)
(* never executed gets the error that stopped the batch.  A canceled batch  *)
(* takes no results of requests under way.                                  *)
Drained(s) ==
    IF answer[s] # "none" THEN answer[s]
    ELSE IF loop.stop \notin {"none", "canceled"} /\ s \in DOMAIN flight
            /\ flight[s] \notin {"dropped", "canceled"}
    THEN flight[s]
    ELSE loop.stop

GetQuantSeries ==
    /\ loop.phase = "stopping"
    /\ \A s \in DOMAIN flight : flight[s] # "running"
    /\ answer' = [s \in Symbols |-> Drained(s)]
    /\ loop' = [loop EXCEPT !.phase = "returned"]
    /\ flight' = <<>>
    /\ UNCHANGED <<todo, tries, limited, breaker, canceled, finished>>

Returned == loop.phase = "returned" /\ UNCHANGED vars

Next ==
    \/ \E s \in Symbols : \/ \E o \in Outcomes : AttemptEnds(s, o)
                          \/ Dropped(s) \/ HandleSuccess(s) \/ HandleCanceled(s)
                          \/ HandleRateLimit(s) \/ HandleFailure(s)
    \/ Cancel \/ Resume \/ Submit \/ Wait \/ Wake \/ GetQuantSeries
    \/ Returned

Spec == Init /\ [][Next]_vars

-----------------------------------------------------------------------------
TypeOK ==
    /\ tries \in [Symbols -> 0..Retries]
    /\ loop.concurrency \in 1..Width
    /\ breaker.run \in 0..Streak /\ Len(breaker.recent) <= Window
    /\ answer \in [Symbols -> {"none", "circuit_open"} \cup Outcomes]

(* Every symbol is in exactly one place: still planned, deferred, in        *)
(* flight, or answered; and a returned batch has answered every one.        *)
EachSymbolOnce ==
    /\ loop.phase # "returned" =>
          \A s \in Symbols :
             CountOf(s, todo.planned) + CountOf(s, todo.deferred)
             + (IF s \in DOMAIN flight THEN 1 ELSE 0) + (IF s \in Answered THEN 1 ELSE 0) = 1
    /\ loop.phase = "returned" => Answered = Symbols

(* A batch that has not returned waits for a request or has a step to take: *)
(* no flag of the workers keeps the loop from submitting what is left.      *)
LoopGoesOn ==
    loop.phase = "stopping" /\ loop.stop = "none" => todo.planned = <<>> /\ todo.deferred = <<>>

(* At most one request is under way until one has succeeded, and a new one  *)
(* goes alone once a rate limit was seen.                                   *)
GoesAlone ==
    /\ (\A s \in Symbols : answer[s] # "ok") => Cardinality(DOMAIN flight) <= 1
    /\ Cardinality(DOMAIN flight) <= Width

(* Every symbol of a batch is answered once, no flag of the workers keeps   *)
(* the loop from its end, and requests go alone until one succeeds          *)
(* (longbridge.py get_quant_series).                                        *)
BatchIsAnswered == EachSymbolOnce /\ LoopGoesOn /\ GoesAlone

(* After a rate limit a request leaves only when no other is under way      *)
(* (longbridge.py, the loop's concurrency after a rate limit).              *)
GoesAloneAfterLimit ==
    [][(/\ \E i \in DOMAIN finished : finished[i] = "rate_limited"
        /\ DOMAIN flight \subseteq DOMAIN flight' /\ DOMAIN flight # DOMAIN flight')
       => flight = <<>>]_vars

(* The doc's rule (docs/technical/ARCHITECTURE.md): the batch stops after   *)
(* Streak failures of a kind in a row, or Rolling of the last Window        *)
(* completed requests.  The breaker is not told of successes.               *)
InARow(code) ==
    /\ Len(finished) >= Streak
    /\ \A i \in (Len(finished) - Streak + 1)..Len(finished) : finished[i] = code

OfTheLast(code) ==
    /\ Len(finished) >= Window
    /\ CountOf(code, SubSeq(finished, Len(finished) - Window + 1, Len(finished))) >= Rolling

BreakerOpensOnPersistentFailure ==
    loop.stop = "circuit_open" =>
        \E code \in Infrastructure : InARow(code) \/ OfTheLast(code)
=============================================================================
