--------------------------- MODULE AnalysisRunProofs ---------------------------
(***************************************************************************)
(* What AnalysisRun promises of a run, for a pool of any size and any       *)
(* number of intervals.                                                     *)
(*                                                                          *)
(* None of it is inductive: what is saved is what the service counted, so   *)
(* the invariant says at each step how many tasks have been counted, of     *)
(* which source, and who may have been asked; and what each step knows of   *)
(* the operation in the registry.                                           *)
(***************************************************************************)
EXTENDS AnalysisRun, SequenceTheorems, FiniteSetTheorems, TLAPS

Types ==
    /\ request \in Requests
    /\ op \in {"none", "PENDING", "COMMITTING", "SUCCEEDED", "FAILED", "CANCELED"}
    /\ step \in Steps
    /\ work \in Works /\ session \in Sessions
    /\ told \in Statuses \cup {"none"}

(* The batches still to come, and the tasks those before them have brought. *)
TasksOfBatch == IF request.kind = "single" THEN 1 ELSE Members
Counted ==
    IF request.kind = "rs" THEN IF work.left = <<>> THEN 1 ELSE 0
    ELSE Len(request.batches) - Len(work.left)

LeftInv ==
    /\ Len(work.left) <= Len(request.batches)
    /\ request.kind = "rs" =>
          /\ request.batches = <<"benchmark", "daily">>
          /\ work.left \in {<<"benchmark", "daily">>, <<"daily">>, <<>>}
    /\ request.kind # "rs" => work.left \in Seq({"quant", "candles"})
    /\ step \in {"storage", "reserve", "freeze"} =>
          work.left = request.batches /\ work.total = Nothing /\ work.used = {}
    /\ step \in {"fetch", "ask", "digest"} => work.left # <<>>
    /\ step \in {"compute", "summary", "commit", "save", "saveRs"} => work.left = <<>>

TalliesInv ==
    /\ Tasks(work.total) = TasksOfBatch * Counted
    /\ step \in {"ask", "digest"} => Tasks(work.answer) = Width(Head(work.left))
    /\ work.used \subseteq {work.source}
    /\ work.total.ok > 0 => work.used = {work.source}
    /\ step \in {"commit", "save", "saveRs"} =>
          /\ work.total.ok > 0
          /\ Terminal(work.total) # "FAILED" \/ request.kind = "single"

(* Who was asked, and what it changed.                                      *)
AskInv ==
    /\ session.asked = IF session.answer = "none" THEN 0 ELSE 1
    /\ work.source = "yahoo" <=> request.forced \/ session.answer = "yes"
    /\ step = "ask" => session.answer = "none" /\ work.source = "primary"
    /\ step \in {"storage", "reserve"} => session.answer = "none"

(* What each step knows of the operation, and the history of the run.       *)
OpInv ==
    /\ step \in {"storage", "reserve"} => op = "none"
    /\ step \in {"freeze", "fetch", "ask", "digest", "compute", "summary", "commit", "saveRs"}
          => op \in {"PENDING", "CANCELED"}
    /\ step \in {"save", "READY", "PARTIAL"} => op = "COMMITTING"
    /\ step = "FAILED" => op \in {"PENDING", "CANCELED", "COMMITTING"}
    /\ step = "CANCELED" => op = "CANCELED"
    /\ step = "done" => op \notin {"PENDING", "COMMITTING"} /\ (told = "CANCELED" <=> op = "CANCELED")
    /\ step = "abandoned" => told = "FAILED"
    /\ told = "none" <=> step \notin {"done", "abandoned"}

StoredInv ==
    /\ StoredIsWhole
    /\ stored # {} <=> step \in {"READY", "PARTIAL"} \/ told \in {"READY", "PARTIAL"}
    /\ step = "READY" \/ told = "READY" => \A s \in stored : s.ok = s.tasks

IInv == Types /\ LeftInv /\ TalliesInv /\ AskInv /\ OpInv /\ StoredInv

-----------------------------------------------------------------------------
(* The shape of a request, and what the operators on tallies do.            *)

LEMMA BatchesShape ==
    ASSUME NEW S, NEW n \in Nat, NEW b \in [1..n -> S]
    PROVE  b \in Seq(S) /\ Len(b) = n
<1>1. b \in Seq(S)
  BY SeqDef
<1> QED
  BY <1>1, LenProperties

LEMMA RequestShape ==
    ASSUME MaxIntervals \in Nat, NEW r \in Requests
    PROVE  /\ r.kind \in Kinds /\ r.forced \in BOOLEAN /\ r.consent \in BOOLEAN
           /\ r.batches \in Seq(Market) /\ r.batches # <<>> /\ Len(r.batches) \in Nat
           /\ r.kind = "rs" => r.batches = <<"benchmark", "daily">>
           /\ r.kind # "rs" => r.batches \in Seq({"quant", "candles"})
<1>1. /\ r.kind \in Kinds /\ r.forced \in BOOLEAN /\ r.consent \in BOOLEAN
      /\ r.batches \in Batches(r.kind)
  BY DEF Requests
<1>2. CASE r.kind = "rs"
  <2>1. r.batches = <<"benchmark", "daily">>
    BY <1>1, <1>2 DEF Batches
  <2> QED
    BY <1>1, <1>2, <2>1 DEF Market
<1>3. CASE r.kind # "rs"
  <2>1. \E n \in 1..MaxIntervals : r.batches \in [1..n -> {"quant", "candles"}]
    <3>1. CASE r.kind = "turning"
      BY <1>1, <3>1 DEF Batches
    <3>2. CASE r.kind # "turning"
      <4>1. r.batches \in {[k \in 1..n |-> "candles"] : n \in 1..MaxIntervals}
        BY <1>1, <1>3, <3>2 DEF Batches
      <4>2. PICK n \in 1..MaxIntervals : r.batches = [k \in 1..n |-> "candles"]
        BY <4>1
      <4> QED
        BY <4>2
    <3> QED
      BY <3>1, <3>2
  <2>2. PICK n \in 1..MaxIntervals : r.batches \in [1..n -> {"quant", "candles"}]
    BY <2>1
  <2>3. r.batches \in Seq({"quant", "candles"}) /\ Len(r.batches) = n /\ n \in Nat /\ n >= 1
    BY <2>2, BatchesShape
  <2>4. r.batches \in Seq(Market)
    BY <2>2, <2>3, BatchesShape DEF Market
  <2>5. r.batches # <<>>
    BY <2>3, EmptySeq
  <2> QED
    BY <1>1, <1>3, <2>3, <2>4, <2>5
<1> QED
  BY <1>2, <1>3

LEMMA BatchesAreBounded ==
    ASSUME MaxIntervals \in Nat, NEW r \in Requests, r.kind # "rs"
    PROVE  Len(r.batches) \in Nat /\ Len(r.batches) <= MaxIntervals
<1>1. r.kind \in Kinds /\ r.batches \in Batches(r.kind)
  BY DEF Requests
<1>2. \E n \in 1..MaxIntervals : r.batches \in [1..n -> {"quant", "candles"}]
  <2>1. CASE r.kind = "turning"
    BY <1>1, <2>1 DEF Batches
  <2>2. CASE r.kind # "turning"
    <3>1. r.batches \in {[k \in 1..n |-> "candles"] : n \in 1..MaxIntervals}
      BY <1>1, <2>2 DEF Batches
    <3>2. PICK n \in 1..MaxIntervals : r.batches = [k \in 1..n |-> "candles"]
      BY <3>1
    <3> QED
      BY <3>2
  <2> QED
    BY <2>1, <2>2
<1>3. PICK n \in 1..MaxIntervals : r.batches \in [1..n -> {"quant", "candles"}]
  BY <1>2
<1>4. n \in Nat /\ n <= MaxIntervals
  OBVIOUS
<1> QED
  BY <1>3, <1>4, BatchesShape

LEMMA NothingIsEmpty == Nothing \in Counts /\ Tasks(Nothing) = 0 /\ Nothing.ok = 0
BY DEF Nothing, Counts, Tasks

LEMMA TallyCounts ==
    ASSUME NEW n \in Nat, NEW c \in Tallies(n)
    PROVE  c \in Counts /\ Tasks(c) = n
BY DEF Tallies, Counts, Tasks

LEMMA PlusAdds ==
    ASSUME NEW a \in Counts, NEW b \in Counts
    PROVE  /\ Plus(a, b) \in Counts /\ Tasks(Plus(a, b)) = Tasks(a) + Tasks(b)
           /\ Plus(a, b).ok = a.ok + b.ok
<1>1. DOMAIN a = {"ok", "eligible", "other", "open"}
  BY DEF Counts
<1>2. /\ Plus(a, b).ok = a.ok + b.ok /\ Plus(a, b).eligible = a.eligible + b.eligible
      /\ Plus(a, b).other = a.other + b.other /\ Plus(a, b).open = a.open + b.open
      /\ Plus(a, b) = [f \in {"ok", "eligible", "other", "open"} |-> a[f] + b[f]]
  BY <1>1 DEF Plus
<1>3. /\ a.ok \in Nat /\ a.eligible \in Nat /\ a.other \in Nat /\ a.open \in Nat
      /\ b.ok \in Nat /\ b.eligible \in Nat /\ b.other \in Nat /\ b.open \in Nat
  BY DEF Counts
<1>4. Plus(a, b) = [ok |-> a.ok + b.ok, eligible |-> a.eligible + b.eligible,
                    other |-> a.other + b.other, open |-> a.open + b.open]
  BY <1>2
<1> QED
  BY <1>2, <1>3, <1>4 DEF Counts, Tasks

(* A calculation that loses symbols loses no task.                          *)
LEMMA LosesNoTask ==
    ASSUME work \in Works, NEW lost \in 0..work.total.ok, Loses(lost)
    PROVE  /\ work' \in Works
           /\ work'.left = work.left /\ work'.source = work.source
           /\ work'.used = work.used /\ work'.answer = work.answer
           /\ Tasks(work'.total) = Tasks(work.total)
           /\ work'.total.ok <= work.total.ok
<1> DEFINE t == [work.total EXCEPT !.ok = work.total.ok - lost, !.other = work.total.other + lost]
<1>1. work.total \in Counts
  BY DEF Works
<1>2. t \in Counts /\ Tasks(t) = Tasks(work.total) /\ t.ok <= work.total.ok
  <2>1. /\ work.total.ok \in Nat /\ work.total.eligible \in Nat
        /\ work.total.other \in Nat /\ work.total.open \in Nat
    BY <1>1 DEF Counts
  <2>2. /\ t.ok = work.total.ok - lost /\ t.eligible = work.total.eligible
        /\ t.other = work.total.other + lost /\ t.open = work.total.open
    BY <1>1 DEF Counts
  <2>3. t \in Counts
    <3> DEFINE c == work.total
               less == c.ok - lost
               more == c.other + lost
    <3>1. c \in Counts /\ less \in Nat /\ more \in Nat
      BY <1>1, <2>1
    <3>2. t = [c EXCEPT !.ok = less, !.other = more]
      OBVIOUS
    <3> HIDE DEF c, less, more
    <3>3. [c EXCEPT !.ok = less, !.other = more] \in Counts
      BY <3>1 DEF Counts
    <3> QED
      BY <3>2, <3>3
  <2> QED
    BY <2>1, <2>2, <2>3 DEF Tasks
<1>3. work' = [work EXCEPT !.total = t]
  BY DEF Loses
<1> HIDE DEF t
<1> QED
  BY <1>2, <1>3 DEF Works

(* What a digested batch adds.                                              *)
LEMMA TakenAdds ==
    ASSUME work \in Works, work.left # <<>>, NEW counts \in BOOLEAN, Taken(counts)
    PROVE  /\ work' \in Works
           /\ work'.left = Tail(work.left) /\ work'.source = work.source
           /\ work'.total = IF counts THEN Plus(work.total, work.answer) ELSE work.total
           /\ work'.used = IF work.answer.ok > 0 THEN work.used \cup {work.source} ELSE work.used
<1> DEFINE t == IF counts THEN Plus(work.total, work.answer) ELSE work.total
           u == IF work.answer.ok > 0 THEN work.used \cup {work.source} ELSE work.used
<1>1. t \in Counts /\ u \in SUBSET {"primary", "yahoo"}
  BY PlusAdds DEF Works
<1>2. Tail(work.left) \in Seq(Market)
  BY HeadTailProperties DEF Works
<1>3. work' = [work EXCEPT !.left = Tail(work.left), !.answer = Nothing, !.total = t, !.used = u]
  BY DEF Taken
<1> HIDE DEF t, u
<1>4. /\ work' \in Works
      /\ work'.left = Tail(work.left) /\ work'.source = work.source
      /\ work'.total = t /\ work'.used = u
  BY <1>1, <1>2, <1>3, NothingIsEmpty DEF Works
<1> QED
  BY <1>4 DEF t, u

LEMMA FreshIsWork ==
    ASSUME MaxIntervals \in Nat, request \in Requests, NEW source \in {"primary", "yahoo"}
    PROVE  /\ Fresh(request.batches, source) \in Works
           /\ Fresh(request.batches, source).left = request.batches
           /\ Fresh(request.batches, source).total = Nothing
           /\ Fresh(request.batches, source).source = source
           /\ Fresh(request.batches, source).used = {}
BY RequestShape, NothingIsEmpty DEF Fresh, Works

-----------------------------------------------------------------------------
(* Types.                                                                   *)
LEMMA InitTypes == ASSUME MaxIntervals \in Nat, Init PROVE Types
BY FreshIsWork DEF Init, Types, Sessions, Steps

LEMMA TypesStep ==
    ASSUME Members \in Nat, MaxIntervals \in Nat, Types, LeftInv, [Next]_vars
    PROVE  Types'
<1> USE DEF Types
<1>1. CASE PrepareRun
  BY <1>1 DEF PrepareRun, Steps, Statuses
<1>2. CASE Reserve
  BY <1>2 DEF Reserve, Steps, Statuses
<1>3. CASE Cancel
  BY <1>3 DEF Cancel
<1>4. CASE Freeze
  <2>1. step' \in {"FAILED", "CANCELED", "fetch"}
    BY <1>4 DEF Freeze, FreezeRs, FreezeTurning, FreezeDeviation, Frozen, Proposes
  <2> QED
    BY <1>4, <2>1 DEF Freeze, Steps, Statuses
<1>5. CASE Fetch
  <2>1. PICK c \in Tallies(Width(Head(work.left))) : work' = [work EXCEPT !.answer = c]
    BY <1>5 DEF Fetch
  <2>2. c \in Counts
    BY <2>1, TallyCounts DEF Width
  <2>3. work' \in Works
    BY <2>1, <2>2 DEF Works
  <2>4. step' \in {"ask", "digest"}
    BY <1>5 DEF Fetch, Proposes
  <2> QED
    BY <1>5, <2>3, <2>4 DEF Fetch, Steps, Statuses
<1>6. CASE Decline
  BY <1>6 DEF Decline, Proposes, Sessions, Steps
<1>7. CASE Accept
  <2>1. work' \in Works
    BY <1>7, FreshIsWork DEF Accept, Restart
  <2> QED
    BY <1>7, <2>1 DEF Accept, Restart, Proposes, Sessions, Steps
<1>8. CASE Digest
  <2>1. work.left # <<>>
    BY <1>8 DEF Digest, LeftInv
  <2>2. work' \in Works
    BY <1>8, <2>1, TakenAdds DEF Digest, DigestRs, DigestIntervals
  <2>3. step' \in {"CANCELED", "FAILED", "compute", "fetch"}
    BY <1>8 DEF Digest, DigestRs, DigestIntervals, Proposes, Following
  <2> QED
    BY <1>8, <2>2, <2>3 DEF Digest, Steps, Statuses
<1>9. CASE ComputeRs \/ ComputeIntervals
  <2>1. work' \in Works
    BY <1>9, LosesNoTask DEF ComputeRs, ComputeIntervals
  <2>2. step' \in {"CANCELED", "FAILED", "summary"}
    BY <1>9 DEF ComputeRs, ComputeIntervals, Proposes
  <2> QED
    BY <1>9, <2>1, <2>2 DEF ComputeRs, ComputeIntervals, Steps, Statuses
<1>10. CASE Summarize
  <2>1. step' \in {"CANCELED", "FAILED", "saveRs", "commit"}
    BY <1>10 DEF Summarize, SummarizeRs, SummarizeTurning, SummarizeDeviation, Proposes
  <2> QED
    BY <1>10, <2>1 DEF Summarize, Steps, Statuses
<1>11. CASE EnterCommit
  BY <1>11 DEF EnterCommit, Proposes, Steps, Statuses
<1>12. CASE Save \/ SaveRs
  <2>1. step' \in Statuses
    BY <1>12 DEF Save, SaveRs, Proposes, ReadyStatus, Statuses
  <2> QED
    BY <1>12, <2>1 DEF Save, SaveRs, Steps
<1>13. CASE HandlerRaises
  BY <1>13 DEF HandlerRaises, Proposes, Steps, Statuses
<1>14. CASE Finish
  <2>1. told' \in Statuses
    BY <1>14 DEF Finish, Statuses
  <2>2. op' \in {"SUCCEEDED", "FAILED", "CANCELED"}
    BY <1>14, <2>1 DEF Finish, Statuses
  <2> QED
    BY <1>14, <2>1, <2>2 DEF Finish, Steps
<1>15. CASE UNCHANGED vars
  BY <1>15 DEF vars
<1> QED
  BY <1>1, <1>2, <1>3, <1>4, <1>5, <1>6, <1>7, <1>8, <1>9, <1>10, <1>11, <1>12, <1>13,
     <1>14, <1>15 DEF Next

-----------------------------------------------------------------------------
(* The batches still to come.                                               *)
LEMMA AllLeft ==
    ASSUME MaxIntervals \in Nat, NEW r \in Requests, NEW left, left = r.batches
    PROVE  /\ Len(left) <= Len(r.batches) /\ left # <<>>
           /\ r.kind = "rs" =>
                 /\ r.batches = <<"benchmark", "daily">>
                 /\ left \in {<<"benchmark", "daily">>, <<"daily">>, <<>>}
           /\ r.kind # "rs" => left \in Seq({"quant", "candles"})
<1>1. r.kind = "rs" => left \in {<<"benchmark", "daily">>, <<"daily">>, <<>>}
  <2>1. r.kind = "rs" => left = <<"benchmark", "daily">>
    BY RequestShape
  <2> QED
    BY <2>1
<1>2. Len(left) <= Len(r.batches)
  BY RequestShape
<1> QED
  BY <1>1, <1>2, RequestShape

LEMMA InitLeft == ASSUME MaxIntervals \in Nat, Init PROVE LeftInv
<1>1. request \in Requests /\ step = "storage"
  BY DEF Init
<1>2. work.left = request.batches /\ work.total = Nothing /\ work.used = {}
  BY FreshIsWork DEF Init
<1> QED
  BY <1>1, <1>2, AllLeft DEF LeftInv

LEMMA LeftStep ==
    ASSUME Members \in Nat, MaxIntervals \in Nat, Types, LeftInv, [Next]_vars
    PROVE  LeftInv'
<1>0. request \in Requests /\ work \in Works /\ request' = request
  BY DEF Types, Next, PrepareRun, Reserve, Cancel, Freeze, Fetch, Decline, Accept, Restart, Digest,
         ComputeRs, ComputeIntervals, Summarize, EnterCommit, Save, SaveRs, HandlerRaises, Finish, vars
<1>1. CASE PrepareRun \/ Reserve
  BY <1>1 DEF PrepareRun, Reserve, LeftInv
<1>2. CASE Cancel \/ UNCHANGED vars
  BY <1>2 DEF Cancel, vars, LeftInv
<1>3. CASE Freeze
  <2>1. /\ step = "freeze" /\ step' \in {"FAILED", "CANCELED", "fetch"} /\ work' = work
    BY <1>3 DEF Freeze, FreezeRs, FreezeTurning, FreezeDeviation, Frozen, Proposes
  <2> QED
    BY <1>0, <2>1, RequestShape DEF LeftInv
<1>4. CASE Fetch
  <2>1. PICK c \in Tallies(Width(Head(work.left))) : work' = [work EXCEPT !.answer = c]
    BY <1>4 DEF Fetch
  <2>2. work'.left = work.left
    BY <1>0, <2>1 DEF Works
  <2>3. step = "fetch" /\ step' \in {"ask", "digest"}
    BY <1>4 DEF Fetch, Proposes
  <2> QED
    BY <1>0, <2>2, <2>3 DEF LeftInv
<1>5. CASE Decline
  BY <1>5 DEF Decline, Proposes, LeftInv
<1>6. CASE Accept
  <2>1. /\ work'.left = request.batches /\ work'.total = Nothing /\ work'.used = {}
        /\ step' = "freeze"
    BY <1>0, <1>6, FreshIsWork DEF Accept, Restart, Proposes
  <2> QED
    BY <1>0, <2>1, AllLeft DEF LeftInv
<1>7. CASE Digest
  <2>1. work.left # <<>> /\ step = "digest"
    BY <1>7 DEF Digest, LeftInv
  <2>2. work'.left = Tail(work.left)
    BY <1>0, <1>7, <2>1, TakenAdds DEF Digest, DigestRs, DigestIntervals
  <2>3. step' \in {"CANCELED", "FAILED", Following}
    BY <1>7 DEF Digest, DigestRs, DigestIntervals, Proposes
  <2>4. work.left \in Seq(Market) /\ request.batches \in Seq(Market)
    BY <1>0, RequestShape DEF Works
  <2>5. /\ Len(work.left) \in Nat /\ Len(Tail(work.left)) = Len(work.left) - 1
        /\ Tail(work.left) \in Seq(Market) /\ Len(request.batches) \in Nat
    BY <2>1, <2>4, HeadTailProperties, LenProperties
  <2>6. Tail(work.left) = <<>> <=> Len(work.left) = 1
    <3>1. Tail(work.left) = <<>> <=> Len(Tail(work.left)) = 0
      BY <2>5, EmptySeq
    <3> QED
      BY <2>5, <3>1
  <2>7. request.kind = "rs" => work'.left \in {<<"daily">>, <<>>}
    <3>1. ASSUME work.left = <<"benchmark", "daily">> PROVE Tail(work.left) = <<"daily">>
      BY <3>1
    <3>2. ASSUME work.left = <<"daily">> PROVE Tail(work.left) = <<>>
      BY <3>2
    <3> QED
      BY <2>1, <2>2, <3>1, <3>2 DEF LeftInv
  <2>8. request.kind # "rs" => work'.left \in Seq({"quant", "candles"})
    BY <2>1, <2>2, HeadTailProperties DEF LeftInv
  <2>9. Len(work'.left) <= Len(request.batches)
    BY <2>2, <2>5 DEF LeftInv
  <2>10. step' = "compute" => work'.left = <<>>
    BY <2>2, <2>3, <2>6 DEF Following
  <2>11. step' = "fetch" => work'.left # <<>>
    BY <2>2, <2>3, <2>6 DEF Following
  <2>12. step' \in {"CANCELED", "FAILED", "compute", "fetch"}
    BY <2>3 DEF Following
  <2> QED
    BY <1>0, <2>7, <2>8, <2>9, <2>10, <2>11, <2>12 DEF LeftInv
<1>8. CASE ComputeRs \/ ComputeIntervals
  <2>1. work'.left = work.left
    BY <1>0, <1>8, LosesNoTask DEF ComputeRs, ComputeIntervals
  <2>2. step = "compute" /\ step' \in {"CANCELED", "FAILED", "summary"}
    BY <1>8 DEF ComputeRs, ComputeIntervals, Proposes
  <2> QED
    BY <1>0, <2>1, <2>2 DEF LeftInv
<1>9. CASE Summarize
  <2>1. step = "summary" /\ work' = work /\ step' \in {"CANCELED", "FAILED", "saveRs", "commit"}
    BY <1>9 DEF Summarize, SummarizeRs, SummarizeTurning, SummarizeDeviation, Proposes
  <2> QED
    BY <1>0, <2>1 DEF LeftInv
<1>10. CASE EnterCommit
  BY <1>0, <1>10 DEF EnterCommit, Proposes, LeftInv
<1>11. CASE Save \/ SaveRs \/ HandlerRaises \/ Finish
  <2>1. work' = work /\ step' \in Statuses \cup {"done"}
    BY <1>11 DEF Save, SaveRs, HandlerRaises, Finish, Proposes, ReadyStatus, Statuses
  <2> QED
    BY <1>0, <2>1 DEF LeftInv, Statuses
<1> QED
  BY <1>1, <1>2, <1>3, <1>4, <1>5, <1>6, <1>7, <1>8, <1>9, <1>10, <1>11 DEF Next

-----------------------------------------------------------------------------
(* Who was asked, and the operation.                                        *)
LEMMA InitAskAndOp == ASSUME MaxIntervals \in Nat, Init PROVE AskInv /\ OpInv
<1>1. /\ request \in Requests /\ step = "storage" /\ op = "none" /\ told = "none"
      /\ session = [asked |-> 0, answer |-> "none"]
  BY DEF Init
<1>2. work.source = IF request.forced THEN "yahoo" ELSE "primary"
  BY <1>1, FreshIsWork DEF Init
<1> QED
  BY <1>1, <1>2, RequestShape DEF AskInv, OpInv

LEMMA AskStep ==
    ASSUME Members \in Nat, MaxIntervals \in Nat, Types, LeftInv, AskInv, [Next]_vars
    PROVE  AskInv'
<1>0. /\ request \in Requests /\ work \in Works /\ session \in Sessions
      /\ request' = request
  BY DEF Types, Next, PrepareRun, Reserve, Cancel, Freeze, Fetch, Decline, Accept, Restart, Digest,
         ComputeRs, ComputeIntervals, Summarize, EnterCommit, Save, SaveRs, HandlerRaises, Finish, vars
<1>1. CASE PrepareRun \/ Reserve
  BY <1>0, <1>1 DEF PrepareRun, Reserve, AskInv
<1>2. CASE Cancel \/ UNCHANGED vars
  BY <1>2 DEF Cancel, vars, AskInv
<1>3. CASE Freeze
  <2>1. step' \in {"FAILED", "CANCELED", "fetch"} /\ work' = work /\ session' = session
    BY <1>3 DEF Freeze, FreezeRs, FreezeTurning, FreezeDeviation, Frozen, Proposes
  <2> QED
    BY <1>0, <2>1 DEF AskInv
<1>4. CASE Fetch
  <2>1. PICK c \in Tallies(Width(Head(work.left))) :
              work' = [work EXCEPT !.answer = c] /\ step' = IF Asks(c) THEN "ask" ELSE "digest"
    BY <1>4 DEF Fetch, Proposes
  <2>2. work'.source = work.source /\ session' = session
    BY <1>0, <1>4, <2>1 DEF Works, Fetch
  <2>3. Asks(c) => session.answer = "none" /\ work.source = "primary"
    BY DEF Asks, AsksRs, AsksTurning, AsksDeviation, MayAsk
  <2> QED
    BY <1>0, <2>1, <2>2, <2>3 DEF AskInv
<1>5. CASE Decline
  <2>1. /\ session' = [asked |-> session.asked + 1, answer |-> "no"] /\ work' = work
        /\ step = "ask" /\ step' = "digest"
    BY <1>5 DEF Decline, Proposes
  <2> QED
    BY <1>0, <2>1 DEF AskInv, Sessions
<1>6. CASE Accept
  <2>1. /\ session' = [asked |-> session.asked + 1, answer |-> "yes"]
        /\ step = "ask" /\ step' = "freeze"
    BY <1>6 DEF Accept, Restart, Proposes
  <2>2. work'.source = "yahoo"
    BY <1>0, <1>6, FreshIsWork DEF Accept, Restart
  <2> QED
    BY <1>0, <2>1, <2>2 DEF AskInv, Sessions
<1>7. CASE Digest
  <2>1. work.left # <<>>
    BY <1>7 DEF Digest, LeftInv
  <2>2. work'.source = work.source /\ session' = session
    BY <1>0, <1>7, <2>1, TakenAdds DEF Digest, DigestRs, DigestIntervals
  <2>3. step' \in {"CANCELED", "FAILED", "compute", "fetch"}
    BY <1>7 DEF Digest, DigestRs, DigestIntervals, Proposes, Following
  <2> QED
    BY <1>0, <2>2, <2>3 DEF AskInv
<1>8. CASE ComputeRs \/ ComputeIntervals
  <2>1. work'.source = work.source /\ session' = session
    BY <1>0, <1>8, LosesNoTask DEF ComputeRs, ComputeIntervals
  <2>2. step' \in {"CANCELED", "FAILED", "summary"}
    BY <1>8 DEF ComputeRs, ComputeIntervals, Proposes
  <2> QED
    BY <1>0, <2>1, <2>2 DEF AskInv
<1>9. CASE Summarize
  <2>1. work' = work /\ session' = session /\ step' \in {"CANCELED", "FAILED", "saveRs", "commit"}
    BY <1>9 DEF Summarize, SummarizeRs, SummarizeTurning, SummarizeDeviation, Proposes
  <2> QED
    BY <1>0, <2>1 DEF AskInv
<1>10. CASE EnterCommit \/ Save \/ SaveRs \/ HandlerRaises \/ Finish
  <2>1. work' = work /\ session' = session /\ step' \in Statuses \cup {"done", "save"}
    BY <1>10 DEF EnterCommit, Save, SaveRs, HandlerRaises, Finish, Proposes, ReadyStatus, Statuses
  <2> QED
    BY <1>0, <2>1 DEF AskInv, Statuses
<1> QED
  BY <1>1, <1>2, <1>3, <1>4, <1>5, <1>6, <1>7, <1>8, <1>9, <1>10 DEF Next

LEMMA OpStep == ASSUME Types, OpInv, [Next]_vars PROVE OpInv'
<1> USE DEF OpInv
<1>1. CASE PrepareRun
  BY <1>1 DEF PrepareRun
<1>2. CASE Reserve
  BY <1>2 DEF Reserve
<1>3. CASE Cancel
  BY <1>3 DEF Cancel
<1>4. CASE Freeze
  <2>1. /\ step = "freeze" /\ op' = op /\ told' = told
        /\ step' \in {"FAILED", "CANCELED", "fetch"}
        /\ step' = "CANCELED" => op = "CANCELED"
    BY <1>4 DEF Freeze, FreezeRs, FreezeTurning, FreezeDeviation, Frozen, Proposes, Canceled
  <2> QED
    BY <2>1
<1>5. CASE Fetch \/ Decline \/ Accept
  <2>1. /\ step \in {"fetch", "ask"} /\ op' = op /\ told' = told
        /\ step' \in {"ask", "digest", "freeze"}
    BY <1>5 DEF Fetch, Decline, Accept, Restart, Proposes
  <2> QED
    BY <2>1
<1>6. CASE Digest
  <2>1. /\ step = "digest" /\ op' = op /\ told' = told
        /\ step' \in {"CANCELED", "FAILED", "compute", "fetch"}
        /\ step' = "CANCELED" => op = "CANCELED"
    BY <1>6 DEF Digest, DigestRs, DigestIntervals, Proposes, Following, Canceled
  <2> QED
    BY <2>1
<1>7. CASE ComputeRs \/ ComputeIntervals
  <2>1. /\ step = "compute" /\ op' = op /\ told' = told
        /\ step' \in {"CANCELED", "FAILED", "summary"}
        /\ step' = "CANCELED" => op = "CANCELED"
    BY <1>7 DEF ComputeRs, ComputeIntervals, Proposes, Canceled
  <2> QED
    BY <2>1
<1>8. CASE Summarize
  <2>1. /\ step = "summary" /\ op' = op /\ told' = told
        /\ step' \in {"CANCELED", "FAILED", "saveRs", "commit"}
        /\ step' = "CANCELED" => op = "CANCELED"
    BY <1>8 DEF Summarize, SummarizeRs, SummarizeTurning, SummarizeDeviation, Proposes, Canceled
  <2> QED
    BY <2>1
<1>9. CASE EnterCommit
  BY <1>9 DEF EnterCommit, Proposes, Canceled
<1>10. CASE Save
  BY <1>10 DEF Save, Proposes, ReadyStatus
<1>11. CASE SaveRs
  BY <1>11 DEF SaveRs, Proposes, ReadyStatus, Canceled
<1>12. CASE HandlerRaises
  BY <1>12 DEF HandlerRaises, Proposes
<1>13. CASE Finish
  <2>1. /\ step \in Statuses /\ step' = "done"
        /\ told' = IF op = "CANCELED" THEN "CANCELED" ELSE step
        /\ op' = IF told' \in {"READY", "PARTIAL"} THEN "SUCCEEDED" ELSE told'
    BY <1>13 DEF Finish, Canceled
  <2> QED
    BY <2>1 DEF Statuses
<1>14. CASE UNCHANGED vars
  BY <1>14 DEF vars
<1> QED
  BY <1>1, <1>2, <1>3, <1>4, <1>5, <1>6, <1>7, <1>8, <1>9, <1>10, <1>11, <1>12, <1>13, <1>14 DEF Next

-----------------------------------------------------------------------------
(* What has been counted.                                                   *)

LEMMA NothingCounted ==
    ASSUME Members \in Nat, MaxIntervals \in Nat, request \in Requests, work \in Works,
           work.left = request.batches, work.total = Nothing, work.used = {},
           step \notin {"ask", "digest", "commit", "save", "saveRs"}
    PROVE  TalliesInv
<1>1. Counted = 0
  BY RequestShape DEF Counted
<1>2. TasksOfBatch \in Nat
  BY DEF TasksOfBatch
<1> QED
  BY <1>1, <1>2, NothingIsEmpty DEF TalliesInv

LEMMA TalliesFrame ==
    ASSUME TalliesInv, request' = request, work' = work,
           step' \notin {"ask", "digest", "commit", "saveRs"},
           step' = "save" => step = "commit"
    PROVE  TalliesInv'
BY DEF TalliesInv, Counted, TasksOfBatch, Terminal, Tasks

(* One batch more has been counted, or the benchmark of an RS run.          *)
LEMMA DigestCounts ==
    ASSUME Members \in Nat, MaxIntervals \in Nat, Types, LeftInv, TalliesInv, Digest
    PROVE  TalliesInv'
<1>0. /\ request \in Requests /\ work \in Works /\ request' = request
      /\ work.left # <<>> /\ step = "digest" /\ TasksOfBatch \in Nat
      /\ step' \in {"CANCELED", "FAILED", "compute", "fetch"}
  BY DEF Types, Digest, DigestRs, DigestIntervals, Proposes, Following, LeftInv, TasksOfBatch
<1> DEFINE counts == request.kind = "rs" => Head(work.left) # "benchmark"
<1>1. counts \in BOOLEAN /\ Taken(counts)
  BY DEF Digest, DigestRs, DigestIntervals
<1> HIDE DEF counts
<1>2. /\ work' \in Works
      /\ work'.left = Tail(work.left) /\ work'.source = work.source
      /\ work'.total = IF counts THEN Plus(work.total, work.answer) ELSE work.total
      /\ work'.used = IF work.answer.ok > 0 THEN work.used \cup {work.source} ELSE work.used
  BY <1>0, <1>1, TakenAdds
<1>3. /\ work.total \in Counts /\ work.answer \in Counts
      /\ Tasks(Plus(work.total, work.answer)) = Tasks(work.total) + Tasks(work.answer)
      /\ Plus(work.total, work.answer).ok = work.total.ok + work.answer.ok
  BY <1>0, PlusAdds DEF Works
<1>4. Tasks(work'.total) = TasksOfBatch * Counted'
  <2>1. CASE request.kind = "rs"
    <3>1. CASE work.left = <<"benchmark", "daily">>
      <4>1. Head(work.left) = "benchmark" /\ Tail(work.left) = <<"daily">>
        BY <3>1
      <4>2. ~counts
        BY <2>1, <4>1 DEF counts
      <4>3. Counted' = 0 /\ Counted = 0
        BY <1>0, <1>2, <2>1, <3>1, <4>1 DEF Counted
      <4> QED
        BY <1>2, <4>2, <4>3 DEF TalliesInv
    <3>2. CASE work.left = <<"daily">>
      <4>1. Head(work.left) = "daily" /\ Tail(work.left) = <<>>
        BY <3>2
      <4>2. counts
        BY <4>1 DEF counts
      <4>3. Counted' = 1 /\ Counted = 0
        BY <1>0, <1>2, <2>1, <3>2, <4>1 DEF Counted
      <4>4. Tasks(work.answer) = TasksOfBatch
        BY <1>0, <2>1, <4>1 DEF TalliesInv, Width, TasksOfBatch
      <4>5. Tasks(work.total) = 0
        BY <1>0, <4>3 DEF TalliesInv
      <4> QED
        BY <1>0, <1>2, <1>3, <4>2, <4>3, <4>4, <4>5
    <3> QED
      BY <1>0, <2>1, <3>1, <3>2 DEF LeftInv
  <2>2. CASE request.kind # "rs"
    <3>1. counts
      BY <2>2 DEF counts
    <3>2. /\ work.left \in Seq({"quant", "candles"}) /\ request.batches \in Seq(Market)
          /\ Len(work.left) <= Len(request.batches)
      BY <1>0, <2>2, RequestShape DEF LeftInv
    <3>3. /\ Len(work.left) \in Nat /\ Len(Tail(work.left)) = Len(work.left) - 1
          /\ Len(request.batches) \in Nat /\ Head(work.left) \in {"quant", "candles"}
      BY <1>0, <3>2, HeadTailProperties, LenProperties
    <3>4. Tasks(work.answer) = TasksOfBatch
      BY <1>0, <2>2, <3>3 DEF TalliesInv, Width, TasksOfBatch
    <3>5. /\ Counted = Len(request.batches) - Len(work.left)
          /\ Counted' = Len(request.batches) - Len(Tail(work.left))
      BY <1>0, <1>2, <2>2 DEF Counted
    <3>6. Counted \in Nat /\ Counted' = Counted + 1
      <4> DEFINE all == Len(request.batches)
                 left == Len(work.left)
                 next == Len(Tail(work.left))
      <4>1. all \in Nat /\ left \in Nat /\ left <= all /\ next = left - 1
        BY <3>2, <3>3
      <4>2. Counted = all - left /\ Counted' = all - next
        BY <3>5
      <4> HIDE DEF all, left, next
      <4>3. all - left \in Nat /\ all - (left - 1) = (all - left) + 1
        BY <4>1
      <4> QED
        BY <4>1, <4>2, <4>3
    <3>7. Tasks(work'.total) = Tasks(work.total) + TasksOfBatch
      BY <1>2, <1>3, <3>1, <3>4
    <3>8. \A w, k \in Nat : w * (k + 1) = w * k + w
      OBVIOUS
    <3>9. TasksOfBatch * (Counted + 1) = TasksOfBatch * Counted + TasksOfBatch
      BY <1>0, <3>6, <3>8
    <3> QED
      BY <3>6, <3>7, <3>9 DEF TalliesInv
  <2> QED
    BY <2>1, <2>2
<1>5. work'.used \subseteq {work'.source} /\ (work'.total.ok > 0 => work'.used = {work'.source})
  <2>1. work.total.ok \in Nat /\ work.answer.ok \in Nat
    BY <1>3 DEF Counts
  <2>2. work'.total.ok > 0 => work.total.ok > 0 \/ work.answer.ok > 0
    BY <1>2, <1>3, <2>1
  <2> QED
    BY <1>2, <2>2 DEF TalliesInv
<1>6. TasksOfBatch' = TasksOfBatch
  BY <1>0 DEF TasksOfBatch
<1> QED
  BY <1>0, <1>4, <1>5, <1>6 DEF TalliesInv, Tasks

LEMMA TalliesStep ==
    ASSUME Members \in Nat, MaxIntervals \in Nat, Types, LeftInv, TalliesInv, [Next]_vars
    PROVE  TalliesInv'
<1>0. request \in Requests /\ work \in Works /\ request' = request
  BY DEF Types, Next, PrepareRun, Reserve, Cancel, Freeze, Fetch, Decline, Accept, Restart, Digest,
         ComputeRs, ComputeIntervals, Summarize, EnterCommit, Save, SaveRs, HandlerRaises, Finish, vars
<1>1. CASE PrepareRun \/ Reserve
  <2>1. work' = work /\ step' \in {"done", "reserve", "freeze", "abandoned"}
    BY <1>1 DEF PrepareRun, Reserve
  <2> QED
    BY <1>0, <2>1, TalliesFrame
<1>2. CASE Cancel \/ UNCHANGED vars
  BY <1>2 DEF Cancel, vars, TalliesInv, Counted, TasksOfBatch, Terminal, Tasks, Width
<1>3. CASE Freeze
  <2>1. work' = work /\ step' \in {"FAILED", "CANCELED", "fetch"}
    BY <1>3 DEF Freeze, FreezeRs, FreezeTurning, FreezeDeviation, Frozen, Proposes
  <2> QED
    BY <1>0, <2>1, TalliesFrame
<1>4. CASE Fetch
  <2>1. PICK c \in Tallies(Width(Head(work.left))) : work' = [work EXCEPT !.answer = c]
    BY <1>4 DEF Fetch
  <2>2. c \in Counts /\ Tasks(c) = Width(Head(work.left))
    BY <2>1, TallyCounts DEF Width
  <2>3. /\ work'.left = work.left /\ work'.source = work.source /\ work'.total = work.total
        /\ work'.used = work.used /\ work'.answer = c
    BY <1>0, <2>1 DEF Works
  <2>4. step' \in {"ask", "digest"}
    BY <1>4 DEF Fetch, Proposes
  <2>5. Counted' = Counted /\ TasksOfBatch' = TasksOfBatch
    BY <1>0, <2>3 DEF Counted, TasksOfBatch
  <2>6. Tasks(work'.total) = TasksOfBatch' * Counted'
    BY <2>3, <2>5 DEF TalliesInv
  <2>7. Tasks(work'.answer) = Width(Head(work.left)) /\ Width(Head(work.left))' = Width(Head(work.left))
    BY <1>0, <2>2, <2>3 DEF Width
  <2> QED
    BY <2>3, <2>4, <2>6, <2>7 DEF TalliesInv, Tasks
<1>5. CASE Decline
  BY <1>5 DEF Decline, Proposes, TalliesInv, Counted, TasksOfBatch, Tasks, Width
<1>6. CASE Accept
  <2>1. /\ work' = Fresh(request.batches, "yahoo") /\ step' = "freeze"
    BY <1>6 DEF Accept, Restart, Proposes
  <2>2. /\ work' \in Works /\ work'.left = request.batches /\ work'.total = Nothing
        /\ work'.used = {}
    BY <1>0, <2>1, FreshIsWork
  <2>3. Counted' = 0 /\ TasksOfBatch' \in Nat
    BY <1>0, <2>2, RequestShape DEF Counted, TasksOfBatch
  <2> QED
    BY <2>1, <2>2, <2>3, NothingIsEmpty DEF TalliesInv, Tasks
<1>7. CASE Digest
  BY <1>7, DigestCounts
<1>8. CASE ComputeRs \/ ComputeIntervals
  <2>1. /\ work' \in Works
        /\ work'.left = work.left /\ work'.source = work.source
        /\ work'.used = work.used /\ work'.answer = work.answer
        /\ Tasks(work'.total) = Tasks(work.total)
        /\ work'.total.ok <= work.total.ok
    BY <1>0, <1>8, LosesNoTask DEF ComputeRs, ComputeIntervals, Works, Counts
  <2>2. step' \in {"CANCELED", "FAILED", "summary"}
    BY <1>8 DEF ComputeRs, ComputeIntervals, Proposes
  <2>3. Counted' = Counted /\ TasksOfBatch' = TasksOfBatch
    BY <1>0, <2>1 DEF Counted, TasksOfBatch
  <2>4. work'.total.ok > 0 => work.total.ok > 0
    BY <1>0, <2>1 DEF Works, Counts
  <2> QED
    BY <2>1, <2>2, <2>3, <2>4 DEF TalliesInv, Tasks
<1>9. CASE Summarize
  <2>1. work' = work /\ step' \in {"CANCELED", "FAILED", "saveRs", "commit"}
    BY <1>9 DEF Summarize, SummarizeRs, SummarizeTurning, SummarizeDeviation, Proposes
  <2>2. step' \in {"saveRs", "commit"} =>
           work.total.ok > 0 /\ (Terminal(work.total) # "FAILED" \/ request.kind = "single")
    BY <1>9 DEF Summarize, SummarizeRs, SummarizeTurning, SummarizeDeviation, Proposes, ShouldSave
  <2> QED
    BY <1>0, <2>1, <2>2 DEF TalliesInv, Counted, TasksOfBatch, Terminal, Tasks
<1>10. CASE EnterCommit
  <2>1. work' = work /\ step = "commit" /\ step' \in {"CANCELED", "save"}
    BY <1>10 DEF EnterCommit, Proposes
  <2> QED
    BY <1>0, <2>1, TalliesFrame
<1>11. CASE Save \/ SaveRs \/ HandlerRaises \/ Finish
  <2>1. work' = work /\ step' \in Statuses \cup {"done"}
    BY <1>11 DEF Save, SaveRs, HandlerRaises, Finish, Proposes, ReadyStatus, Statuses
  <2> QED
    BY <1>0, <2>1, TalliesFrame DEF Statuses
<1> QED
  BY <1>1, <1>2, <1>3, <1>4, <1>5, <1>6, <1>7, <1>8, <1>9, <1>10, <1>11 DEF Next

-----------------------------------------------------------------------------
(* What is saved.                                                           *)

LEMMA EnoughSucceeded ==
    ASSUME NEW c \in Counts
    PROVE  /\ Terminal(c) # "FAILED" => c.ok * 5 >= Tasks(c) * 4
           /\ Terminal(c) = "READY" => c.ok = Tasks(c)
<1>1. c.ok \in Nat /\ Tasks(c) \in Nat
  BY DEF Counts, Tasks
<1> QED
  BY <1>1 DEF Terminal, Rated

LEMMA SavedIsWhole ==
    ASSUME Members \in Nat, MaxIntervals \in Nat, Types, LeftInv, TalliesInv, AskInv,
           step \in {"save", "saveRs"}
    PROVE  /\ Saved.tasks = Planned
           /\ Cardinality(Saved.sources) = 1
           /\ "yahoo" \in Saved.sources <=> request.forced \/ session.answer = "yes"
           /\ Saved.ok > 0 /\ (Saved.ok * 5 >= Saved.tasks * 4 \/ request.kind = "single")
           /\ ReadyStatus \in {"READY", "PARTIAL"}
           /\ ReadyStatus = "READY" => Saved.ok = Saved.tasks
<1>0. /\ request \in Requests /\ work \in Works /\ work.left = <<>>
      /\ Saved.ok = work.total.ok /\ Saved.tasks = Tasks(work.total) /\ Saved.sources = work.used
  BY DEF Types, LeftInv, Saved
<1>1. Saved.tasks = Planned
  <2>1. CASE request.kind = "rs"
    <3>1. Len(Tail(request.batches)) = 1
      <4>1. request.batches = <<"benchmark", "daily">>
        BY <2>1 DEF LeftInv
      <4> QED
        BY <4>1
    <3>2. Counted = 1
      BY <1>0, <2>1 DEF Counted
    <3> QED
      BY <1>0, <2>1, <3>1, <3>2 DEF TalliesInv, TasksOfBatch, Planned
  <2>2. CASE request.kind # "rs"
    <3>1. Counted = Len(request.batches)
      <4>1. Len(request.batches) \in Nat /\ Len(work.left) = 0
        BY <1>0, RequestShape, EmptySeq
      <4> QED
        BY <2>2, <4>1 DEF Counted
    <3> QED
      BY <1>0, <2>2, <3>1 DEF TalliesInv, TasksOfBatch, Planned
  <2> QED
    BY <2>1, <2>2
<1>2. work.total.ok > 0 /\ work.used = {work.source}
  BY DEF TalliesInv
<1>3. Cardinality(Saved.sources) = 1
  BY <1>0, <1>2, FS_Singleton
<1>4. "yahoo" \in Saved.sources <=> request.forced \/ session.answer = "yes"
  BY <1>0, <1>2 DEF AskInv
<1>5. work.total \in Counts
  BY <1>0 DEF Works
<1>6. Saved.ok * 5 >= Saved.tasks * 4 \/ request.kind = "single"
  BY <1>0, <1>5, EnoughSucceeded DEF TalliesInv
<1>7. ReadyStatus \in {"READY", "PARTIAL"} /\ (ReadyStatus = "READY" => Saved.ok = Saved.tasks)
  BY <1>0, <1>5, EnoughSucceeded DEF ReadyStatus
<1> QED
  BY <1>0, <1>1, <1>2, <1>3, <1>4, <1>6, <1>7

LEMMA SavingStores ==
    ASSUME Members \in Nat, MaxIntervals \in Nat, Types, LeftInv, TalliesInv, AskInv, OpInv, StoredInv,
           Save \/ SaveRs
    PROVE  StoredInv'
<1>0. /\ step \in {"save", "saveRs"} /\ told = "none" /\ told' = told /\ stored = {}
      /\ UNCHANGED <<request, session>>
  BY DEF Save, SaveRs, OpInv, StoredInv
<1>1. CASE stored' = {Saved} /\ step' = ReadyStatus
  <2>1. StoredIsWhole'
    BY <1>0, <1>1, SavedIsWhole DEF StoredIsWhole, Planned
  <2> QED
    BY <1>0, <1>1, <2>1, SavedIsWhole DEF StoredInv
<1>2. CASE stored' = stored /\ step' \in {"FAILED", "CANCELED"}
  BY <1>0, <1>2 DEF StoredInv, StoredIsWhole
<1> QED
  BY <1>1, <1>2 DEF Save, SaveRs, Proposes

LEMMA StoredStep ==
    ASSUME Members \in Nat, MaxIntervals \in Nat, Types, LeftInv, TalliesInv, AskInv, OpInv, StoredInv,
           [Next]_vars
    PROVE  StoredInv'
<1>1. CASE Save \/ SaveRs
  BY <1>1, SavingStores
<1>2. CASE Decline \/ Accept
  <2>1. /\ step = "ask" /\ told' = told /\ stored' = stored /\ told = "none"
        /\ step' \in {"digest", "freeze"}
    BY <1>2 DEF Decline, Accept, Restart, Proposes, OpInv
  <2>2. stored = {}
    BY <2>1 DEF StoredInv
  <2> QED
    BY <2>1, <2>2 DEF StoredInv, StoredIsWhole
<1>3. CASE Finish
  <2>1. /\ step \in Statuses /\ step' = "done" /\ UNCHANGED <<request, session, stored>>
        /\ told' = (IF op = "CANCELED" THEN "CANCELED" ELSE step)
        /\ told = "none"
    BY <1>3 DEF Finish, Canceled, Statuses, OpInv
  <2>2. step \in {"READY", "PARTIAL"} => op # "CANCELED"
    BY DEF OpInv
  <2>3. StoredIsWhole'
    BY <2>1 DEF StoredInv, StoredIsWhole, Planned
  <2>4. stored' # {} <=> told' \in {"READY", "PARTIAL"}
    BY <2>1, <2>2 DEF StoredInv
  <2>5. told' = "READY" => \A s \in stored' : s.ok = s.tasks
    BY <2>1 DEF StoredInv
  <2> QED
    BY <2>1, <2>3, <2>4, <2>5 DEF StoredInv
<1>4. CASE PrepareRun \/ Reserve
  <2>1. /\ step \in {"storage", "reserve"} /\ UNCHANGED <<request, session, stored>>
        /\ told = "none" /\ told' \in {"none", "FAILED"}
        /\ step' \in {"reserve", "freeze", "done", "abandoned"}
    BY <1>4 DEF PrepareRun, Reserve, OpInv
  <2> QED
    BY <2>1 DEF StoredInv, StoredIsWhole, Planned
<1>5. CASE Cancel \/ UNCHANGED vars
  BY <1>5 DEF Cancel, vars, StoredInv, StoredIsWhole, Planned
<1>6. CASE Freeze \/ Fetch \/ Digest \/ ComputeRs \/ ComputeIntervals \/ Summarize
           \/ EnterCommit \/ HandlerRaises
  <2>1. UNCHANGED <<request, session, stored, told>> /\ step \notin {"READY", "PARTIAL"}
    BY <1>6 DEF Freeze, Fetch, Digest, ComputeRs, ComputeIntervals, Summarize, EnterCommit,
                HandlerRaises
  <2>2. step' \notin {"READY", "PARTIAL"}
    <3>1. CASE Freeze
      BY <3>1 DEF Freeze, FreezeRs, FreezeTurning, FreezeDeviation, Frozen, Proposes
    <3>2. CASE Fetch \/ EnterCommit \/ HandlerRaises \/ ComputeRs \/ ComputeIntervals
      BY <3>2 DEF Fetch, EnterCommit, HandlerRaises, ComputeRs, ComputeIntervals, Proposes
    <3>3. CASE Digest \/ Summarize
      BY <3>3 DEF Digest, DigestRs, DigestIntervals, Following, Summarize, SummarizeRs,
                  SummarizeTurning, SummarizeDeviation, Proposes
    <3> QED
      BY <1>6, <3>1, <3>2, <3>3
  <2> QED
    BY <2>1, <2>2 DEF StoredInv, StoredIsWhole, Planned
<1> QED
  BY <1>1, <1>2, <1>3, <1>4, <1>5, <1>6 DEF Next

-----------------------------------------------------------------------------
(* The invariant of a run.                                                  *)
LEMMA RunInit ==
    ASSUME Members \in Nat, MaxIntervals \in Nat, Init
    PROVE  IInv
<1>1. /\ request \in Requests /\ step = "storage" /\ stored = {} /\ told = "none"
  BY DEF Init
<1>2. /\ work \in Works /\ work.left = request.batches /\ work.total = Nothing /\ work.used = {}
  BY FreshIsWork DEF Init
<1>3. TalliesInv
  BY <1>1, <1>2, NothingCounted
<1>4. StoredInv
  BY <1>1 DEF StoredInv, StoredIsWhole
<1> QED
  BY <1>3, <1>4, InitTypes, InitLeft, InitAskAndOp DEF IInv

LEMMA RunStep ==
    ASSUME Members \in Nat, MaxIntervals \in Nat, IInv, [Next]_vars
    PROVE  IInv'
BY TypesStep, LeftStep, TalliesStep, AskStep, OpStep, StoredStep DEF IInv

THEOREM RunInvariant ==
    ASSUME Members \in Nat, MaxIntervals \in Nat
    PROVE  Spec => []IInv
<1>1. Init => IInv
  BY RunInit
<1>2. IInv /\ [Next]_vars => IInv'
  BY RunStep
<1> QED
  BY <1>1, <1>2, PTL DEF Spec

LEMMA RunKeeps == IInv => RunKeepsItsWord
<1> SUFFICES ASSUME IInv PROVE RunKeepsItsWord
  OBVIOUS
<1>1. StoredIsWhole
  BY DEF IInv, StoredInv
<1>2. AskedOnce
  BY DEF IInv, AskInv, AskedOnce
<1>3. ToldTheTruth
  <2>1. told # "none" => step \in {"done", "abandoned"}
    BY DEF IInv, OpInv
  <2> QED
    BY <2>1 DEF IInv, OpInv, StoredInv, ToldTheTruth
<1> QED
  BY <1>1, <1>2, <1>3 DEF RunKeepsItsWord

(* A run in the history has every task of its request, of one source, and   *)
(* Yahoo's only when the user took it; the user is asked once; and the      *)
(* caller is told what the history and the registry say (composition.py     *)
(* run, run_turning_point, run_extreme_deviation and the three services).   *)
THEOREM RunIsHonest ==
    ASSUME Members \in Nat, MaxIntervals \in Nat
    PROVE  Spec => []RunKeepsItsWord
BY RunKeeps, RunInvariant, PTL

-----------------------------------------------------------------------------
(* No batch brings more than the pool has, and all of them together no more *)
(* than the request asks for.                                               *)
AnswerInv == Tasks(work.answer) <= Members

LEMMA RunAnswerInit ==
    ASSUME Members \in Nat \ {0}, Init
    PROVE  AnswerInv
BY NothingIsEmpty DEF Init, Fresh, AnswerInv

LEMMA RunAnswerStep ==
    ASSUME Members \in Nat \ {0}, MaxIntervals \in Nat, Types, LeftInv, AnswerInv, [Next]_vars
    PROVE  AnswerInv'
<1>0. request \in Requests /\ work \in Works
  BY DEF Types
<1>1. CASE Fetch
  <2>1. PICK c \in Tallies(Width(Head(work.left))) : work' = [work EXCEPT !.answer = c]
    BY <1>1 DEF Fetch
  <2>2. Tasks(c) = Width(Head(work.left)) /\ work'.answer = c
    BY <1>0, <2>1, TallyCounts DEF Width, Works
  <2> QED
    BY <2>2 DEF AnswerInv, Width
<1>2. CASE Accept
  BY <1>2, NothingIsEmpty DEF Accept, Restart, Fresh, AnswerInv
<1>3. CASE Digest
  <2>1. work'.answer = Nothing
    BY <1>0, <1>3 DEF Digest, DigestRs, DigestIntervals, Taken, Works
  <2> QED
    BY <2>1, NothingIsEmpty DEF AnswerInv
<1>4. CASE ComputeRs \/ ComputeIntervals
  BY <1>0, <1>4, LosesNoTask DEF ComputeRs, ComputeIntervals, AnswerInv
<1>5. CASE UNCHANGED work
  BY <1>5 DEF AnswerInv
<1> QED
  BY <1>1, <1>2, <1>3, <1>4, <1>5
     DEF Next, PrepareRun, Reserve, Cancel, Freeze, Decline, Summarize, EnterCommit, Save, SaveRs,
         HandlerRaises, Finish, vars

LEMMA ProductsAreMonotone ==
    ASSUME NEW a \in Nat, NEW b \in Nat, NEW m \in Nat, NEW n \in Nat, a <= m, b <= n
    PROVE  a * b <= m * n
<1>1. a * b <= m * b
  OBVIOUS
<1>2. m * b <= m * n
  OBVIOUS
<1>3. a * b \in Nat /\ m * b \in Nat /\ m * n \in Nat
  OBVIOUS
<1> QED
  BY <1>1, <1>2, <1>3

LEMMA RunTypes ==
    ASSUME Members \in Nat \ {0}, MaxIntervals \in Nat \ {0}, IInv, AnswerInv
    PROVE  TypeOK
<1>1. request \in Requests /\ work \in Works
  BY DEF IInv, Types
<1>2. Counted \in Nat /\ Counted <= MaxIntervals
  <2>1. CASE request.kind = "rs"
    BY <2>1 DEF Counted
  <2>2. CASE request.kind # "rs"
    <3>1. Len(request.batches) \in Nat /\ Len(request.batches) <= MaxIntervals
      BY <1>1, <2>2, BatchesAreBounded
    <3>2. Len(work.left) \in Nat /\ Len(work.left) <= Len(request.batches)
      BY <1>1, LenProperties DEF Works, IInv, LeftInv
    <3> HIDE DEF IInv
    <3> QED
      BY <2>2, <3>1, <3>2 DEF Counted
  <2> QED
    BY <2>1, <2>2
<1>3. TasksOfBatch \in Nat /\ TasksOfBatch <= Members
  BY DEF TasksOfBatch
<1>4. TasksOfBatch * Counted <= Members * MaxIntervals
  BY <1>2, <1>3, ProductsAreMonotone
<1>5. Tasks(work.total) <= Members * MaxIntervals
  BY <1>4 DEF IInv, TalliesInv
<1> QED
  BY <1>5 DEF IInv, Types, LeftInv, AnswerInv, TypeOK

(* Type correctness of a run: every tally is of a batch of the pool, and    *)
(* the tasks counted are never more than those of the request.              *)
THEOREM RunTypeCorrect ==
    ASSUME Members \in Nat \ {0}, MaxIntervals \in Nat \ {0}
    PROVE  Spec => []TypeOK
<1> DEFINE Inv == IInv /\ AnswerInv
<1>1. Init => Inv
  BY RunInit, RunAnswerInit
<1>2. Inv /\ [Next]_vars => Inv'
  BY RunStep, RunAnswerStep DEF IInv
<1>3. Inv => TypeOK
  BY RunTypes
<1> QED
  BY <1>1, <1>2, <1>3, PTL DEF Spec
=============================================================================
