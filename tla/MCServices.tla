------------------------------ MODULE MCServices ------------------------------
(* The services on small instances.                                         *)
EXTENDS Services

\* the program of "old" ends with the second migration
MCKnown == [p \in Processes |-> IF p = "old" THEN 2 ELSE Latest]

(* Where the run stops looking further: at an operation that would build    *)
(* more adapters than may be built, at a third pair of an endpoint and its  *)
(* key, and when the threads have logged four events and commands together. *)
MCBound ==
    /\ part = "settings" /\ v4.made = MaxBuilds =>
          \A t \in DOMAIN v5 : \A j \in DOMAIN v5[t].todo : v5[t].todo[j] # "build"
    /\ part = "ai" => Cardinality(v3) <= 2
    /\ part = "log" => v6["t1"].next + v6["t2"].next <= 5
=============================================================================
