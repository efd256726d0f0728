-------------------------- MODULE OperationLifecycle --------------------------
(* What core/operations/registry.py promises of one operation, with the     *)
(* threads, notifications and execution boundaries left out: a pending      *)
(* operation is decided exactly once, by a cancellation or by entering its  *)
(* commit, and a committing operation can only succeed or fail.             *)

CONSTANT Ops

VARIABLES phase, accepting

lifecycleVars == <<phase, accepting>>

Outcomes == {"SUCCEEDED", "FAILED", "CANCELED"}

Init ==
    /\ phase = [o \in Ops |-> "none"]
    /\ accepting = TRUE

Submit(o) ==
    /\ accepting
    /\ phase[o] = "none"
    /\ phase' = [phase EXCEPT ![o] = "pending"]
    /\ UNCHANGED accepting

EnterCommit(o) ==
    /\ phase[o] = "pending"
    /\ phase' = [phase EXCEPT ![o] = "committing"]
    /\ UNCHANGED accepting

(* A cancellation is the decision CANCELED, made by anybody while pending.  *)
Decide(o, outcome) ==
    /\ \/ phase[o] = "pending"
       \/ phase[o] = "committing" /\ outcome # "CANCELED"
    /\ phase' = [phase EXCEPT ![o] = outcome]
    /\ UNCHANGED accepting

SetAdmission(open) ==
    /\ accepting' = open
    /\ UNCHANGED phase

Next ==
    \/ \E o \in Ops : \/ Submit(o)
                      \/ EnterCommit(o)
                      \/ \E outcome \in Outcomes : Decide(o, outcome)
    \/ \E open \in BOOLEAN : SetAdmission(open)

Spec == Init /\ [][Next]_lifecycleVars
=============================================================================
