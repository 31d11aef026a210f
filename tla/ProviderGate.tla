---------------------------- MODULE ProviderGate ----------------------------
(***************************************************************************)
(* What a circuit breaker promises its users, without its counters: a gate *)
(* per provider that admits, refuses or is on trial.  A tripped gate       *)
(* refuses for Quiet ticks after the last time it was tripped, can then    *)
(* only go on trial, and admits freely again only from a trial (or when it *)
(* is set up anew).  CircuitBreaker implements it.                         *)
(***************************************************************************)
EXTENDS Integers

CONSTANTS Providers, Quiet

VARIABLES gate, quiet

gateVars == <<gate, quiet>>

Init ==
    /\ gate = [p \in Providers |-> "Closed"]
    /\ quiet = [p \in Providers |-> 0]

Trip(p) ==
    /\ gate' = [gate EXCEPT ![p] = "Open"]
    /\ quiet' = [quiet EXCEPT ![p] = Quiet]

Try(p) ==
    /\ gate[p] = "Open" /\ quiet[p] = 0
    /\ gate' = [gate EXCEPT ![p] = "HalfOpen"]
    /\ UNCHANGED quiet

Trust(p) ==
    /\ gate[p] = "HalfOpen"
    /\ gate' = [gate EXCEPT ![p] = "Closed"]
    /\ UNCHANGED quiet

SetUp(p) ==
    /\ gate' = [gate EXCEPT ![p] = "Closed"]
    /\ quiet' = [quiet EXCEPT ![p] = 0]

SetUpAll ==
    /\ gate' = [p \in Providers |-> "Closed"]
    /\ quiet' = [p \in Providers |-> 0]

Pass ==
    /\ quiet' = [p \in Providers |-> IF quiet[p] = 0 THEN 0 ELSE quiet[p] - 1]
    /\ UNCHANGED gate

Next ==
    \/ SetUpAll \/ Pass
    \/ \E p \in Providers : Trip(p) \/ Try(p) \/ Trust(p) \/ SetUp(p)

Spec == Init /\ [][Next]_gateVars

=============================================================================
