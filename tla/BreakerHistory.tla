--------------------------- MODULE BreakerHistory ---------------------------
(***************************************************************************)
(* CircuitBreaker with a history variable: for each provider, the          *)
(* successes recorded in half-open since its breaker was last closed.      *)
(***************************************************************************)
EXTENDS CircuitBreaker

VARIABLE earned

histVars == <<breaker, earned>>

HistInit == Init /\ earned = [p \in Providers |-> 0]

Forget(p) == earned' = [earned EXCEPT ![p] = 0]

Succeeds(p) ==
    /\ RecordSuccess(p)
    /\ IF breaker[p].state = "HalfOpen"
       THEN earned' = [earned EXCEPT ![p] = @ + 1]
       ELSE UNCHANGED earned

Fails(p) ==
    /\ breaker[p].failureCount < MaxFailures
    /\ RecordFailure(p)
    /\ IF breaker[p].state = "Closed" THEN Forget(p) ELSE UNCHANGED earned

Looks(p) ==
    /\ \/ \E answer \in BOOLEAN : IsOpen(p, answer)
       \/ \E answer \in Phase : GetState(p, answer)
    /\ UNCHANGED earned

HistTick == Tick /\ UNCHANGED earned

HistStep ==
    \/ Renew /\ earned' = [p \in Providers |-> 0]
    \/ \E p \in Providers :
         Succeeds(p) \/ Looks(p) \/ Fails(p) \/ (Reset(p) /\ Forget(p))

HistNext == HistTick \/ HistStep

HistSpec == HistInit /\ [][HistNext]_histVars

Closes(p) == breaker[p].state = "HalfOpen" /\ breaker'[p].state = "Closed"

(* A breaker leaves its trial only after SuccessThreshold successes in     *)
(* half-open since it was last closed, or by being set up anew.            *)
ClosingIsEarned ==
    [][\A p \in Providers :
         Closes(p) => \/ earned'[p] >= SuccessThreshold
                      \/ (Reset(p) \/ Renew) /\ earned'[p] = 0]_histVars

=============================================================================
