--------------------------- MODULE CircuitBreaker ---------------------------
(***************************************************************************)
(* The circuit breakers of internal/providers/errors.go: one breaker per   *)
(* provider, kept by CircuitBreakerManager.                                *)
(*                                                                         *)
(* Every method of the manager runs under cbm.mu, so each one is a single  *)
(* action.  A provider without an entry in cbm.breakers answers every      *)
(* method exactly as a fresh closed breaker would, so an absent entry and  *)
(* NewBreaker are the same state here.                                     *)
(*                                                                         *)
(* Wall-clock time is modelled by what is left of openUntil: openLeft      *)
(* counts down, and time.Now().After(openUntil) is openLeft = 0.           *)
(***************************************************************************)
EXTENDS Integers

CONSTANTS
    Providers,         \* the providers that may have a breaker
    FailureThreshold,  \* config.FailureThreshold (after its default)
    SuccessThreshold,  \* config.SuccessThreshold (after its default)
    OpenTimeout,       \* config.OpenTimeout, in ticks
    MaxFailures        \* bound: failures recorded on one breaker in a row

ASSUME ThresholdsPositive ==
    /\ FailureThreshold \in Nat \ {0}
    /\ SuccessThreshold \in Nat \ {0}
    /\ OpenTimeout \in Nat \ {0}

VARIABLE breaker   \* cbm.breakers

vars == breaker

Phase == {"Closed", "Open", "HalfOpen"}

Breaker == [state : Phase, failureCount : Nat, successCount : Nat,
            openLeft : 0..OpenTimeout]

NewBreaker == [state |-> "Closed", failureCount |-> 0, successCount |-> 0,
               openLeft |-> 0]

TypeOK == breaker \in [Providers -> Breaker]

Init == breaker = [p \in Providers |-> NewBreaker]

-----------------------------------------------------------------------------
(* IsOpen both answers and moves: the first caller after the timeout turns *)
(* the breaker half-open and is let through.                               *)

(* Mutant: the timeout is looked for in the wrong state. *)
ExpiredWrongState(b) == b.state = "HalfOpen" /\ b.openLeft = 0

Expired(b) == b.state = "Open" /\ b.openLeft = 0

AfterLook(b) == IF Expired(b)
                THEN [b EXCEPT !.state = "HalfOpen", !.failureCount = 0]
                ELSE b

Refuses(b) == AfterLook(b).state = "Open"

IsOpen(p, answer) ==
    /\ answer = Refuses(breaker[p])
    /\ breaker' = [breaker EXCEPT ![p] = AfterLook(@)]

(* Mutants: a success closes an open breaker; one success is enough. *)
AfterSuccessAnyState(b) ==
    [b EXCEPT !.state = "Closed", !.failureCount = 0, !.successCount = 0]

AfterSuccessAtOnce(b) == IF b.state = "Open" THEN b ELSE AfterSuccessAnyState(b)

(* In half-open, successes are counted up to SuccessThreshold; in closed,  *)
(* a success wipes both counters; in open it is ignored.                   *)
AfterSuccess(b) ==
    CASE b.state = "HalfOpen" ->
            IF b.successCount + 1 >= SuccessThreshold
            THEN [b EXCEPT !.state = "Closed", !.failureCount = 0,
                           !.successCount = 0]
            ELSE [b EXCEPT !.successCount = @ + 1]
      [] b.state = "Closed" ->
            [b EXCEPT !.failureCount = 0, !.successCount = 0]
      [] OTHER -> b

RecordSuccess(p) ==
    breaker' = [breaker EXCEPT ![p] = AfterSuccess(@)]

(* Mutant: the threshold has to be passed, not reached. *)
AfterFailureBeyond(b) ==
    IF b.failureCount + 1 > FailureThreshold
    THEN [b EXCEPT !.failureCount = @ + 1, !.state = "Open",
                   !.openLeft = OpenTimeout]
    ELSE [b EXCEPT !.failureCount = @ + 1]

(* A failure counts in every state, an open breaker included, and reaching *)
(* the threshold (re)arms the timeout.  successCount is left as it is.     *)
AfterFailure(b) ==
    IF b.failureCount + 1 >= FailureThreshold
    THEN [b EXCEPT !.failureCount = @ + 1, !.state = "Open",
                   !.openLeft = OpenTimeout]
    ELSE [b EXCEPT !.failureCount = @ + 1]

RecordFailure(p) ==
    breaker' = [breaker EXCEPT ![p] = AfterFailure(@)]

(* The dashboard's view: GetState makes the same move as IsOpen.           *)
GetState(p, answer) ==
    /\ answer = AfterLook(breaker[p]).state
    /\ breaker' = [breaker EXCEPT ![p] = AfterLook(@)]

Reset(p) == breaker' = [breaker EXCEPT ![p] = NewBreaker]

\* Engine.Reconfigure installs a new manager: every breaker is forgotten.
Renew == breaker' = [p \in Providers |-> NewBreaker]

\* One unit of wall-clock time.
Tick ==
    breaker' = [p \in Providers |->
                  [breaker[p] EXCEPT !.openLeft = IF @ = 0 THEN 0 ELSE @ - 1]]

-----------------------------------------------------------------------------
Step(p) ==
    \/ \E answer \in BOOLEAN : IsOpen(p, answer)
    \/ RecordSuccess(p)
    \/ breaker[p].failureCount < MaxFailures /\ RecordFailure(p)
    \/ \E answer \in Phase : GetState(p, answer)
    \/ Reset(p)

Next == Renew \/ Tick \/ \E p \in Providers : Step(p)

Spec == Init /\ [][Next]_vars

-----------------------------------------------------------------------------
(* A breaker is open exactly while its failures have reached the           *)
(* threshold, and only an episode of trial may leave successes behind: no  *)
(* order of looks, successes and failures leaves a breaker that admits     *)
(* although it failed too often, or a closed one with credit.              *)
CountersMatchState ==
    \A p \in Providers :
      /\ breaker[p].state = "Open" <=>
           breaker[p].failureCount >= FailureThreshold
      /\ breaker[p].successCount < SuccessThreshold
      /\ breaker[p].state = "Closed" => breaker[p].successCount = 0

(* The gate a caller sees: the states without the counters. *)
Gate == INSTANCE ProviderGate WITH
          Quiet <- OpenTimeout,
          gate <- [p \in Providers |-> breaker[p].state],
          quiet <- [p \in Providers |-> breaker[p].openLeft]

(* The breakers implement the gate: they open only by failing, stay shut   *)
(* for the whole timeout after the last failure, and close only from a     *)
(* half-open trial.                                                        *)
ImplementsGate == Gate!Spec

=============================================================================
