------------------------- MODULE CircuitBreakerProofs -----------------------
(***************************************************************************)
(* What CircuitBreaker keeps for every set of providers, every threshold   *)
(* and every timeout: its types, the agreement of state and counters, and  *)
(* the gate of ProviderGate.  MaxFailures, the bound of the model-checking *)
(* runs, plays no part: the theorems hold whatever it is.                  *)
(***************************************************************************)
EXTENDS CircuitBreaker, TLAPS

(* The two invariants, for one breaker. *)
Sound(b) ==
    /\ b.state = "Open" <=> b.failureCount >= FailureThreshold
    /\ b.successCount < SuccessThreshold
    /\ b.state = "Closed" => b.successCount = 0

-----------------------------------------------------------------------------
(* What each pure step does to one breaker. *)

LEMMA NewBreakerSound == NewBreaker \in Breaker /\ Sound(NewBreaker)
BY ThresholdsPositive DEF NewBreaker, Breaker, Phase, Sound

LEMMA LookSound ==
  ASSUME NEW b \in Breaker
  PROVE  /\ AfterLook(b) \in Breaker
         /\ Sound(b) => Sound(AfterLook(b))
<1>1. CASE Expired(b)
  <2> DEFINE c == [b EXCEPT !.state = "HalfOpen", !.failureCount = 0]
  <2>1. AfterLook(b) = c
    BY <1>1 DEF AfterLook
  <2>2. c \in Breaker
    BY DEF Breaker, Phase
  <2>3. c.state = "HalfOpen" /\ c.failureCount = 0 /\ c.successCount = b.successCount
    BY DEF Breaker
  <2>4. Sound(b) => Sound(c)
    BY <2>3, ThresholdsPositive DEF Sound
  <2> QED BY <2>1, <2>2, <2>4
<1>2. CASE ~Expired(b)
  BY <1>2 DEF AfterLook
<1> QED BY <1>1, <1>2

LEMMA SuccessSound ==
  ASSUME NEW b \in Breaker
  PROVE  /\ AfterSuccess(b) \in Breaker
         /\ Sound(b) => Sound(AfterSuccess(b))
<1>1. CASE b.state = "HalfOpen" /\ b.successCount + 1 >= SuccessThreshold
  <2> DEFINE c == [b EXCEPT !.state = "Closed", !.failureCount = 0,
                            !.successCount = 0]
  <2>1. AfterSuccess(b) = c
    BY <1>1 DEF AfterSuccess
  <2>2. c \in Breaker
    BY DEF Breaker, Phase
  <2>3. c.state = "Closed" /\ c.failureCount = 0 /\ c.successCount = 0
    BY DEF Breaker
  <2>4. Sound(c)
    BY <2>3, ThresholdsPositive DEF Sound
  <2> QED BY <2>1, <2>2, <2>4
<1>4. CASE b.state = "HalfOpen" /\ ~(b.successCount + 1 >= SuccessThreshold)
  <2> DEFINE c == [b EXCEPT !.successCount = @ + 1]
  <2>1. AfterSuccess(b) = c
    BY <1>4 DEF AfterSuccess
  <2>2. c \in Breaker
    BY DEF Breaker
  <2>3. /\ c.state = b.state /\ c.failureCount = b.failureCount
        /\ c.successCount = b.successCount + 1
    BY DEF Breaker
  <2>4. b.successCount \in Nat
    BY DEF Breaker
  <2> HIDE DEF c
  <2>5. Sound(b) => Sound(c)
    BY <2>3, <2>4, <1>4, ThresholdsPositive DEF Sound
  <2> QED BY <2>1, <2>2, <2>5
<1>2. CASE b.state = "Closed"
  <2> DEFINE c == [b EXCEPT !.failureCount = 0, !.successCount = 0]
  <2>1. AfterSuccess(b) = c
    BY <1>2 DEF AfterSuccess
  <2>2. c \in Breaker
    BY DEF Breaker
  <2>3. c.state = "Closed" /\ c.failureCount = 0 /\ c.successCount = 0
    BY <1>2 DEF Breaker
  <2> HIDE DEF c
  <2>4. Sound(c)
    BY <2>3, ThresholdsPositive DEF Sound
  <2> QED BY <2>1, <2>2, <2>4
<1>3. CASE b.state = "Open"
  BY <1>3 DEF AfterSuccess, Breaker, Phase, Sound
<1> QED BY <1>1, <1>2, <1>3, <1>4 DEF Breaker, Phase

LEMMA FailureSound ==
  ASSUME NEW b \in Breaker
  PROVE  /\ AfterFailure(b) \in Breaker
         /\ Sound(b) => Sound(AfterFailure(b))
<1> DEFINE c == AfterFailure(b)
<1>1. b.failureCount \in Nat /\ b.successCount \in Nat
  BY DEF Breaker
<1>2. CASE b.failureCount + 1 >= FailureThreshold
  <2>1. c = [b EXCEPT !.failureCount = @ + 1, !.state = "Open",
                      !.openLeft = OpenTimeout]
    BY <1>2 DEF AfterFailure
  <2>2. c \in Breaker
    <3>1. OpenTimeout \in 0..OpenTimeout
      BY ThresholdsPositive
    <3>2. b.failureCount + 1 \in Nat /\ "Open" \in Phase
      BY <1>1 DEF Phase
    <3>3. [b EXCEPT !.failureCount = b.failureCount + 1, !.state = "Open",
                    !.openLeft = OpenTimeout] \in Breaker
      <4> DEFINE n == b.failureCount + 1
      <4>1. n \in Nat
        BY <3>2
      <4> HIDE DEF n
      <4>2. [b EXCEPT !.failureCount = n, !.state = "Open",
                      !.openLeft = OpenTimeout] \in Breaker
        BY <3>1, <3>2, <4>1 DEF Breaker
      <4> QED BY <4>2 DEF n
    <3> QED BY <2>1, <3>3
  <2>3. /\ c.state = "Open" /\ c.failureCount = b.failureCount + 1
        /\ c.successCount = b.successCount
    BY <2>1 DEF Breaker
  <2> HIDE DEF c
  <2>4. Sound(b) => Sound(c)
    BY <2>3, <1>1, <1>2 DEF Sound
  <2> QED BY <2>2, <2>4 DEF c
<1>3. CASE ~(b.failureCount + 1 >= FailureThreshold)
  <2>1. c = [b EXCEPT !.failureCount = @ + 1]
    BY <1>3 DEF AfterFailure
  <2>2. c \in Breaker
    BY <2>1 DEF Breaker
  <2>3. /\ c.state = b.state /\ c.failureCount = b.failureCount + 1
        /\ c.successCount = b.successCount
    BY <2>1 DEF Breaker
  <2> HIDE DEF c
  <2>4. Sound(b) => Sound(c)
    BY <2>3, <1>1, <1>3, ThresholdsPositive DEF Sound
  <2> QED BY <2>2, <2>4 DEF c
<1> QED BY <1>2, <1>3

\* What Tick does to one breaker.
Older(b) == [b EXCEPT !.openLeft = IF @ = 0 THEN 0 ELSE @ - 1]

LEMMA OlderSound ==
  ASSUME NEW b \in Breaker
  PROVE  /\ Older(b) \in Breaker
         /\ Sound(b) => Sound(Older(b))
BY ThresholdsPositive DEF Older, Breaker, Phase, Sound

-----------------------------------------------------------------------------
IInv == TypeOK /\ \A p \in Providers : Sound(breaker[p])

LEMMA InitIInv == Init => IInv
BY NewBreakerSound DEF Init, IInv, TypeOK

(* One provider's breaker is replaced by a sound one. *)
LEMMA UpdateSound ==
  ASSUME NEW p \in Providers, NEW b \in Breaker, IInv, Sound(b),
         breaker' = [breaker EXCEPT ![p] = b]
  PROVE  IInv'
BY DEF IInv, TypeOK, Sound

LEMMA NextIInv == IInv /\ [Next]_vars => IInv'
<1> SUFFICES ASSUME IInv, [Next]_vars PROVE IInv'
  OBVIOUS
<1> USE DEF IInv, TypeOK
<1>1. CASE Renew
  BY <1>1, NewBreakerSound DEF Renew, Sound
<1>2. CASE Tick
  <2>1. breaker' = [p \in Providers |-> Older(breaker[p])]
    BY <1>2 DEF Tick, Older
  <2>2. \A p \in Providers : Older(breaker[p]) \in Breaker /\ Sound(Older(breaker[p]))
    BY OlderSound
  <2> QED BY <2>1, <2>2 DEF Sound
<1>3. ASSUME NEW p \in Providers, Step(p) PROVE IInv'
  <2> DEFINE b == breaker[p]
  <2>0. b \in Breaker /\ Sound(b)
    OBVIOUS
  <2>1. CASE \E answer \in BOOLEAN : IsOpen(p, answer)
    <3>1. breaker' = [breaker EXCEPT ![p] = AfterLook(b)]
      BY <2>1 DEF IsOpen
    <3>2. AfterLook(b) \in Breaker /\ Sound(AfterLook(b))
      BY <2>0, LookSound
    <3> QED BY <3>1, <3>2, UpdateSound
  <2>2. CASE RecordSuccess(p)
    <3>1. breaker' = [breaker EXCEPT ![p] = AfterSuccess(b)]
      BY <2>2 DEF RecordSuccess
    <3>2. AfterSuccess(b) \in Breaker /\ Sound(AfterSuccess(b))
      BY <2>0, SuccessSound
    <3> QED BY <3>1, <3>2, UpdateSound
  <2>3. CASE RecordFailure(p)
    <3>1. breaker' = [breaker EXCEPT ![p] = AfterFailure(b)]
      BY <2>3 DEF RecordFailure
    <3>2. AfterFailure(b) \in Breaker /\ Sound(AfterFailure(b))
      BY <2>0, FailureSound
    <3> QED BY <3>1, <3>2, UpdateSound
  <2>4. CASE \E answer \in Phase : GetState(p, answer)
    <3>1. breaker' = [breaker EXCEPT ![p] = AfterLook(b)]
      BY <2>4 DEF GetState
    <3>2. AfterLook(b) \in Breaker /\ Sound(AfterLook(b))
      BY <2>0, LookSound
    <3> QED BY <3>1, <3>2, UpdateSound
  <2>5. CASE Reset(p)
    BY <2>5, NewBreakerSound, UpdateSound DEF Reset
  <2> QED BY <1>3, <2>1, <2>2, <2>3, <2>4, <2>5 DEF Step
<1>4. CASE UNCHANGED vars
  BY <1>4 DEF vars, Sound
<1> QED BY <1>1, <1>2, <1>3, <1>4 DEF Next

LEMMA SpecIInv == Spec => []IInv
<1> QED BY InitIInv, NextIInv, PTL DEF Spec

(* Every reachable state is well typed. *)
THEOREM TypeCorrect == Spec => []TypeOK
<1>1. IInv => TypeOK
  BY DEF IInv
<1> QED BY <1>1, SpecIInv, PTL

(* A breaker is open exactly while its failures have reached the           *)
(* threshold, and only a half-open one has successes on its account, for   *)
(* any number of providers and any thresholds.                             *)
THEOREM CountersAgree == Spec => []CountersMatchState
<1>1. IInv => CountersMatchState
  BY DEF IInv, Sound, CountersMatchState
<1> QED BY <1>1, SpecIInv, PTL

-----------------------------------------------------------------------------
(* The refinement: what a caller sees of the breakers is the gate.         *)

gate == [p \in Providers |-> breaker[p].state]
quiet == [p \in Providers |-> breaker[p].openLeft]

(* Replacing one breaker replaces one entry of the gate. *)
LEMMA GateUpdate ==
  ASSUME TypeOK, NEW p \in Providers, NEW c \in Breaker,
         breaker' = [breaker EXCEPT ![p] = c]
  PROVE  /\ gate' = [gate EXCEPT ![p] = c.state]
         /\ quiet' = [quiet EXCEPT ![p] = c.openLeft]
BY DEF TypeOK, gate, quiet

LEMMA GateKept ==
  ASSUME TypeOK, NEW p \in Providers, NEW c \in Breaker,
         breaker' = [breaker EXCEPT ![p] = c],
         c.state = breaker[p].state, c.openLeft = breaker[p].openLeft
  PROVE  UNCHANGED <<gate, quiet>>
BY GateUpdate DEF TypeOK, gate, quiet

(* The gate's actions, with gate and quiet by name. *)
LEMMA GateActions ==
  ASSUME NEW p \in Providers
  PROVE  /\ gate[p] = "Open" /\ quiet[p] = 0 /\ UNCHANGED quiet
            /\ gate' = [gate EXCEPT ![p] = "HalfOpen"] => Gate!Try(p)
         /\ gate[p] = "HalfOpen" /\ UNCHANGED quiet
            /\ gate' = [gate EXCEPT ![p] = "Closed"] => Gate!Trust(p)
         /\ gate' = [gate EXCEPT ![p] = "Open"]
            /\ quiet' = [quiet EXCEPT ![p] = OpenTimeout] => Gate!Trip(p)
         /\ gate' = [gate EXCEPT ![p] = "Closed"]
            /\ quiet' = [quiet EXCEPT ![p] = 0] => Gate!SetUp(p)
BY DEF Gate!Try, Gate!Trust, Gate!Trip, Gate!SetUp, gate, quiet

LEMMA QuietKept ==
  ASSUME NEW p \in Providers
  PROVE  quiet = [quiet EXCEPT ![p] = quiet[p]]
BY DEF quiet

LEMMA LookRefines ==
  ASSUME TypeOK, NEW p \in Providers,
         breaker' = [breaker EXCEPT ![p] = AfterLook(breaker[p])]
  PROVE  Gate!Try(p) \/ UNCHANGED <<gate, quiet>>
<1> DEFINE c == AfterLook(breaker[p])
<1>1. breaker[p] \in Breaker /\ c \in Breaker
  BY LookSound DEF TypeOK
<1>2. CASE Expired(breaker[p])
  <2>1. c.state = "HalfOpen" /\ c.openLeft = breaker[p].openLeft
    BY <1>1, <1>2 DEF AfterLook, Breaker
  <2>2. breaker[p].state = "Open" /\ breaker[p].openLeft = 0
    BY <1>2 DEF Expired
  <2> HIDE DEF c
  <2>3. breaker' = [breaker EXCEPT ![p] = c]
    BY DEF c
  <2>4. /\ gate' = [gate EXCEPT ![p] = c.state]
        /\ quiet' = [quiet EXCEPT ![p] = c.openLeft]
    BY <1>1, <2>3, GateUpdate
  <2>5. gate[p] = breaker[p].state /\ quiet[p] = breaker[p].openLeft
    BY DEF gate, quiet
  <2> QED BY <2>1, <2>2, <2>4, <2>5, GateActions, QuietKept
<1>3. CASE ~Expired(breaker[p])
  <2>1. c = breaker[p]
    BY <1>3 DEF AfterLook
  <2> QED BY <1>1, <2>1, GateKept
<1> QED BY <1>2, <1>3

LEMMA SuccessRefines ==
  ASSUME TypeOK, NEW p \in Providers, RecordSuccess(p)
  PROVE  Gate!Trust(p) \/ UNCHANGED <<gate, quiet>>
<1> DEFINE b == breaker[p]
           c == AfterSuccess(b)
<1>1. b \in Breaker /\ c \in Breaker
  BY SuccessSound DEF TypeOK
<1>2. breaker' = [breaker EXCEPT ![p] = c]
  BY DEF RecordSuccess
<1>3. c.openLeft = b.openLeft
  BY <1>1 DEF AfterSuccess, Breaker
<1>4. \/ b.state = "HalfOpen" /\ c.state = "Closed"
      \/ c.state = b.state
  BY <1>1 DEF AfterSuccess, Breaker
<1>5. CASE b.state = "HalfOpen" /\ c.state = "Closed"
  <2> HIDE DEF c
  <2>1. /\ gate' = [gate EXCEPT ![p] = c.state]
        /\ quiet' = [quiet EXCEPT ![p] = c.openLeft]
    BY <1>1, <1>2, GateUpdate
  <2>2. gate[p] = b.state /\ quiet[p] = b.openLeft
    BY DEF gate, quiet
  <2> QED BY <2>1, <2>2, <1>3, <1>5, GateActions, QuietKept
<1>6. CASE c.state = b.state
  <2> HIDE DEF c
  <2> QED BY <1>1, <1>2, <1>3, <1>6, GateKept
<1> QED BY <1>4, <1>5, <1>6

LEMMA FailureRefines ==
  ASSUME TypeOK, NEW p \in Providers, RecordFailure(p)
  PROVE  Gate!Trip(p) \/ UNCHANGED <<gate, quiet>>
<1> DEFINE b == breaker[p]
           c == AfterFailure(b)
<1>1. b \in Breaker /\ c \in Breaker
  BY FailureSound DEF TypeOK
<1>2. breaker' = [breaker EXCEPT ![p] = c]
  BY DEF RecordFailure
<1>3. \/ c.state = "Open" /\ c.openLeft = OpenTimeout
      \/ c.state = b.state /\ c.openLeft = b.openLeft
  BY <1>1 DEF AfterFailure, Breaker
<1>4. CASE c.state = "Open" /\ c.openLeft = OpenTimeout
  <2> HIDE DEF c
  <2>1. /\ gate' = [gate EXCEPT ![p] = c.state]
        /\ quiet' = [quiet EXCEPT ![p] = c.openLeft]
    BY <1>1, <1>2, GateUpdate
  <2> QED BY <2>1, <1>4, GateActions
<1>5. CASE c.state = b.state /\ c.openLeft = b.openLeft
  <2> HIDE DEF c
  <2> QED BY <1>1, <1>2, <1>5, GateKept
<1> QED BY <1>3, <1>4, <1>5

LEMMA TickRefines == TypeOK /\ Tick => Gate!Pass
BY DEF TypeOK, Tick, Gate!Pass, Breaker

LEMMA StepRefines == TypeOK /\ [Next]_vars => [Gate!Next]_(Gate!gateVars)
<1> SUFFICES ASSUME TypeOK, [Next]_vars
             PROVE  Gate!Next \/ UNCHANGED <<gate, quiet>>
  BY DEF Gate!gateVars, gate, quiet
<1>1. CASE Renew
  <2>1. Gate!SetUpAll
    BY <1>1 DEF Renew, NewBreaker, Gate!SetUpAll
  <2> QED BY <2>1 DEF Gate!Next
<1>2. CASE Tick
  BY <1>2, TickRefines DEF Gate!Next
<1>3. ASSUME NEW p \in Providers, Step(p)
      PROVE  Gate!Next \/ UNCHANGED <<gate, quiet>>
  <2>1. CASE (\E answer \in BOOLEAN : IsOpen(p, answer))
             \/ (\E answer \in Phase : GetState(p, answer))
    <3>1. breaker' = [breaker EXCEPT ![p] = AfterLook(breaker[p])]
      BY <2>1 DEF IsOpen, GetState
    <3> QED BY <3>1, LookRefines DEF Gate!Next
  <2>2. CASE RecordSuccess(p)
    BY <2>2, SuccessRefines DEF Gate!Next
  <2>3. CASE RecordFailure(p)
    BY <2>3, FailureRefines DEF Gate!Next
  <2>4. CASE Reset(p)
    <3>1. NewBreaker \in Breaker /\ NewBreaker.state = "Closed"
          /\ NewBreaker.openLeft = 0
      BY NewBreakerSound DEF NewBreaker
    <3>2. Gate!SetUp(p)
      BY <2>4, <3>1, GateUpdate DEF Reset, Gate!SetUp, gate, quiet
    <3> QED BY <3>2 DEF Gate!Next
  <2> QED BY <1>3, <2>1, <2>2, <2>3, <2>4 DEF Step
<1>4. CASE UNCHANGED vars
  BY <1>4 DEF vars, gate, quiet
<1> QED BY <1>1, <1>2, <1>3, <1>4 DEF Next

LEMMA InitRefines == Init => Gate!Init
BY DEF Init, NewBreaker, Gate!Init

(* The breakers implement the gate of ProviderGate: for every number of    *)
(* providers and every threshold, callers see a gate that stays shut for   *)
(* the whole timeout after it was last tripped and opens again only from a *)
(* trial.                                                                  *)
THEOREM BreakersImplementGate == Spec => ImplementsGate
<1> QED BY InitRefines, StepRefines, TypeCorrect, PTL
        DEF Spec, ImplementsGate, Gate!Spec

=============================================================================
