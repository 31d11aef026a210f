---------------------------- MODULE HealthProofs ----------------------------
(***************************************************************************)
(* What breakers and cooldowns keep when they are used together on one     *)
(* clock: every behaviour of ProviderHealth is one of each, so that the    *)
(* theorems about each hold of both.                                       *)
(***************************************************************************)
EXTENDS ProviderHealth, CircuitBreakerProofs

Tracker == INSTANCE CooldownProofs

(* The recorded history restricts nothing: a health step is a step of the  *)
(* breakers and a step of the tracker.                                     *)
LEMMA BreakersTakePart == HealthSpec => Spec
<1>1. HealthInit => Init
  BY DEF HealthInit, HistInit
<1>2. [HealthNext]_healthVars => [Next]_vars
  BY DEF HealthNext, healthVars, HistTick, HistStep, histVars, vars, Next,
         Step, Succeeds, Fails, Looks
<1> QED BY <1>1, <1>2, PTL DEF HealthSpec, Spec

LEMMA LengthsHold == Tracker!Lengths
BY LengthsAssumption DEF Tracker!Lengths

(* CD and Tracker are one tracker by two names. *)
LEMMA SameSteps ==
  /\ CD!Init <=> Tracker!Init
  /\ CD!Tick <=> Tracker!Tick
  /\ \A a \in Accounts : CD!Step(a) <=> Tracker!Step(a)
<1>1. CD!LockNames = Tracker!LockNames /\ CD!NoLock = Tracker!NoLock
  BY DEF CD!LockNames, Tracker!LockNames, CD!NoLock, Tracker!NoLock
<1>2. CD!Init <=> Tracker!Init
  BY <1>1 DEF CD!Init, Tracker!Init, CD!NewState, Tracker!NewState
<1>3. CD!Tick <=> Tracker!Tick
  BY <1>1, Zenon DEF CD!Tick, Tracker!Tick
<1>4. ASSUME NEW a \in Accounts PROVE CD!Step(a) <=> Tracker!Step(a)
  BY <1>1, Zenon DEF CD!Step, Tracker!Step, CD!SetCooldown, Tracker!SetCooldown,
     CD!ClearCooldown, Tracker!ClearCooldown,
     CD!ResetBackoffLevel, Tracker!ResetBackoffLevel,
     CD!SetModelLock, Tracker!SetModelLock,
     CD!ClearModelLock, Tracker!ClearModelLock
<1> QED BY <1>2, <1>3, <1>4

LEMMA SameLocks ==
  \A a \in Accounts, m \in Models :
    /\ CD!IsModelLocked(a, m) <=> Tracker!IsModelLocked(a, m)
    /\ CD!IsModelLocked(a, m)' <=> Tracker!IsModelLocked(a, m)'
BY DEF CD!IsModelLocked, Tracker!IsModelLocked, CD!LockEntry, Tracker!LockEntry,
       CD!NoLock, Tracker!NoLock

LEMMA TrackerTakesPart == HealthSpec => Tracker!Spec
<1>1. HealthInit => Tracker!Init
  BY SameSteps DEF HealthInit
<1>2. [HealthNext]_healthVars => [Tracker!Next]_(Tracker!vars)
  BY SameSteps DEF HealthNext, healthVars, Tracker!vars, Tracker!Next
<1> QED BY <1>1, <1>2, PTL DEF HealthSpec, Tracker!Spec

-----------------------------------------------------------------------------
(* Breakers and tracker are well typed in every reachable state.           *)
THEOREM HealthTyped == HealthSpec => []HealthTypeOK
<1>1. TypeOK /\ Tracker!TypeOK => HealthTypeOK
  BY DEF HealthTypeOK, CD!TypeOK, Tracker!TypeOK, CD!CooldownState,
         Tracker!CooldownState, CD!LockNames, Tracker!LockNames, CD!NoLock,
         Tracker!NoLock
<1> QED BY <1>1, BreakersTakePart, TypeCorrect, TrackerTakesPart,
           LengthsHold, Tracker!CooldownsTyped, PTL

(* Whatever happens to cooldowns, levels, other models and breakers, a     *)
(* lock on a model ends by time or by being cleared.                       *)
THEOREM HealthLocksEnd == HealthSpec => LocksEndOnTime
<1>1. \A a \in Accounts, m \in Models, n \in Models \cup {Star} :
        CD!ClearModelLock(a, n) <=> Tracker!ClearModelLock(a, n)
  BY DEF CD!ClearModelLock, Tracker!ClearModelLock, CD!NoLock, Tracker!NoLock
<1>2. [Tracker!EndsInTime]_(Tracker!vars) => [CD!EndsInTime]_(CD!vars)
  BY <1>1, SameSteps, SameLocks
     DEF Tracker!vars, CD!vars, CD!EndsInTime, Tracker!EndsInTime
<1> QED BY <1>2, TrackerTakesPart, LengthsHold, Tracker!LocksEnd, PTL
        DEF LocksEndOnTime, CD!LocksEndOnTime, Tracker!LocksEndOnTime

(* Nothing but a lock, or the removal of an entry that stood before an     *)
(* account lock, locks a model.                                            *)
THEOREM HealthLocksBegin == HealthSpec => LocksComeFromLocks
<1>1. \A a \in Accounts, m \in Models, n \in Models \cup {Star} :
        /\ CD!ClearModelLock(a, n) <=> Tracker!ClearModelLock(a, n)
        /\ CD!SetModelLock(a, n, LockTime) <=> Tracker!SetModelLock(a, n, LockTime)
  BY DEF CD!ClearModelLock, Tracker!ClearModelLock, CD!NoLock, Tracker!NoLock,
         CD!SetModelLock, Tracker!SetModelLock
<1>2. [Tracker!BeginsWithLock]_(Tracker!vars) => [CD!BeginsWithLock]_(CD!vars)
  BY <1>1, SameLocks
     DEF Tracker!vars, CD!vars, CD!BeginsWithLock, Tracker!BeginsWithLock
<1> QED BY <1>2, TrackerTakesPart, LengthsHold, Tracker!LocksBegin, PTL
        DEF LocksComeFromLocks, CD!LocksComeFromLocks, Tracker!LocksComeFromLocks

-----------------------------------------------------------------------------
(* The history: in half-open, a breaker has no more successes than it was  *)
(* seen to earn since it was last closed.  An open one may still have some *)
(* from an earlier trial, for opening does not reset them.                 *)
Earned(b, n) == n \in Nat /\ b.successCount <= n

EarnedKept == \A p \in Providers : Earned(breaker[p], earned[p])

HistIInv == IInv /\ earned \in [Providers -> Nat] /\ EarnedKept

(* What each method does to one breaker and its record. *)
LEMMA EarnedSteps ==
  ASSUME NEW b \in Breaker, NEW n \in Nat, Earned(b, n)
  PROVE  /\ Earned(NewBreaker, 0)
         /\ Earned(AfterLook(b), n)
         /\ Earned(Older(b), n)
         /\ Sound(b) => Earned(AfterFailure(b), IF b.state = "Closed" THEN 0 ELSE n)
         /\ Earned(AfterSuccess(b), IF b.state = "HalfOpen" THEN n + 1 ELSE n)
<1>1. Earned(NewBreaker, 0)
  BY DEF Earned, NewBreaker
<1>2. Earned(AfterLook(b), n) /\ Earned(Older(b), n)
  BY DEF Earned, AfterLook, Older, Breaker
<1>3. Sound(b) => Earned(AfterFailure(b), IF b.state = "Closed" THEN 0 ELSE n)
  BY DEF Earned, AfterFailure, Sound, Breaker
<1>4. Earned(AfterSuccess(b), IF b.state = "HalfOpen" THEN n + 1 ELSE n)
  <2>1. CASE b.state = "HalfOpen"
    BY <2>1 DEF Earned, AfterSuccess, Breaker
  <2>2. CASE b.state = "Closed"
    <3>1. AfterSuccess(b) = [b EXCEPT !.failureCount = 0, !.successCount = 0]
      BY <2>2 DEF AfterSuccess
    <3> QED BY <2>2, <3>1 DEF Earned, Breaker
  <2>3. CASE b.state = "Open"
    BY <2>3 DEF Earned, AfterSuccess, Breaker
  <2> QED BY <2>1, <2>2, <2>3 DEF Breaker, Phase
<1> QED BY <1>1, <1>2, <1>3, <1>4

(* One provider's breaker and record are replaced. *)
LEMMA EarnedUpdate ==
  ASSUME HistIInv, NEW p \in Providers, NEW b, NEW n, Earned(b, n),
         breaker' = [breaker EXCEPT ![p] = b], earned' = [earned EXCEPT ![p] = n]
  PROVE  earned' \in [Providers -> Nat] /\ EarnedKept'
<1>1. breaker \in [Providers -> Breaker]
  BY DEF HistIInv, IInv, TypeOK
<1> QED BY <1>1 DEF HistIInv, EarnedKept, Earned

LEMMA SameRecord ==
  ASSUME NEW p \in Providers, earned \in [Providers -> Nat]
  PROVE  earned = [earned EXCEPT ![p] = earned[p]]
OBVIOUS

LEMMA HistNextKept == HistIInv /\ [HistNext]_histVars => HistIInv'
<1> SUFFICES ASSUME HistIInv, [HistNext]_histVars PROVE HistIInv'
  OBVIOUS
<1>0. IInv /\ TypeOK /\ earned \in [Providers -> Nat] /\ EarnedKept
  BY DEF HistIInv, IInv
<1>1. IInv'
  <2>1. [Next]_vars
    BY DEF HistNext, HistTick, HistStep, histVars, vars, Next, Step,
           Succeeds, Fails, Looks
  <2> QED BY <1>0, <2>1, NextIInv
<1>2. CASE HistTick
  <2>1. \A p \in Providers : breaker'[p] = Older(breaker[p])
    BY <1>2 DEF HistTick, Tick, Older
  <2> QED BY <1>0, <1>1, <1>2, <2>1, EarnedSteps
          DEF HistTick, HistIInv, EarnedKept, TypeOK
<1>3. CASE Renew /\ earned' = [p \in Providers |-> 0]
  <2>1. \A p \in Providers : breaker'[p] = NewBreaker /\ earned'[p] = 0
    BY <1>3 DEF Renew
  <2> QED BY <1>1, <1>3, <2>1 DEF HistIInv, EarnedKept, Earned, NewBreaker
<1>4. ASSUME NEW p \in Providers,
             Succeeds(p) \/ Looks(p) \/ Fails(p) \/ (Reset(p) /\ Forget(p))
      PROVE  HistIInv'
  <2>0. /\ breaker[p] \in Breaker /\ earned[p] \in Nat
        /\ Earned(breaker[p], earned[p]) /\ Sound(breaker[p])
    BY <1>0 DEF TypeOK, EarnedKept, IInv
  <2>1. CASE Succeeds(p)
    <3>1. earned' = [earned EXCEPT ![p] = IF breaker[p].state = "HalfOpen"
                                          THEN earned[p] + 1 ELSE earned[p]]
      BY <1>0, <2>1, SameRecord DEF Succeeds
    <3>2. breaker' = [breaker EXCEPT ![p] = AfterSuccess(breaker[p])]
      BY <2>1 DEF Succeeds, RecordSuccess
    <3> QED BY <1>1, <2>0, <3>1, <3>2, EarnedSteps, EarnedUpdate, ZenonT(60) DEF HistIInv
  <2>2. CASE Looks(p)
    <3>1. earned' = [earned EXCEPT ![p] = earned[p]]
      BY <1>0, <2>2, SameRecord DEF Looks
    <3>2. breaker' = [breaker EXCEPT ![p] = AfterLook(breaker[p])]
      BY <2>2 DEF Looks, IsOpen, GetState
    <3> QED BY <1>1, <2>0, <3>1, <3>2, EarnedSteps, EarnedUpdate DEF HistIInv
  <2>3. CASE Fails(p)
    <3>1. earned' = [earned EXCEPT ![p] = IF breaker[p].state = "Closed"
                                          THEN 0 ELSE earned[p]]
      BY <1>0, <2>3, SameRecord DEF Fails, Forget
    <3>2. breaker' = [breaker EXCEPT ![p] = AfterFailure(breaker[p])]
      BY <2>3 DEF Fails, RecordFailure
    <3> QED BY <1>1, <2>0, <3>1, <3>2, EarnedSteps, EarnedUpdate DEF HistIInv
  <2>4. CASE Reset(p) /\ Forget(p)
    BY <1>1, <2>0, <2>4, EarnedSteps, EarnedUpdate DEF HistIInv, Reset, Forget
  <2> QED BY <1>4, <2>1, <2>2, <2>3, <2>4
<1>5. CASE UNCHANGED histVars
  BY <1>0, <1>1, <1>5 DEF histVars, HistIInv, EarnedKept
<1> QED BY <1>2, <1>3, <1>4, <1>5 DEF HistNext, HistStep

(* A breaker leaves its trial only after SuccessThreshold successes on     *)
(* trial since it was last closed, or by being set up anew, for every      *)
(* threshold and order of the methods: successes that an earlier trial     *)
(* left behind were earned too.                                            *)
THEOREM HealthClosingIsEarned == HealthSpec => ClosingIsEarned
<1> DEFINE Closing == \A p \in Providers :
                        Closes(p) => \/ earned'[p] >= SuccessThreshold
                                     \/ (Reset(p) \/ Renew) /\ earned'[p] = 0
<1>1. HealthInit => HistIInv
  BY InitIInv DEF HealthInit, HistInit, HistIInv, EarnedKept, Earned, Init, NewBreaker
<1>2. [HealthNext]_healthVars => [HistNext]_histVars
  BY DEF HealthNext, healthVars, HistNext
<1>3. HistIInv /\ [HistNext]_histVars => [Closing]_histVars
  <2> SUFFICES ASSUME HistIInv, HistNext, NEW p \in Providers, Closes(p)
               PROVE  \/ earned'[p] >= SuccessThreshold
                      \/ (Reset(p) \/ Renew) /\ earned'[p] = 0
    OBVIOUS
  <2>0. /\ breaker \in [Providers -> Breaker] /\ earned \in [Providers -> Nat]
        /\ Earned(breaker[p], earned[p])
    BY DEF HistIInv, IInv, TypeOK, EarnedKept
  <2>1. CASE HistTick
    BY <2>0, <2>1 DEF HistTick, Tick, Closes, Breaker
  <2>2. CASE Renew /\ earned' = [q \in Providers |-> 0]
    BY <2>2
  <2>3. ASSUME NEW q \in Providers,
               Succeeds(q) \/ Looks(q) \/ Fails(q) \/ (Reset(q) /\ Forget(q))
        PROVE  \/ earned'[p] >= SuccessThreshold
               \/ (Reset(p) \/ Renew) /\ earned'[p] = 0
    <3>1. q = p
      BY <2>0, <2>3 DEF Closes, Succeeds, RecordSuccess, Looks, IsOpen, GetState,
                        Fails, RecordFailure, Reset
    <3>2. CASE Succeeds(p)
      <4>1. earned'[p] = earned[p] + 1
        BY <2>0, <3>2 DEF Succeeds, Closes
      <4>2. breaker[p].successCount + 1 >= SuccessThreshold
        BY <2>0, <3>2 DEF Succeeds, RecordSuccess, AfterSuccess, Closes, Breaker
      <4> QED BY <2>0, <4>1, <4>2, ThresholdsPositive DEF Earned, Breaker
    <3>3. CASE Looks(p)
      BY <2>0, <3>3 DEF Looks, IsOpen, GetState, AfterLook, Expired, Closes, Breaker
    <3>4. CASE Fails(p)
      BY <2>0, <3>4 DEF Fails, RecordFailure, AfterFailure, Closes, Breaker
    <3>5. CASE Reset(p) /\ Forget(p)
      BY <2>0, <3>5 DEF Forget
    <3> QED BY <2>3, <3>1, <3>2, <3>3, <3>4, <3>5
  <2> QED BY <2>1, <2>2, <2>3 DEF HistNext, HistStep
<1> QED BY <1>1, <1>2, <1>3, HistNextKept, PTL DEF HealthSpec, ClosingIsEarned

=============================================================================
