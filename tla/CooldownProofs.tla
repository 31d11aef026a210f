--------------------------- MODULE CooldownProofs ---------------------------
(***************************************************************************)
(* Theorems about CooldownTracker: for any accounts and models, any        *)
(* length of cooldowns and any positive length of locks, "*" not being the *)
(* name of a model.                                                        *)
(***************************************************************************)
EXTENDS CooldownTracker, TLAPS

Lengths ==
    /\ MaxCooldown \in Nat
    /\ LockTime \in Nat \ {0}
    /\ LevelCap \in Nat

LEMMA InitTyped == ASSUME Lengths, Init PROVE TypeOK
<1>1. NewState \in CooldownState
  BY DEF Lengths, NewState, CooldownState, NoLock
<1> QED BY <1>1 DEF Init, TypeOK

(* Every method replaces the entry of one account.                         *)
LEMMA EntryReplaced ==
  ASSUME TypeOK, NEW a \in Accounts, NEW e \in CooldownState,
         cooldown' = [cooldown EXCEPT ![a] = e]
  PROVE  TypeOK'
BY DEF TypeOK

LEMMA EntryTyped ==
  ASSUME TypeOK, NEW a \in Accounts
  PROVE  /\ cooldown[a] \in CooldownState
         /\ cooldown[a].left \in 0..MaxCooldown
         /\ cooldown[a].level \in 0..LevelCap
         /\ cooldown[a].locks \in [LockNames -> {NoLock} \cup 0..LockTime]
BY DEF TypeOK, CooldownState

LEMMA StepTyped ==
  ASSUME Lengths, TypeOK, NEW a \in Accounts, Step(a)
  PROVE  TypeOK'
<1> DEFINE c == cooldown[a]
<1>0. /\ c \in CooldownState
      /\ c.locks \in [LockNames -> {NoLock} \cup 0..LockTime]
      /\ c.left \in 0..MaxCooldown
      /\ c.level \in 0..LevelCap
  BY EntryTyped
<1>1. ASSUME NEW d \in 1..MaxCooldown, SetCooldown(a, d) PROVE TypeOK'
  <2> DEFINE e == [c EXCEPT !.left = d,
                            !.level = IF @ < LevelCap THEN @ + 1 ELSE @]
  <2>1. d \in 0..MaxCooldown
    BY DEF Lengths
  <2>2. (IF c.level < LevelCap THEN c.level + 1 ELSE c.level) \in 0..LevelCap
    BY <1>0 DEF Lengths
  <2>3. e \in CooldownState
    BY <1>0, <2>1, <2>2 DEF CooldownState
  <2>4. cooldown' = [cooldown EXCEPT ![a] = e]
    BY <1>1 DEF SetCooldown, TypeOK, CooldownState
  <2> HIDE DEF e
  <2> QED BY <2>3, <2>4, EntryReplaced
<1>2. CASE ClearCooldown(a)
  <2> DEFINE e == [c EXCEPT !.left = 0, !.level = 0]
  <2>0. 0 \in 0..MaxCooldown /\ 0 \in 0..LevelCap
    BY DEF Lengths
  <2>1. e \in CooldownState
    BY <1>0, <2>0 DEF CooldownState
  <2>2. cooldown' = [cooldown EXCEPT ![a] = e]
    BY <1>2 DEF ClearCooldown, TypeOK, CooldownState
  <2> HIDE DEF e
  <2> QED BY <2>1, <2>2, EntryReplaced
<1>3. CASE ResetBackoffLevel(a)
  <2> DEFINE e == [c EXCEPT !.level = 0]
  <2>1. e \in CooldownState
    BY <1>0 DEF CooldownState, Lengths
  <2>2. cooldown' = [cooldown EXCEPT ![a] = e]
    BY <1>3 DEF ResetBackoffLevel, TypeOK, CooldownState
  <2> HIDE DEF e
  <2> QED BY <2>1, <2>2, EntryReplaced
<1>4. ASSUME NEW m \in LockNames, NEW d \in {NoLock, LockTime},
             cooldown' = [cooldown EXCEPT ![a].locks[m] = d]
      PROVE  TypeOK'
  <2> DEFINE l == [c.locks EXCEPT ![m] = d]
             e == [c EXCEPT !.locks = l]
  <2>1. d \in {NoLock} \cup 0..LockTime
    BY DEF Lengths
  <2>2. l \in [LockNames -> {NoLock} \cup 0..LockTime]
    BY <1>0, <2>1
  <2> HIDE DEF l
  <2>3. e \in CooldownState
    BY <1>0, <2>2 DEF CooldownState
  <2>4. cooldown' = [cooldown EXCEPT ![a] = e]
    BY <1>4 DEF l
  <2> HIDE DEF e
  <2> QED BY <2>3, <2>4, EntryReplaced
<1> QED BY <1>1, <1>2, <1>3, <1>4 DEF Step, SetModelLock, ClearModelLock

LEMMA TickTyped == ASSUME Lengths, TypeOK, Tick PROVE TypeOK'
<1>1. ASSUME NEW a \in Accounts PROVE cooldown'[a] \in CooldownState
  <2>1. cooldown[a] \in CooldownState
    BY DEF TypeOK
  <2>2. (IF cooldown[a].left > 0 THEN cooldown[a].left - 1
         ELSE cooldown[a].left) \in 0..MaxCooldown
    BY <2>1 DEF CooldownState, Lengths
  <2>3. [m \in LockNames |-> IF cooldown[a].locks[m] > 0
                             THEN cooldown[a].locks[m] - 1
                             ELSE cooldown[a].locks[m]]
          \in [LockNames -> {NoLock} \cup 0..LockTime]
    BY <2>1 DEF CooldownState, Lengths, NoLock
  <2> QED BY <2>1, <2>2, <2>3 DEF Tick, CooldownState
<1>2. cooldown' \in [Accounts -> CooldownState]
  BY <1>1 DEF Tick
<1> QED BY <1>2 DEF TypeOK

(* The tracker's entries are well typed in every reachable state.          *)
THEOREM CooldownsTyped == ASSUME Lengths PROVE Spec => []TypeOK
<1>1. Init => TypeOK
  BY InitTyped
<1>2. TypeOK /\ [Next]_vars => TypeOK'
  <2> SUFFICES ASSUME TypeOK, [Next]_vars PROVE TypeOK'
    OBVIOUS
  <2>1. CASE Tick
    BY <2>1, TickTyped
  <2>2. ASSUME NEW a \in Accounts, Step(a) PROVE TypeOK'
    BY <2>2, StepTyped
  <2>3. CASE UNCHANGED vars
    BY <2>3 DEF vars, TypeOK
  <2> QED BY <2>1, <2>2, <2>3 DEF Next
<1> QED BY <1>1, <1>2, PTL DEF Spec

-----------------------------------------------------------------------------
(* A method that leaves the locks of an account alone leaves every answer  *)
(* of IsModelLocked alone.                                                 *)
LEMMA SameLocksSameAnswer ==
  ASSUME NEW a \in Accounts, NEW m \in Models,
         cooldown'[a].locks = cooldown[a].locks
  PROVE  IsModelLocked(a, m)' <=> IsModelLocked(a, m)
BY DEF IsModelLocked, LockEntry

(* Methods of one account do not touch the entry of another, and methods   *)
(* that are not about locks touch no locks.                                *)
LEMMA OtherLocksKept ==
  ASSUME Lengths, TypeOK, NEW b \in Accounts, NEW a \in Accounts, Step(b),
         \/ b # a
         \/ \E d \in 1..MaxCooldown : SetCooldown(b, d)
         \/ ClearCooldown(b)
         \/ ResetBackoffLevel(b)
  PROVE  cooldown'[a].locks = cooldown[a].locks
<1> USE DEF TypeOK, CooldownState
<1>1. CASE \E d \in 1..MaxCooldown : SetCooldown(b, d)
  <2>1. PICK d \in 1..MaxCooldown : SetCooldown(b, d)
    BY <1>1
  <2> DEFINE e == [cooldown[b] EXCEPT
                     !.left = d,
                     !.level = IF @ < LevelCap THEN @ + 1 ELSE @]
  <2>2. cooldown' = [cooldown EXCEPT ![b] = e]
    BY <2>1 DEF SetCooldown
  <2>3. e.locks = cooldown[b].locks
    OBVIOUS
  <2> HIDE DEF e
  <2> QED BY <2>2, <2>3
<1>2. CASE ClearCooldown(b)
  BY <1>2 DEF ClearCooldown
<1>3. CASE ResetBackoffLevel(b)
  BY <1>3 DEF ResetBackoffLevel
<1>4. CASE b # a /\ \E m \in LockNames : SetModelLock(b, m, LockTime)
  BY <1>4 DEF SetModelLock
<1>5. CASE b # a /\ \E m \in LockNames : ClearModelLock(b, m)
  BY <1>5 DEF ClearModelLock
<1> QED BY <1>1, <1>2, <1>3, <1>4, <1>5 DEF Step

(* Setting a lock never unlocks a model.                                   *)
LEMMA SettingKeepsLocks ==
  ASSUME Lengths, TypeOK, NEW a \in Accounts, NEW m \in Models,
         NEW n \in LockNames, SetModelLock(a, n, LockTime),
         IsModelLocked(a, m)
  PROVE  IsModelLocked(a, m)'
<1> DEFINE locks == cooldown[a].locks
<1>1. cooldown'[a].locks = [locks EXCEPT ![n] = LockTime]
  BY DEF SetModelLock, TypeOK, CooldownState
<1>2. locks \in [LockNames -> {NoLock} \cup 0..LockTime]
  BY DEF TypeOK, CooldownState
<1>3. m \in LockNames /\ Star \in LockNames
  BY DEF LockNames
<1>4. LockTime > 0 /\ LockTime # NoLock
  BY DEF Lengths, NoLock
<1> QED BY <1>1, <1>2, <1>3, <1>4 DEF IsModelLocked, LockEntry

(* Deleting the lock of another name, but for "*", changes no answer.      *)
LEMMA ClearingOthersKeepsLocks ==
  ASSUME TypeOK, NEW a \in Accounts, NEW m \in Models,
         NEW n \in LockNames \ {m, Star}, ClearModelLock(a, n)
  PROVE  IsModelLocked(a, m)' <=> IsModelLocked(a, m)
<1> DEFINE locks == cooldown[a].locks
<1>1. cooldown'[a].locks = [locks EXCEPT ![n] = NoLock]
  BY DEF ClearModelLock, TypeOK, CooldownState
<1>2. locks \in [LockNames -> {NoLock} \cup 0..LockTime]
  BY DEF TypeOK, CooldownState
<1>3. m \in LockNames /\ Star \in LockNames
  BY DEF LockNames
<1> QED BY <1>1, <1>2, <1>3 DEF IsModelLocked, LockEntry

(* Setting the lock of another name, but for "*", changes no answer.       *)
LEMMA SettingOthersKeepsLocks ==
  ASSUME TypeOK, NEW a \in Accounts, NEW m \in Models,
         NEW n \in LockNames \ {m, Star}, SetModelLock(a, n, LockTime)
  PROVE  IsModelLocked(a, m)' <=> IsModelLocked(a, m)
<1> DEFINE locks == cooldown[a].locks
<1>1. cooldown'[a].locks = [locks EXCEPT ![n] = LockTime]
  BY DEF SetModelLock, TypeOK, CooldownState
<1>2. locks \in [LockNames -> {NoLock} \cup 0..LockTime]
  BY DEF TypeOK, CooldownState
<1>3. m \in LockNames /\ Star \in LockNames
  BY DEF LockNames
<1> QED BY <1>1, <1>2, <1>3 DEF IsModelLocked, LockEntry

(* Deleting an entry locks a model only if it was the model's own and hid  *)
(* a running "*" entry.                                                    *)
LEMMA ClearingUncovers ==
  ASSUME TypeOK, NEW a \in Accounts, NEW m \in Models, NEW n \in {m, Star},
         ClearModelLock(a, n), ~IsModelLocked(a, m), IsModelLocked(a, m)'
  PROVE  n = m /\ cooldown[a].locks[Star] > 0
<1> DEFINE locks == cooldown[a].locks
<1>1. cooldown'[a].locks = [locks EXCEPT ![n] = NoLock]
  BY DEF ClearModelLock, TypeOK, CooldownState
<1>2. locks \in [LockNames -> {NoLock} \cup 0..LockTime]
  BY DEF TypeOK, CooldownState
<1>3. m \in LockNames /\ Star \in LockNames
  BY DEF LockNames
<1>4. ~(NoLock > 0)
  BY DEF NoLock
<1> QED BY <1>1, <1>2, <1>3, <1>4 DEF IsModelLocked, LockEntry

(* Time locks nothing: an entry that has expired stays what it is.         *)
LEMMA TickLocksNothing ==
  ASSUME Lengths, TypeOK, NEW a \in Accounts, NEW m \in Models, Tick,
         IsModelLocked(a, m)'
  PROVE  IsModelLocked(a, m)
<1> DEFINE locks == cooldown[a].locks
           later == [n \in LockNames |-> IF locks[n] > 0 THEN locks[n] - 1
                                                        ELSE locks[n]]
<1>1. cooldown'[a].locks = later
  <2> DEFINE l == IF cooldown[a].left > 0 THEN cooldown[a].left - 1
                  ELSE cooldown[a].left
  <2>1. cooldown'[a] = [cooldown[a] EXCEPT !.left = l, !.locks = later]
    BY DEF Tick
  <2>2. cooldown[a] \in CooldownState
    BY EntryTyped
  <2> HIDE DEF l, later
  <2> QED BY <2>1, <2>2 DEF CooldownState
<1>2. locks \in [LockNames -> {NoLock} \cup 0..LockTime]
  BY EntryTyped
<1>3. m \in LockNames /\ Star \in LockNames
  BY DEF LockNames
<1>4. \A n \in LockNames :
        /\ later[n] > 0 => locks[n] > 0
        /\ later[n] = NoLock <=> locks[n] = NoLock
  BY <1>2 DEF NoLock, Lengths
<1> HIDE DEF later
<1> QED BY <1>1, <1>3, <1>4 DEF IsModelLocked, LockEntry

(* Once set, a lock on a model ends by time or by being cleared under its  *)
(* own name or under "*", and by nothing else the tracker can be asked.    *)
THEOREM LocksEnd == ASSUME Lengths PROVE Spec => LocksEndOnTime
<1>1. ASSUME TypeOK, [Next]_vars, NEW a \in Accounts, NEW m \in Models,
             IsModelLocked(a, m), ~IsModelLocked(a, m)'
      PROVE  Tick \/ ClearModelLock(a, m) \/ ClearModelLock(a, Star)
  <2>1. CASE UNCHANGED vars
    BY <1>1, <2>1 DEF vars, IsModelLocked, LockEntry
  <2>2. ASSUME NEW b \in Accounts, Step(b)
        PROVE  ClearModelLock(a, m) \/ ClearModelLock(a, Star)
    <3>1. cooldown'[a].locks # cooldown[a].locks
      BY <1>1, SameLocksSameAnswer
    <3>2. b = a
      BY <1>1, <2>2, <3>1, OtherLocksKept
    <3>3. ASSUME NEW n \in LockNames, SetModelLock(a, n, LockTime) PROVE FALSE
      BY <1>1, <3>3, SettingKeepsLocks
    <3>4. \E n \in LockNames : ClearModelLock(a, n)
      BY <1>1, <2>2, <3>1, <3>2, <3>3, OtherLocksKept DEF Step
    <3>5. PICK n \in LockNames : ClearModelLock(a, n)
      BY <3>4
    <3>6. n \in {m, Star}
      BY <1>1, <3>5, ClearingOthersKeepsLocks
    <3> QED BY <3>5, <3>6
  <2> QED BY <1>1, <2>1, <2>2 DEF Next
<1>2. TypeOK /\ [Next]_vars => EndsInTime
  BY <1>1 DEF EndsInTime
<1> QED BY <1>2, CooldownsTyped, PTL DEF Spec, LocksEndOnTime

(* A model becomes locked only by a lock of its own, by one on the whole   *)
(* account, or when its own entry is deleted from before the latter.       *)
THEOREM LocksBegin == ASSUME Lengths PROVE Spec => LocksComeFromLocks
<1>1. ASSUME TypeOK, [Next]_vars, NEW a \in Accounts, NEW m \in Models,
             ~IsModelLocked(a, m), IsModelLocked(a, m)'
      PROVE  \/ SetModelLock(a, m, LockTime) \/ SetModelLock(a, Star, LockTime)
             \/ ClearModelLock(a, m) /\ cooldown[a].locks[Star] > 0
  <2>1. CASE UNCHANGED vars
    BY <1>1, <2>1 DEF vars, IsModelLocked, LockEntry
  <2>2. CASE Tick
    BY <1>1, <2>2, TickLocksNothing
  <2>3. ASSUME NEW b \in Accounts, Step(b)
        PROVE  \/ SetModelLock(a, m, LockTime) \/ SetModelLock(a, Star, LockTime)
               \/ ClearModelLock(a, m) /\ cooldown[a].locks[Star] > 0
    <3>1. cooldown'[a].locks # cooldown[a].locks
      BY <1>1, SameLocksSameAnswer
    <3>2. b = a
      BY <1>1, <2>3, <3>1, OtherLocksKept
    <3>3. PICK n \in LockNames :
            SetModelLock(a, n, LockTime) \/ ClearModelLock(a, n)
      BY <1>1, <2>3, <3>1, <3>2, OtherLocksKept DEF Step
    <3>4. n \in {m, Star}
      BY <1>1, <3>3, SettingOthersKeepsLocks, ClearingOthersKeepsLocks
    <3>5. CASE SetModelLock(a, n, LockTime)
      BY <3>4, <3>5
    <3>6. CASE ClearModelLock(a, n)
      BY <1>1, <3>4, <3>6, ClearingUncovers
    <3> QED BY <3>3, <3>5, <3>6
  <2> QED BY <1>1, <2>1, <2>2, <2>3 DEF Next
<1>2. TypeOK /\ [Next]_vars => BeginsWithLock
  BY <1>1 DEF BeginsWithLock
<1> QED BY <1>2, CooldownsTyped, PTL DEF Spec, LocksComeFromLocks

=============================================================================
