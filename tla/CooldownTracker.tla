-------------------------- MODULE CooldownTracker ---------------------------
(***************************************************************************)
(* CooldownTracker of internal/providers/errors.go: for every              *)
(* provider/account, how long it is rate limited, its backoff level and    *)
(* the locks on single models ("*" for all of them).                       *)
(*                                                                         *)
(* Each method runs under ct.mu and is one action.  An account without an  *)
(* entry in ct.states answers like an empty entry, so the two are one      *)
(* state.  An expiry time is modelled by what is left of it: 0 is "in the  *)
(* past", and a lock entry that was never made (or was deleted) is         *)
(* NoLock, which is not the same as an expired one: see LockEntry.         *)
(***************************************************************************)
EXTENDS Integers

CONSTANTS
    Accounts,     \* the "provider/account" keys
    Models,       \* model names
    Star,         \* the lock name "*"
    MaxCooldown,  \* bound on a cooldown, in ticks (the code's one hour)
    LockTime,     \* longest model lock, in ticks
    LevelCap      \* levels from here on are not told apart

VARIABLE cooldown   \* ct.states

vars == cooldown

NoLock == -1
LockNames == Models \cup {Star}

CooldownState ==
    [left : 0..MaxCooldown,                       \* RateLimitedUntil
     level : 0..LevelCap,                         \* BackoffLevel
     locks : [LockNames -> {NoLock} \cup 0..LockTime]]  \* ModelLocks

NewState == [left |-> 0, level |-> 0, locks |-> [m \in LockNames |-> NoLock]]

TypeOK == cooldown \in [Accounts -> CooldownState]

Init == cooldown = [a \in Accounts |-> NewState]

-----------------------------------------------------------------------------
IsInCooldown(a) == cooldown[a].left > 0

BackoffLevel(a) == cooldown[a].level

(* The entry that decides for model m: m's own when there is one, even an  *)
(* expired one, and the "*" entry only when there is none.                 *)
LockEntry(a, m) ==
    LET locks == cooldown[a].locks
    IN  IF locks[m] # NoLock THEN locks[m] ELSE locks[Star]

IsModelLocked(a, m) == LockEntry(a, m) > 0

\* A new cooldown replaces what was left of the old one, and counts a level.
SetCooldown(a, d) ==
    cooldown' = [cooldown EXCEPT
                   ![a].left = d,
                   ![a].level = IF @ < LevelCap THEN @ + 1 ELSE @]

ClearCooldown(a) ==
    cooldown' = [cooldown EXCEPT ![a].left = 0, ![a].level = 0]

(* Mutant: the whole entry goes. *)
ResetEntry(a) == cooldown' = [cooldown EXCEPT ![a] = NewState]

(* Mutant: entries that have expired go as well. *)
ResetAndSweep(a) ==
    cooldown' = [cooldown EXCEPT
                   ![a].level = 0,
                   ![a].locks = [m \in LockNames |->
                                   IF @[m] = 0 THEN NoLock ELSE @[m]]]

\* After a success: the level goes, what is left of a cooldown stays.
ResetBackoffLevel(a) == cooldown' = [cooldown EXCEPT ![a].level = 0]

SetModelLock(a, m, d) == cooldown' = [cooldown EXCEPT ![a].locks[m] = d]

\* Deletes the entry of this name only.
ClearModelLock(a, m) == cooldown' = [cooldown EXCEPT ![a].locks[m] = NoLock]

Tick ==
    cooldown' =
      [a \in Accounts |->
         [cooldown[a] EXCEPT
            !.left = IF @ > 0 THEN @ - 1 ELSE @,
            !.locks = [m \in LockNames |->
                         IF @[m] > 0 THEN @[m] - 1 ELSE @[m]]]]

-----------------------------------------------------------------------------
Step(a) ==
    \/ \E d \in 1..MaxCooldown : SetCooldown(a, d)
    \/ ClearCooldown(a)
    \/ ResetBackoffLevel(a)
    \/ \E m \in LockNames : SetModelLock(a, m, LockTime)
    \/ \E m \in LockNames : ClearModelLock(a, m)

Next == Tick \/ \E a \in Accounts : Step(a)

Spec == Init /\ [][Next]_vars

-----------------------------------------------------------------------------
EndsInTime ==
    \A a \in Accounts, m \in Models :
      IsModelLocked(a, m) /\ ~IsModelLocked(a, m)' =>
        Tick \/ ClearModelLock(a, m) \/ ClearModelLock(a, Star)

BeginsWithLock ==
    \A a \in Accounts, m \in Models :
      ~IsModelLocked(a, m) /\ IsModelLocked(a, m)' =>
        \/ SetModelLock(a, m, LockTime) \/ SetModelLock(a, Star, LockTime)
        \/ ClearModelLock(a, m) /\ cooldown[a].locks[Star] > 0

(* A lock on a model, once set, ends by time or by being cleared, under    *)
(* its own name or under "*": successes, cooldowns and their clearing, and *)
(* whatever happens to other models and accounts, never end it.            *)
LocksEndOnTime == [][EndsInTime]_vars

(* The other way round: nothing but a lock of its own, an account lock, or *)
(* the removal of an entry that stood before one, locks a model.           *)
LocksComeFromLocks == [][BeginsWithLock]_vars

=============================================================================
