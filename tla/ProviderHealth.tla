--------------------------- MODULE ProviderHealth ---------------------------
(***************************************************************************)
(* What the router knows of the health of providers and accounts: the      *)
(* circuit breakers and the cooldown tracker on one clock, used by any     *)
(* callers in any order.  RoutingEngine uses both the way the router does; *)
(* here every method of either may be called at any time.                  *)
(***************************************************************************)
EXTENDS BreakerHistory

CONSTANTS Accounts, Models, Star, MaxCooldown, LockTime, LevelCap

ASSUME LengthsAssumption ==
    /\ MaxCooldown \in Nat
    /\ LockTime \in Nat \ {0}
    /\ LevelCap \in Nat

VARIABLE cooldown

healthVars == <<histVars, cooldown>>

CD == INSTANCE CooldownTracker

HealthInit == HistInit /\ CD!Init

HealthNext ==
    \/ HistTick /\ CD!Tick
    \/ HistStep /\ UNCHANGED cooldown
    \/ (\E a \in Accounts : CD!Step(a)) /\ UNCHANGED histVars

HealthSpec == HealthInit /\ [][HealthNext]_healthVars

HealthTypeOK == TypeOK /\ CD!TypeOK

(* A lock on a model, once set, ends by time or by being cleared, whatever *)
(* happens to cooldowns, levels, other models and breakers meanwhile.      *)
LocksEndOnTime == CD!LocksEndOnTime

(* Nothing but a lock, or the removal of an entry that stood before an     *)
(* account lock, locks a model.                                            *)
LocksComeFromLocks == CD!LocksComeFromLocks

=============================================================================
