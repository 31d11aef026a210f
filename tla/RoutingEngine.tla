--------------------------- MODULE RoutingEngine ----------------------------
(***************************************************************************)
(* The routing engine (internal/router/router.go) and the part of the      *)
(* request handlers that calls it (handleChatCompletions and               *)
(* handleStreamingChatCompletion of internal/api/server.go).               *)
(*                                                                         *)
(* Every member of Requests is a handler goroutine that serves one request *)
(* after another.  It shares with the others the engine's configuration,   *)
(* the round-robin indexes, the circuit breakers and the cooldown tracker; *)
(* each of these has its own lock, so each use of one of them is an action *)
(* of its own and everything else may happen in between.                   *)
(***************************************************************************)
EXTENDS ProviderErrors, FiniteSets

CONSTANTS
    Requests,   \* handler goroutines
    Configs,    \* the configurations Reconfigure may install
    Initial,    \* the one NewEngine is given
    Models,     \* model names a client may ask for
    Direct,     \* "provider/model" names, with the target each one spells out
    Answers,    \* what an upstream may answer: see ProviderErrors
    Kinds,      \* of requests: TRUE for streaming, FALSE for the others
    Impatient,  \* the handlers whose client may leave or whose time may run out
    Providers, Accounts, TargetModels, Star,
    FailureThreshold, SuccessThreshold, OpenTimeout,
    MaxCooldown, LockTime, LevelCap

(***************************************************************************)
(* A configuration is [routes, aliases, registry, maxAttempts,             *)
(* maxCooldown]: routes maps some models to [strategy, targets], aliases   *)
(* some models to a target, registry the providers that have an adapter to *)
(* that adapter: [accounts, errors], its account names and error rules.    *)
(* A target is [provider, model].                                          *)
(***************************************************************************)
VARIABLES
    config,      \* e.routes, e.modelAliases, e.registry, e.retryConfig
    roundRobin,  \* e.roundRobinIdx
    breaker,     \* e.circuitBreakerManager
    cooldown,    \* e.cooldownTracker
    req          \* the handlers

vars == <<config, roundRobin, breaker, cooldown, req>>

ASSUME EngineAssumption ==
    /\ Initial \in Configs
    /\ Kinds \subseteq BOOLEAN
    /\ Impatient \subseteq Requests
    /\ FailureThreshold \in Nat \ {0}
    /\ SuccessThreshold \in Nat \ {0}
    /\ OpenTimeout \in Nat \ {0}
    /\ MaxCooldown \in Nat /\ LockTime \in Nat /\ LevelCap \in Nat
    /\ Star \notin TargetModels

CB == INSTANCE CircuitBreaker WITH MaxFailures <- 0
CD == INSTANCE CooldownTracker WITH Models <- TargetModels

Account(p, a) == <<p, a>>

Stages ==
    {"idle", "snapshot", "routes", "rotate", "breaker", "cooldown", "lock",
     "attempt", "calling", "backoff", "charge", "level", "cool", "lockModel",
     "reset", "unlock", "credit"}

Outcomes == {"none", "served", "refused", "exhausted", "unconfigured", "panic"}

Idle == [pc |-> "idle", model |-> "none", stream |-> FALSE,
         purpose |-> "route", cancelled |-> FALSE, registry |-> << >>,
         targets |-> << >>, ti |-> 1, ai |-> 1, attempt |-> 1,
         err |-> "none", level |-> 1, outcome |-> "none"]

TargetRecord == [provider : Providers, model : TargetModels]

(* What validate (config.go:447) and the loops over a configuration rely   *)
(* on: at least one attempt, and targets and accounts in sequences.  A     *)
(* negative cooldown would end in the past, as one of length 0 does.       *)
WellFormed(c) ==
    /\ c.maxAttempts \in Nat \ {0} /\ c.maxCooldown \in Nat
    /\ \A m \in DOMAIN c.routes : c.routes[m].targets \in Seq(TargetRecord)
    /\ \A m \in DOMAIN c.aliases : c.aliases[m] \in TargetRecord
    /\ \A p \in DOMAIN c.registry :
         LET names == c.registry[p].accounts
         IN  /\ Len(names) \in Nat
             /\ \A i \in 1..Len(names) : Account(p, names[i]) \in Accounts

ASSUME ConfigsAssumption ==
    /\ \A c \in Configs : WellFormed(c)
    /\ \A m \in DOMAIN Direct : Direct[m] \in TargetRecord
    /\ \E c \in Configs : DOMAIN c.registry # {}
    /\ IsFiniteSet(Requests)

Request ==
    [pc : Stages, model : Models \cup {"none"}, stream : BOOLEAN,
     purpose : {"route", "log"}, cancelled : BOOLEAN,
     registry : {c.registry : c \in Configs} \cup {<< >>},
     targets : Seq(TargetRecord), ti : Nat, ai : Nat, attempt : Nat,
     err : ErrorTypes \cup {PlainError, "none"}, level : Nat \ {0},
     outcome : Outcomes]

TypeOK ==
    /\ config \in Configs
    /\ roundRobin \in [Models -> Nat]
    /\ CB!TypeOK
    /\ CD!TypeOK
    /\ req \in [Requests -> Request]

Init ==
    /\ config = Initial
    /\ roundRobin = [m \in Models |-> 0]
    /\ CB!Init
    /\ CD!Init
    /\ req = [r \in Requests |-> Idle]

-----------------------------------------------------------------------------
(* Where a request stands. *)

Goto(r, pc) == req' = [req EXCEPT ![r].pc = pc]

Target(r) == req[r].targets[req[r].ti]
Adapter(r) == req[r].registry[Target(r).provider]
AccountNames(r) == Adapter(r).accounts
Candidate(r) == Account(Target(r).provider, AccountNames(r)[req[r].ai])

NextTarget(r) ==
    req' = [req EXCEPT ![r].pc = "breaker", ![r].ti = @ + 1, ![r].ai = 1,
                       ![r].attempt = 1]

NextAccount(r) ==
    req' = [req EXCEPT ![r].pc = "cooldown", ![r].ai = @ + 1,
                       ![r].attempt = 1]

(* What the handler does with the engine's answer: a streaming handler has *)
(* looked its targets up before, the other one looks them up now, to log.  *)
(* An idle handler keeps no more of its last request than how it ended.    *)
Leave(outcome) == [Idle EXCEPT !.outcome = outcome]

Finished(q, outcome) ==
    IF q.stream
    THEN Leave(outcome)
    ELSE [Idle EXCEPT !.pc = "routes", !.purpose = "log", !.model = q.model,
                      !.cancelled = q.cancelled, !.outcome = outcome]

Finish(r, outcome) == req' = [req EXCEPT ![r] = Finished(@, outcome)]

-----------------------------------------------------------------------------
(* A request arrives. *)

Arrive(r, m, stream) ==
    /\ req[r].pc = "idle"
    /\ req' = [req EXCEPT ![r] =
                 [Idle EXCEPT !.pc = IF stream THEN "routes" ELSE "snapshot",
                              !.purpose = IF stream THEN "log" ELSE "route",
                              !.model = m, !.stream = stream]]
    /\ UNCHANGED <<config, roundRobin, breaker, cooldown>>

(* The client leaves or the request's timeout expires. *)
Cancel(r) ==
    /\ r \in Impatient
    /\ req[r].pc # "idle"
    /\ ~req[r].cancelled
    /\ req' = [req EXCEPT ![r].cancelled = TRUE]
    /\ UNCHANGED <<config, roundRobin, breaker, cooldown>>

(* ChatCompletion and StreamingChatCompletion copy the registry first, ... *)
Snapshot(r) ==
    /\ req[r].pc = "snapshot"
    /\ req' = [req EXCEPT ![r].pc = "routes", ![r].purpose = "route",
                          ![r].registry = config.registry]
    /\ UNCHANGED <<config, roundRobin, breaker, cooldown>>

(* ... then ResolveTargets copies routes and aliases, under a new lock.    *)
PlainTargets(c, m) ==
    IF m \in DOMAIN c.aliases THEN <<c.aliases[m]>>
    ELSE IF m \in DOMAIN Direct THEN <<Direct[m]>>
    ELSE << >>

Resolved(q, targets) ==
    CASE q.purpose = "log" ->
           IF q.stream THEN [q EXCEPT !.pc = "snapshot", !.targets = << >>]
           ELSE Leave(q.outcome)
      [] q.purpose = "route" /\ targets # << >> ->
           [q EXCEPT !.pc = "breaker", !.targets = targets]
      [] OTHER -> Finished(q, "unconfigured")

ReadRoutes(r) ==
    LET m == req[r].model
        routed == m \in DOMAIN config.routes /\ config.routes[m].targets # << >>
    IN  /\ req[r].pc = "routes"
        /\ \/ /\ routed /\ config.routes[m].strategy = "round-robin"
              /\ req' = [req EXCEPT ![r].pc = "rotate",
                                    ![r].targets = config.routes[m].targets]
           \/ /\ routed /\ config.routes[m].strategy # "round-robin"
              /\ req' = [req EXCEPT ![r] =
                           Resolved(@, config.routes[m].targets)]
           \/ /\ ~routed
              /\ req' = [req EXCEPT ![r] =
                           Resolved(@, PlainTargets(config, m))]
        /\ UNCHANGED <<config, roundRobin, breaker, cooldown>>

(* The index is advanced modulo the number of targets just read, then the  *)
(* old index splits them; a slice that starts beyond the end panics, and   *)
(* the recovery middleware ends the request.                               *)
RotatedShort(targets, idx) == \* mutant: the second part ends too early
    SubSeq(targets, idx + 1, Len(targets)) \o SubSeq(targets, 1, idx - 1)

Rotated(targets, idx) ==
    SubSeq(targets, idx + 1, Len(targets)) \o SubSeq(targets, 1, idx)

AdvancedIndex(idx, len) == (idx + 1) % len

Rotate(r) ==
    LET m == req[r].model
        targets == req[r].targets
        idx == roundRobin[m]
    IN  /\ req[r].pc = "rotate"
        /\ roundRobin' = [roundRobin EXCEPT
                            ![m] = AdvancedIndex(@, Len(targets))]
        /\ req' = [req EXCEPT ![r] =
                     IF idx > Len(targets)
                     THEN Leave("panic")
                     ELSE Resolved(@, Rotated(targets, idx))]
        /\ UNCHANGED <<config, breaker, cooldown>>

-----------------------------------------------------------------------------
(* The fallback chain: targets in order, and the accounts of each.         *)

Exhaust(r) ==
    /\ req[r].pc = "breaker"
    /\ req[r].ti > Len(req[r].targets)
    /\ Finish(r, "exhausted")
    /\ UNCHANGED <<config, roundRobin, breaker, cooldown>>

(* Mutant: the breaker's answer is not looked at. *)
CheckRegistryOnly(r) ==
    /\ req[r].pc = "breaker"
    /\ req[r].ti <= Len(req[r].targets)
    /\ IF Target(r).provider \notin DOMAIN req[r].registry
       THEN NextTarget(r)
       ELSE Goto(r, "cooldown")
    /\ UNCHANGED <<config, roundRobin, breaker, cooldown>>

CheckBreaker(r) ==
    /\ req[r].pc = "breaker"
    /\ req[r].ti <= Len(req[r].targets)
    /\ \E open \in BOOLEAN :
         /\ CB!IsOpen(Target(r).provider, open)
         /\ IF open \/ Target(r).provider \notin DOMAIN req[r].registry
            THEN NextTarget(r)
            ELSE Goto(r, "cooldown")
    /\ UNCHANGED <<config, roundRobin, cooldown>>

(* Mutant: the last account is never looked at. *)
CheckCooldownShort(r) ==
    /\ req[r].pc = "cooldown"
    /\ IF req[r].ai >= Len(AccountNames(r)) THEN NextTarget(r)
       ELSE IF CD!IsInCooldown(Candidate(r)) THEN NextAccount(r)
       ELSE Goto(r, "lock")
    /\ UNCHANGED <<config, roundRobin, breaker, cooldown>>

CheckCooldown(r) ==
    /\ req[r].pc = "cooldown"
    /\ IF req[r].ai > Len(AccountNames(r)) THEN NextTarget(r)
       ELSE IF CD!IsInCooldown(Candidate(r)) THEN NextAccount(r)
       ELSE Goto(r, "lock")
    /\ UNCHANGED <<config, roundRobin, breaker, cooldown>>

CheckModelLock(r) ==
    /\ req[r].pc = "lock"
    /\ IF CD!IsModelLocked(Candidate(r), Target(r).model)
       THEN NextAccount(r)
       ELSE Goto(r, "attempt")
    /\ UNCHANGED <<config, roundRobin, breaker, cooldown>>

-----------------------------------------------------------------------------
(* attemptWithRetry and attemptStreamingWithRetry, on one account.         *)

(* Mutant: the context is not looked at. *)
AttemptRegardless(r) ==
    /\ req[r].pc = "attempt"
    /\ IF req[r].attempt > config.maxAttempts THEN Goto(r, "charge")
       ELSE Goto(r, "calling")
    /\ UNCHANGED <<config, roundRobin, breaker, cooldown>>

(* The head of the retry loop.  Attempts exhausted keep the last error; a  *)
(* cancelled context gives an error of the router's own.                   *)
Attempt(r) ==
    /\ req[r].pc = "attempt"
    /\ IF req[r].attempt > config.maxAttempts THEN Goto(r, "charge")
       ELSE IF req[r].cancelled
       THEN req' = [req EXCEPT ![r].pc = "charge", ![r].err = PlainError]
       ELSE Goto(r, "calling")
    /\ UNCHANGED <<config, roundRobin, breaker, cooldown>>

Answer(r, answer) ==
    LET err == AnswerError(answer, req[r].stream, Adapter(r).errors)
        next == CASE err = "none" -> "reset"
                  [] err # "none" /\ ~IsRetryable(err) -> "charge"
                  [] OTHER -> IF req[r].attempt < config.maxAttempts
                              THEN "backoff" ELSE "attempt"
    IN  /\ req[r].pc = "calling"
        /\ req' = [req EXCEPT ![r].pc = next, ![r].err = err,
                              ![r].attempt = IF next = "attempt" THEN @ + 1 ELSE @]
        /\ UNCHANGED <<config, roundRobin, breaker, cooldown>>

(* A call of a request that was cancelled may return without an answer. *)
MayAnswer(r) == Answers \cup {a \in {NoAnswer} : req[r].cancelled}

(* Mutant: being told to wait does not count as an attempt. *)
BackoffUncounted(r) ==
    /\ req[r].pc = "backoff"
    /\ req' = [req EXCEPT ![r].pc = "attempt",
                  ![r].attempt = IF IsQuotaExhausted(req[r].err) THEN @ ELSE @ + 1]
    /\ UNCHANGED <<config, roundRobin, breaker, cooldown>>

(* The select between the backoff timer and ctx.Done(). *)
BackoffOver(r) ==
    /\ req[r].pc = "backoff"
    /\ req' = [req EXCEPT ![r].pc = "attempt", ![r].attempt = @ + 1]
    /\ UNCHANGED <<config, roundRobin, breaker, cooldown>>

BackoffCancelled(r) ==
    /\ req[r].pc = "backoff"
    /\ req[r].cancelled
    /\ req' = [req EXCEPT ![r].pc = "charge", ![r].err = PlainError]
    /\ UNCHANGED <<config, roundRobin, breaker, cooldown>>

-----------------------------------------------------------------------------
(* After a failed account: charge the provider, cool the account down or   *)
(* lock the model, and go on only after a retryable error.                 *)

DecideToGoOn(r) == NextAccount(r) \* mutant: every error is retryable

Decide(r) ==
    IF IsRetryable(req[r].err) THEN NextAccount(r) ELSE Finish(r, "refused")

Charge(r) ==
    /\ req[r].pc = "charge"
    /\ CB!RecordFailure(Target(r).provider)
    /\ IF IsQuotaExhausted(req[r].err) \/ IsAuthFailure(req[r].err)
       THEN Goto(r, "level")
       ELSE IF IsUnsupportedModel(req[r].err) THEN Goto(r, "lockModel")
       ELSE Decide(r)
    /\ UNCHANGED <<config, roundRobin, cooldown>>

(* calculateCooldownDuration reads the level in one critical section and   *)
(* SetCooldown raises it in another.                                       *)
Duration(base, level) ==
    LET grown == base * 2^(level - 1)
    IN  IF grown > MaxCooldown THEN MaxCooldown ELSE grown

ReadLevel(r) ==
    LET level == CD!BackoffLevel(Candidate(r))
    IN  /\ req[r].pc = "level"
        /\ req' = [req EXCEPT ![r].pc = "cool",
                              ![r].level = IF level < 1 THEN 1 ELSE level]
        /\ UNCHANGED <<config, roundRobin, breaker, cooldown>>

Cool(r) ==
    /\ req[r].pc = "cool"
    /\ CD!SetCooldown(Candidate(r),
                      Duration(config.maxCooldown, req[r].level))
    /\ Decide(r)
    /\ UNCHANGED <<config, roundRobin, breaker>>

LockModel(r) ==
    /\ req[r].pc = "lockModel"
    /\ CD!SetModelLock(Candidate(r), Target(r).model, LockTime)
    /\ Decide(r)
    /\ UNCHANGED <<config, roundRobin, breaker>>

-----------------------------------------------------------------------------
(* After an account that answered. *)

ResetBackoff(r) ==
    /\ req[r].pc = "reset"
    /\ CD!ResetBackoffLevel(Candidate(r))
    /\ Goto(r, "unlock")
    /\ UNCHANGED <<config, roundRobin, breaker>>

Unlock(r) ==
    /\ req[r].pc = "unlock"
    /\ CD!ClearModelLock(Candidate(r), Target(r).model)
    /\ Goto(r, "credit")
    /\ UNCHANGED <<config, roundRobin, breaker>>

Credit(r) ==
    /\ req[r].pc = "credit"
    /\ CB!RecordSuccess(Target(r).provider)
    /\ Finish(r, "served")
    /\ UNCHANGED <<config, roundRobin, cooldown>>

-----------------------------------------------------------------------------
(* The engine's environment. *)

(* Reconfigure swaps the configuration and starts a new breaker manager;   *)
(* round-robin indexes and cooldowns survive.                              *)
Reconfigure(c) ==
    /\ config # c
    /\ config' = c
    /\ CB!Renew
    /\ UNCHANGED <<roundRobin, cooldown, req>>

Tick ==
    /\ CB!Tick
    /\ CD!Tick
    /\ UNCHANGED <<config, roundRobin, req>>

Progress(r) ==
    \/ Snapshot(r) \/ ReadRoutes(r) \/ Rotate(r)
    \/ Exhaust(r) \/ CheckBreaker(r) \/ CheckCooldown(r) \/ CheckModelLock(r)
    \/ Attempt(r) \/ BackoffOver(r) \/ BackoffCancelled(r)
    \/ \E answer \in MayAnswer(r) : Answer(r, answer)
    \/ Charge(r) \/ ReadLevel(r) \/ Cool(r) \/ LockModel(r)
    \/ ResetBackoff(r) \/ Unlock(r) \/ Credit(r)

Next ==
    \/ \E r \in Requests :
         \/ \E m \in Models, stream \in Kinds : Arrive(r, m, stream)
         \/ Cancel(r)
         \/ Progress(r)
    \/ \E c \in Configs : Reconfigure(c)
    \/ Tick

Spec == Init /\ [][Next]_vars

(* Handlers are goroutines the Go scheduler runs, the adapters' HTTP       *)
(* clients have timeouts, so a call is answered, and time passes.          *)
Fairness == WF_vars(Tick) /\ \A r \in Requests : WF_vars(Progress(r))

FairSpec == Spec /\ Fairness

-----------------------------------------------------------------------------
Active(r) == req[r].pc # "idle"

InChain(r) ==
    req[r].pc \notin {"idle", "snapshot", "routes", "rotate"}

(* Only a retryable error lets a request call a provider again: while a    *)
(* call is out, the last error this request saw is a retryable one or none.*)
CallsOnlyAfterRetryable ==
    \A r \in Requests :
      req[r].pc \in {"cooldown", "lock", "calling", "backoff"} =>
        req[r].err = "none" \/ IsRetryable(req[r].err)

(* Handlers that passed the breaker before it opened go on through the     *)
(* accounts of that provider.  They are the only ones: the failures an     *)
(* open breaker collects are bounded by the handlers and their accounts.   *)
AccountCounts ==
    UNION {{Len(c.registry[p].accounts) : p \in DOMAIN c.registry} : c \in Configs}

(* Only then is there a largest number.                                    *)
ASSUME AccountsAssumption == IsFiniteSet(AccountCounts)

MaxAccounts == Max(AccountCounts)

LateFailuresBounded ==
    \A p \in Providers :
      breaker[p].failureCount
        <= FailureThreshold - 1 + Cardinality(Requests) * MaxAccounts

(* A provider is never locked out for good: even with failures still       *)
(* arriving from handlers that passed earlier, each breaker again and      *)
(* again lets a request through (or would, were one to ask).               *)
BreakersRecover == \A p \in Providers : []<>~CB!Refuses(breaker[p])

(* Every request ends, whatever the providers answer at each attempt and   *)
(* however often the engine is reconfigured meanwhile, also when that      *)
(* changes the number of attempts while a request backs off.               *)
RequestsEnd == \A r \in Requests : Active(r) ~> ~Active(r)

(* Rotating a round-robin route neither drops nor repeats a target and     *)
(* keeps the fallback order of the others, whatever index another request  *)
(* or an earlier configuration left behind.                                *)
IsRotationOf(s, t) ==
    /\ Len(s) = Len(t)
    /\ \E k \in 0..(Len(t) - 1) :
         \A i \in 1..Len(t) : s[i] = t[((i - 1 + k) % Len(t)) + 1]

RouteTargets(m) ==
    {c.routes[m].targets : c \in {d \in Configs : m \in DOMAIN d.routes}}

TargetsAreRotation ==
    \A r \in Requests :
      InChain(r) /\ RouteTargets(req[r].model) # {} =>
        \E t \in RouteTargets(req[r].model) : IsRotationOf(req[r].targets, t)

(* No request ends in the recovery middleware. *)
NoPanic == \A r \in Requests : req[r].outcome # "panic"

(* With providers that answer and registries that know every provider, no  *)
(* reconfiguration makes a request fail: it is served by a target of the   *)
(* routes it read, although its registry may be of another configuration.  *)
HealthyServed ==
    \A r \in Requests : req[r].outcome \in {"none", "served"}

(* Both, of round-robin routes over healthy providers.                     *)
RotationServes == TargetsAreRotation /\ HealthyServed

=============================================================================
