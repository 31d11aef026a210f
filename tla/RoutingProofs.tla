---------------------------- MODULE RoutingProofs ----------------------------
(***************************************************************************)
(* What the routing engine keeps for every set of configurations,          *)
(* handlers, providers and accounts: a request calls a provider again only *)
(* after a retryable error, never goes back to a candidate it has left,    *)
(* what it charges to providers late is bounded, and it goes through a     *)
(* rotation of its route, whose targets serve it if upstreams answer.      *)
(* Then the types of the engine's state, and when no index of a rotation   *)
(* is beyond the route that it is used for.                                *)
(*                                                                         *)
(* A step of the engine changes the record of one handler.  The proof has  *)
(* a lemma for each way in which a record changes (Good), one for each     *)
(* action that says which of these ways it takes, and then the two counts  *)
(* of failures, which relate the records to breakers and history.          *)
(***************************************************************************)
EXTENDS RoutingHistory, SequenceTheorems, FiniteSetTheorems, TLAPS

-----------------------------------------------------------------------------
(* Where a request stands. *)

ToCharge == {"cooldown", "lock", "attempt", "calling", "backoff", "charge"}
Charged == {"level", "cool", "lockModel"}
Answered == {"reset", "unlock", "credit"}
Trying == ToCharge \cup Charged \cup Answered
Unread == {"idle", "snapshot", "routes", "rotate"}
Fresh == Unread \cup {"breaker", "cooldown", "lock"}
Willing == Fresh \cup {"attempt", "calling", "backoff"}

ProviderOf(q) == q.targets[q.ti].provider

(* The target and the account that a request tries exist. *)
Placed(q) ==
    /\ q.ti >= 1 /\ q.ai >= 1 /\ q.attempt >= 1
    /\ q.pc \in Trying => /\ q.ti <= Len(q.targets)
                          /\ ProviderOf(q) \in DOMAIN q.registry
    /\ q.pc \in Trying \ {"cooldown"} =>
         q.ai <= Len(q.registry[ProviderOf(q)].accounts)
    /\ q.pc = "rotate" => q.targets # << >>
    /\ q.pc # "idle" => q.model \in Models
    /\ q.pc = "idle" => ~q.cancelled

(* On its way to a call it has seen no error that forbids one, ... *)
Mild(q) == q.pc \in Willing => q.err = "none" \/ IsRetryable(q.err)

(* ... and it comes to each account with all attempts before it. *)
First(q) == q.pc \in Fresh => q.attempt = 1

Sound(q) == q \in Request /\ Placed(q) /\ Mild(q) /\ First(q)

(* How many failures a request may still charge once its client is gone.   *)
Logs(q) == q.purpose = "log" /\ ~q.stream

ToCome(q) ==
    IF q.pc \in {"calling", "backoff"} THEN 2
    ELSE IF q.pc = "attempt" THEN IF q.attempt = 1 THEN 1 ELSE 2
    ELSE IF q.pc = "charge" THEN IF IsRetryable(q.err) THEN 2 ELSE 1
    ELSE IF q.pc \in Charged THEN IF IsRetryable(q.err) THEN 1 ELSE 0
    ELSE IF q.pc \in {"routes", "rotate"} THEN IF Logs(q) THEN 0 ELSE 1
    ELSE IF q.pc \in {"snapshot", "breaker", "cooldown", "lock"} THEN 1
    ELSE 0

(* n of them have been charged. *)
InBudget(q, n) == IF q.cancelled THEN n + ToCome(q) <= 2 ELSE n = 0

(* What Remember does with n when q becomes s. *)
Tally(q, s, n) ==
    IF s.pc = "idle" THEN 0
    ELSE IF q.pc = "charge" /\ s.pc # "charge" /\ q.cancelled THEN n + 1 ELSE n

(* The request may still charge a failure of account i to provider p.      *)
Due(q, p, i) ==
    /\ q.pc \in ToCharge \cup Charged
    /\ ProviderOf(q) = p
    /\ IF q.pc \in ToCharge THEN q.ai <= i ELSE q.ai < i

(* A step from q to s keeps the request sound and within its budget, and   *)
(* makes nothing due that was not, but for the step that passes the        *)
(* breaker.                                                                *)
Good(q, s) ==
    /\ Sound(s)
    /\ \A n \in Nat : InBudget(q, n) => InBudget(s, Tally(q, s, n))
    /\ q.pc # "breaker" =>
         \A p \in Providers, i \in Nat : Due(s, p, i) => Due(q, p, i)
    /\ q.pc = "charge" /\ s.pc # "charge" =>
         \A p \in Providers : ~Due(s, p, q.ai)

-----------------------------------------------------------------------------
(* The ways in which a record changes. *)

LEMMA Fields ==
  ASSUME NEW q \in Request
  PROVE  /\ q.pc \in Stages /\ q.model \in Models \cup {"none"}
         /\ q.stream \in BOOLEAN /\ q.purpose \in {"route", "log"}
         /\ q.cancelled \in BOOLEAN
         /\ q.registry \in {c.registry : c \in Configs} \cup {<< >>}
         /\ q.targets \in Seq(TargetRecord) /\ q.ti \in Nat /\ q.ai \in Nat
         /\ q.attempt \in Nat /\ q.err \in ErrorTypes \cup {PlainError, "none"}
         /\ q.level \in Nat \ {0} /\ q.outcome \in Outcomes
BY DEF Request

LEMMA IdleTyped == Idle \in Request
<1>1. << >> \in Seq(TargetRecord)
  OBVIOUS
<1> QED BY <1>1 DEF Idle, Request, Stages, Outcomes

Moved(q, pc) == [q EXCEPT !.pc = pc]
ToTarget(q) == [q EXCEPT !.pc = "breaker", !.ti = @ + 1, !.ai = 1, !.attempt = 1]
ToAccount(q) == [q EXCEPT !.pc = "cooldown", !.ai = @ + 1, !.attempt = 1]
Erring(q, pc, e, n) == [q EXCEPT !.pc = pc, !.err = e, !.attempt = n]

LEMMA MovedFields ==
  ASSUME NEW q \in Request, NEW pc \in Stages
  PROVE  LET s == Moved(q, pc) IN
         /\ s \in Request /\ s.pc = pc /\ s.model = q.model /\ s.stream = q.stream
         /\ s.purpose = q.purpose /\ s.cancelled = q.cancelled
         /\ s.registry = q.registry /\ s.targets = q.targets /\ s.ti = q.ti
         /\ s.ai = q.ai /\ s.attempt = q.attempt /\ s.err = q.err
BY DEF Moved, Request

LEMMA ToTargetFields ==
  ASSUME NEW q \in Request
  PROVE  LET s == ToTarget(q) IN
         /\ s \in Request /\ s.pc = "breaker" /\ s.model = q.model
         /\ s.stream = q.stream /\ s.purpose = q.purpose
         /\ s.cancelled = q.cancelled /\ s.registry = q.registry
         /\ s.targets = q.targets /\ s.ti = q.ti + 1
         /\ s.ai = 1 /\ s.attempt = 1 /\ s.err = q.err
<1>1. PICK t \in Nat : t = q.ti + 1
  BY Fields
<1>2. ToTarget(q) = [q EXCEPT !.pc = "breaker", !.ti = t, !.ai = 1, !.attempt = 1]
  BY <1>1 DEF ToTarget
<1>3. 1 \in Nat /\ "breaker" \in Stages
  BY DEF Stages
<1> DEFINE s == ToTarget(q)
<1> HIDE DEF s
<1>4. /\ s \in Request /\ s.pc = "breaker" /\ s.model = q.model
      /\ s.stream = q.stream /\ s.purpose = q.purpose
      /\ s.cancelled = q.cancelled /\ s.registry = q.registry
      /\ s.targets = q.targets /\ s.ti = t
      /\ s.ai = 1 /\ s.attempt = 1 /\ s.err = q.err
  <2>1. s = [q EXCEPT !.pc = "breaker", !.ti = t, !.ai = 1, !.attempt = 1]
    BY <1>2 DEF s
  <2> QED BY <1>1, <1>3, <2>1, Fields DEF Request
<1> QED BY <1>1, <1>4 DEF s

LEMMA ToAccountFields ==
  ASSUME NEW q \in Request
  PROVE  LET s == ToAccount(q) IN
         /\ s \in Request /\ s.pc = "cooldown" /\ s.model = q.model
         /\ s.stream = q.stream /\ s.purpose = q.purpose
         /\ s.cancelled = q.cancelled /\ s.registry = q.registry
         /\ s.targets = q.targets /\ s.ti = q.ti
         /\ s.ai = q.ai + 1 /\ s.attempt = 1 /\ s.err = q.err
<1>1. PICK a \in Nat : a = q.ai + 1
  BY Fields
<1>2. ToAccount(q) = [q EXCEPT !.pc = "cooldown", !.ti = q.ti, !.ai = a,
                               !.attempt = 1]
  BY <1>1 DEF ToAccount, Request
<1>3. q.ti \in Nat /\ 1 \in Nat /\ "cooldown" \in Stages
  BY Fields DEF Stages
<1> DEFINE s == ToAccount(q)
<1> HIDE DEF s
<1>4. /\ s \in Request /\ s.pc = "cooldown" /\ s.model = q.model
      /\ s.stream = q.stream /\ s.purpose = q.purpose
      /\ s.cancelled = q.cancelled /\ s.registry = q.registry
      /\ s.targets = q.targets /\ s.ti = q.ti
      /\ s.ai = a /\ s.attempt = 1 /\ s.err = q.err
  <2>1. s = [q EXCEPT !.pc = "cooldown", !.ti = q.ti, !.ai = a, !.attempt = 1]
    BY <1>2 DEF s
  <2> QED BY <1>1, <1>3, <2>1, Fields DEF Request
<1> QED BY <1>1, <1>4 DEF s

LEMMA ErringFields ==
  ASSUME NEW q \in Request, NEW pc \in Stages, NEW n \in Nat,
         NEW e \in ErrorTypes \cup {PlainError, "none"}
  PROVE  LET s == Erring(q, pc, e, n) IN
         /\ s \in Request /\ s.pc = pc /\ s.model = q.model
         /\ s.stream = q.stream /\ s.purpose = q.purpose
         /\ s.cancelled = q.cancelled /\ s.registry = q.registry
         /\ s.targets = q.targets /\ s.ti = q.ti
         /\ s.ai = q.ai /\ s.attempt = n /\ s.err = e
BY DEF Erring, Request

-----------------------------------------------------------------------------
(* The errors an upstream answer may give. *)

LEMMA ErrorsTyped ==
  ASSUME NEW answer, NEW stream, NEW rules
  PROVE  AnswerError(answer, stream, rules) \in ErrorTypes \cup {"none"}
<1>1. \A rule : RuleType(rule) \in ErrorTypes
  BY DEF RuleType, ErrorTypes
<1>2. \A status, message : DefaultType(status, message) \in ErrorTypes
  BY DEF DefaultType, classifyBadRequest, ErrorTypes
<1>3. ClassifyHTTPError(answer.status, answer.message, rules) \in ErrorTypes
  BY <1>1, <1>2 DEF ClassifyHTTPError
<1> QED BY <1>3 DEF AnswerError, ErrorTypes

(* A request that ends, or that goes back to the routes for the log.       *)
LEMMA LeaveGood ==
  ASSUME NEW q, NEW outcome \in Outcomes
  PROVE  Good(q, Leave(outcome))
<1> DEFINE s == Leave(outcome)
<1>1. /\ s \in Request /\ s.pc = "idle" /\ s.err = "none" /\ s.attempt = 1
      /\ s.ti = 1 /\ s.ai = 1 /\ s.cancelled = FALSE
  BY IdleTyped DEF Leave, Idle, Request
<1> HIDE DEF s
<1>2. Sound(s)
  BY <1>1 DEF Sound, Placed, Mild, First, Trying, ToCharge, Charged, Answered
<1>3. \A n \in Nat : InBudget(s, Tally(q, s, n))
  BY <1>1 DEF InBudget, Tally
<1>4. \A p, i : ~Due(s, p, i)
  BY <1>1 DEF Due, ToCharge, Charged
<1> QED BY <1>1, <1>2, <1>3, <1>4 DEF Good, Unread, s

LEMMA FinishedGood ==
  ASSUME NEW q, Sound(q), q.pc # "idle", NEW outcome \in Outcomes,
         q.pc \in {"routes", "rotate"} => q.purpose = "route",
         q.pc = "charge" => ~IsRetryable(q.err)
  PROVE  Good(q, Finished(q, outcome))
<1>1. CASE q.stream
  BY <1>1, LeaveGood DEF Finished
<1>2. CASE ~q.stream
  <2> DEFINE s == Finished(q, outcome)
  <2>0. q \in Request /\ q.model \in Models /\ q.cancelled \in BOOLEAN
    BY Fields DEF Sound, Placed
  <2>1. /\ s \in Request /\ s.pc = "routes" /\ s.purpose = "log"
        /\ s.model = q.model /\ s.cancelled = q.cancelled /\ s.stream = FALSE
        /\ s.err = "none" /\ s.attempt = 1 /\ s.ti = 1 /\ s.ai = 1
    <3>1. s = [Idle EXCEPT !.pc = "routes", !.purpose = "log", !.model = q.model,
                           !.cancelled = q.cancelled, !.outcome = outcome]
      BY <1>2 DEF Finished
    <3> HIDE DEF s
    <3> QED BY <2>0, <3>1, IdleTyped, ZenonT(60) DEF Idle, Request, Stages
  <2> HIDE DEF s
  <2>2. Sound(s)
    BY <2>0, <2>1 DEF Sound, Placed, Mild, First, Trying, ToCharge, Charged, Answered
  <2>3. ToCome(s) = 0 /\ ToCome(q) \in Nat /\ (q.pc = "charge" => ToCome(q) = 1)
    BY <2>1 DEF ToCome, Charged, Logs
  <2>4. \A n \in Nat : InBudget(q, n) => InBudget(s, Tally(q, s, n))
    BY <2>0, <2>1, <2>3 DEF InBudget, Tally
  <2>5. \A p, i : ~Due(s, p, i)
    BY <2>1 DEF Due, ToCharge, Charged
  <2> QED BY <2>1, <2>2, <2>4, <2>5 DEF Good, Unread, s
<1> QED BY <1>1, <1>2

(* The next target. *)
LEMMA ToTargetGood ==
  ASSUME NEW q, Sound(q), q.pc \in {"breaker", "cooldown"}
  PROVE  Good(q, ToTarget(q))
<1> DEFINE s == ToTarget(q)
<1>0. q \in Request /\ q.ti \in Nat /\ q.cancelled \in BOOLEAN
  BY Fields DEF Sound
<1>1. /\ s \in Request /\ s.pc = "breaker" /\ s.model = q.model
      /\ s.cancelled = q.cancelled
      /\ s.ti = q.ti + 1 /\ s.ai = 1 /\ s.attempt = 1 /\ s.err = q.err
  BY <1>0, ToTargetFields
<1> HIDE DEF s
<1>2. Sound(s)
  BY <1>0, <1>1 DEF Sound, Placed, Mild, First, Trying, ToCharge, Charged, Answered,
     Willing, Fresh, Unread
<1>3. ToCome(s) = 1 /\ ToCome(q) = 1
  BY <1>1 DEF ToCome, Charged
<1>4. \A n \in Nat : InBudget(q, n) => InBudget(s, Tally(q, s, n))
  BY <1>0, <1>1, <1>3 DEF InBudget, Tally
<1>6. \A p, i : ~Due(s, p, i)
  BY <1>1 DEF Due, ToCharge, Charged
<1> QED BY <1>1, <1>2, <1>4, <1>6 DEF Good, s

(* The next account. *)
LEMMA ToAccountGood ==
  ASSUME NEW q, Sound(q), q.pc \in {"cooldown", "lock", "charge", "cool", "lockModel"},
         q.pc \in {"charge", "cool", "lockModel"} => IsRetryable(q.err)
  PROVE  Good(q, ToAccount(q))
<1> DEFINE s == ToAccount(q)
<1>0. /\ q \in Request /\ q.ti \in Nat /\ q.ai \in Nat /\ q.attempt \in Nat
      /\ q.cancelled \in BOOLEAN
  BY Fields DEF Sound
<1>1. /\ s \in Request /\ s.pc = "cooldown" /\ s.model = q.model
      /\ s.cancelled = q.cancelled /\ s.registry = q.registry
      /\ s.targets = q.targets /\ s.ti = q.ti
      /\ s.ai = q.ai + 1 /\ s.attempt = 1 /\ s.err = q.err
  BY <1>0, ToAccountFields
<1> HIDE DEF s
<1>2. ProviderOf(s) = ProviderOf(q)
  BY <1>1 DEF ProviderOf
<1>3. Sound(s)
  <2>1. Placed(s)
    BY <1>0, <1>1, <1>2 DEF Sound, Placed, Trying, ToCharge, Charged, Answered
  <2>2. Mild(s)
    BY <1>1 DEF Sound, Mild, Willing, Fresh, Unread
  <2> QED BY <1>1, <2>1, <2>2 DEF Sound, First
<1>4. ToCome(s) = 1 /\ (IF q.pc = "charge" THEN ToCome(q) = 2 ELSE ToCome(q) = 1)
  BY <1>1 DEF ToCome, Charged
<1>5. \A n \in Nat : InBudget(q, n) => InBudget(s, Tally(q, s, n))
  BY <1>0, <1>1, <1>4 DEF InBudget, Tally
<1>7. \A p : \A i \in Nat : Due(s, p, i) => Due(q, p, i) /\ i # q.ai
  BY <1>0, <1>1, <1>2 DEF Due, ToCharge, Charged
<1> QED BY <1>0, <1>3, <1>5, <1>7 DEF Good, s

(* A step that stays with the account.                                     *)
LEMMA StayGood ==
  ASSUME NEW q, NEW s \in Request, Sound(q),
         q.pc \in Trying, s.pc \in Trying \ {"cooldown"},
         s.model = q.model, s.cancelled = q.cancelled, s.registry = q.registry,
         s.targets = q.targets, s.ti = q.ti, s.ai = q.ai,
         q.attempt <= s.attempt, Mild(s), First(s),
         q.pc = "cooldown" => q.ai <= Len(q.registry[ProviderOf(q)].accounts),
         s.pc \in ToCharge => q.pc \in ToCharge,
         s.pc \in Charged => q.pc \in ToCharge \cup Charged,
         q.pc = "charge" => s.pc \in Charged,
         q.cancelled => ToCome(s) + (IF q.pc = "charge" THEN 1 ELSE 0) <= ToCome(q)
  PROVE  Good(q, s)
<1>0. /\ q \in Request /\ q.ti \in Nat /\ q.ai \in Nat /\ q.attempt \in Nat
      /\ s.attempt \in Nat /\ q.cancelled \in BOOLEAN
  BY Fields DEF Sound
<1>1. ProviderOf(s) = ProviderOf(q)
  BY DEF ProviderOf
<1>2. Sound(s)
  <2>1. Placed(s)
    BY <1>0, <1>1 DEF Sound, Placed, Trying, ToCharge, Charged, Answered
  <2> QED BY <2>1 DEF Sound
<1>3. ToCome(q) \in Nat /\ ToCome(s) \in Nat
  BY DEF ToCome
<1>4. \A n \in Nat : InBudget(q, n) => InBudget(s, Tally(q, s, n))
  BY <1>0, <1>3 DEF InBudget, Tally, Trying, ToCharge, Charged, Answered
<1>6. \A p : \A i \in Nat : Due(s, p, i) => Due(q, p, i)
  BY <1>0, <1>1 DEF Due, ToCharge, Charged
<1>7. q.pc = "charge" => \A p : ~Due(s, p, q.ai)
  BY <1>0, <1>1 DEF Due, ToCharge, Charged
<1> QED BY <1>2, <1>4, <1>6, <1>7 DEF Good

(* Pairs of stages that only move the handler on.                          *)
LEMMA MovedGood ==
  ASSUME NEW q, Sound(q), NEW pc,
         \/ q.pc = "cooldown" /\ pc = "lock"
            /\ q.ai <= Len(q.registry[ProviderOf(q)].accounts)
         \/ q.pc = "lock" /\ pc = "attempt"
         \/ q.pc = "attempt" /\ pc = "calling" /\ ~q.cancelled
         \/ q.pc = "attempt" /\ pc = "charge" /\ q.attempt # 1
         \/ q.pc = "charge" /\ pc \in {"level", "lockModel"}
         \/ q.pc = "reset" /\ pc = "unlock"
         \/ q.pc = "unlock" /\ pc = "credit"
  PROVE  Good(q, Moved(q, pc))
<1> DEFINE s == Moved(q, pc)
<1>0. q \in Request /\ pc \in Stages /\ q.attempt \in Nat
  BY Fields DEF Sound, Stages
<1>1. /\ s \in Request /\ s.pc = pc /\ s.model = q.model
      /\ s.cancelled = q.cancelled
      /\ s.registry = q.registry /\ s.targets = q.targets /\ s.ti = q.ti
      /\ s.ai = q.ai /\ s.attempt = q.attempt /\ s.err = q.err
  BY <1>0, MovedFields
<1> HIDE DEF s
<1>2. Mild(s)
  BY <1>1 DEF Sound, Mild, Willing, Fresh, Unread
<1>3. First(s)
  BY <1>1 DEF Sound, First, Fresh, Unread
<1>4. q.cancelled => ToCome(s) + (IF q.pc = "charge" THEN 1 ELSE 0) <= ToCome(q)
  BY <1>1 DEF Sound, First, Fresh, Unread, ToCome, Charged
<1>5. q.attempt <= s.attempt
  BY <1>0, <1>1
<1>6. /\ q.pc \in Trying /\ s.pc \in Trying \ {"cooldown"}
      /\ s.pc \in ToCharge => q.pc \in ToCharge
      /\ s.pc \in Charged => q.pc \in ToCharge \cup Charged
      /\ q.pc = "charge" => s.pc \in Charged
      /\ q.pc = "cooldown" => q.ai <= Len(q.registry[ProviderOf(q)].accounts)
  BY <1>1 DEF Trying, ToCharge, Charged, Answered
<1> QED BY <1>1, <1>2, <1>3, <1>4, <1>5, <1>6, StayGood DEF s

(* Steps of the attempts, which also set the error and the count.          *)
LEMMA ErringGood ==
  ASSUME NEW q, Sound(q), NEW pc, NEW e \in ErrorTypes \cup {PlainError, "none"},
         NEW n,
         \/ q.pc = "calling" /\ n = q.attempt /\ pc = "reset"
         \/ q.pc = "calling" /\ n = q.attempt /\ pc = "charge" /\ ~IsRetryable(e)
         \/ q.pc = "calling" /\ n = q.attempt /\ pc = "backoff" /\ IsRetryable(e)
         \/ q.pc = "calling" /\ n = q.attempt + 1 /\ pc = "attempt" /\ IsRetryable(e)
         \/ q.pc \in {"attempt", "backoff"} /\ n = q.attempt /\ pc = "charge"
            /\ e = PlainError
         \/ q.pc = "backoff" /\ n = q.attempt + 1 /\ pc = "attempt" /\ e = q.err
  PROVE  Good(q, Erring(q, pc, e, n))
<1> DEFINE s == Erring(q, pc, e, n)
<1>0. q \in Request /\ pc \in Stages /\ q.attempt \in Nat /\ n \in Nat
      /\ q.attempt >= 1
  BY Fields DEF Sound, Placed, Stages
<1>1. /\ s \in Request /\ s.pc = pc /\ s.model = q.model
      /\ s.cancelled = q.cancelled
      /\ s.registry = q.registry /\ s.targets = q.targets /\ s.ti = q.ti
      /\ s.ai = q.ai /\ s.attempt = n /\ s.err = e
  BY <1>0, ErringFields
<1> HIDE DEF s
<1>2. Mild(s)
  BY <1>1 DEF Sound, Mild, Willing, Fresh, Unread
<1>3. First(s)
  BY <1>1 DEF First, Fresh, Unread
<1>4. ~IsRetryable(PlainError)
  BY DEF IsRetryable, PlainError
<1>5. q.cancelled => ToCome(s) + (IF q.pc = "charge" THEN 1 ELSE 0) <= ToCome(q)
  BY <1>1, <1>4 DEF ToCome, Charged
<1>6. q.attempt <= s.attempt
  BY <1>0, <1>1
<1>7. /\ q.pc \in Trying /\ s.pc \in Trying \ {"cooldown"}
      /\ s.pc \in ToCharge => q.pc \in ToCharge
      /\ s.pc \in Charged => q.pc \in ToCharge \cup Charged
      /\ q.pc # "charge" /\ q.pc # "cooldown"
  BY <1>1 DEF Trying, ToCharge, Charged, Answered
<1> QED BY <1>1, <1>2, <1>3, <1>5, <1>6, <1>7, StayGood DEF s

LEMMA LeveledGood ==
  ASSUME NEW q, Sound(q), q.pc = "level", NEW l \in Nat \ {0}
  PROVE  Good(q, [q EXCEPT !.pc = "cool", !.level = l])
<1> DEFINE s == [q EXCEPT !.pc = "cool", !.level = l]
<1>0. q \in Request /\ q.attempt \in Nat
  BY Fields DEF Sound
<1>1. /\ s \in Request /\ s.pc = "cool" /\ s.model = q.model
      /\ s.cancelled = q.cancelled
      /\ s.registry = q.registry /\ s.targets = q.targets /\ s.ti = q.ti
      /\ s.ai = q.ai /\ s.attempt = q.attempt /\ s.err = q.err
  BY <1>0 DEF Request, Stages
<1> HIDE DEF s
<1>2. Mild(s) /\ First(s)
  BY <1>1 DEF Mild, First, Willing, Fresh, Unread
<1>3. ToCome(s) <= ToCome(q)
  BY <1>1 DEF ToCome, Charged
<1>4. /\ q.pc \in Trying /\ s.pc \in Trying \ {"cooldown"}
      /\ s.pc \notin ToCharge /\ s.pc \in Charged /\ q.pc \in ToCharge \cup Charged
      /\ q.pc # "charge" /\ q.pc # "cooldown" /\ q.attempt <= s.attempt
  BY <1>0, <1>1 DEF Trying, ToCharge, Charged, Answered
<1>5. ToCome(s) + 0 <= ToCome(q)
  BY <1>3 DEF ToCome
<1> QED BY <1>1, <1>2, <1>4, <1>5, StayGood DEF s

(* Before the chain.                                                       *)
LEMMA EnterGood ==
  ASSUME NEW q, NEW s \in Request, Sound(q),
         q.pc \in {"snapshot", "routes", "rotate"},
         s.pc \in {"snapshot", "routes", "rotate", "breaker"},
         s.model = q.model, s.cancelled = q.cancelled, s.ti = q.ti, s.ai = q.ai,
         s.attempt = q.attempt, s.err = q.err,
         s.pc = "rotate" => s.targets # << >>,
         ToCome(s) <= ToCome(q)
  PROVE  Good(q, s)
<1>1. Sound(s)
  BY DEF Sound, Placed, Mild, First, Willing, Fresh, Unread, Trying, ToCharge,
         Charged, Answered
<1>2. ToCome(q) \in Nat /\ ToCome(s) \in Nat
  BY DEF ToCome
<1>3. \A n \in Nat : InBudget(q, n) => InBudget(s, Tally(q, s, n))
  BY <1>2 DEF InBudget, Tally
<1>4. \A p, i : ~Due(s, p, i)
  BY DEF Due, ToCharge, Charged
<1> QED BY <1>1, <1>3, <1>4 DEF Good, Unread

LEMMA ArriveGood ==
  ASSUME NEW q, NEW m \in Models, NEW stream \in BOOLEAN, Sound(q), q.pc = "idle"
  PROVE  Good(q, [Idle EXCEPT !.pc = IF stream THEN "routes" ELSE "snapshot",
                              !.purpose = IF stream THEN "log" ELSE "route",
                              !.model = m, !.stream = stream])
<1> DEFINE s == [Idle EXCEPT !.pc = IF stream THEN "routes" ELSE "snapshot",
                             !.purpose = IF stream THEN "log" ELSE "route",
                             !.model = m, !.stream = stream]
<1>1. PICK pc \in {"routes", "snapshot"} : pc = IF stream THEN "routes" ELSE "snapshot"
  OBVIOUS
<1>2. PICK u \in {"log", "route"} : u = IF stream THEN "log" ELSE "route"
  OBVIOUS
<1>3. s = [Idle EXCEPT !.pc = pc, !.purpose = u, !.model = m, !.stream = stream]
  BY <1>1, <1>2
<1> HIDE DEF s
<1>4. /\ s \in Request /\ s.pc = pc /\ s.model = m /\ s.cancelled = FALSE
      /\ s.ti = 1 /\ s.ai = 1 /\ s.attempt = 1 /\ s.err = "none"
  BY <1>1, <1>2, <1>3, IdleTyped, ZenonT(60) DEF Idle, Request, Stages
<1>5. Sound(s)
  BY <1>4 DEF Sound, Placed, Mild, First, Willing, Fresh, Unread, Trying, ToCharge,
         Charged, Answered
<1>6. q.cancelled = FALSE
  BY Fields DEF Sound, Placed
<1>7. \A n \in Nat : InBudget(q, n) => InBudget(s, Tally(q, s, n))
  BY <1>4, <1>6 DEF InBudget, Tally
<1>8. \A p, i : ~Due(s, p, i)
  BY <1>4 DEF Due, ToCharge, Charged
<1> QED BY <1>4, <1>5, <1>7, <1>8 DEF Good, Unread, s

LEMMA CancelGood ==
  ASSUME NEW q, Sound(q), q.pc # "idle", ~q.cancelled
  PROVE  Good(q, [q EXCEPT !.cancelled = TRUE])
<1>1. PICK b \in BOOLEAN : b = TRUE
  OBVIOUS
<1> DEFINE s == [q EXCEPT !.cancelled = b]
<1>0. q \in Request /\ q.ti \in Nat /\ q.ai \in Nat /\ q.attempt \in Nat
  BY Fields DEF Sound
<1>2. /\ s \in Request /\ s.pc = q.pc /\ s.model = q.model /\ s.stream = q.stream
      /\ s.purpose = q.purpose /\ s.cancelled = b
      /\ s.registry = q.registry /\ s.targets = q.targets /\ s.ti = q.ti
      /\ s.ai = q.ai /\ s.attempt = q.attempt /\ s.err = q.err
  BY <1>0 DEF Request
<1> HIDE DEF s
<1>3. ProviderOf(s) = ProviderOf(q)
  BY <1>2 DEF ProviderOf
<1>4. Sound(s)
  BY <1>2, <1>3 DEF Sound, Placed, Mild, First
<1>5. ToCome(s) \in 0..2
  BY DEF ToCome
<1>6. \A n \in Nat : InBudget(q, n) => InBudget(s, Tally(q, s, n))
  BY <1>1, <1>2, <1>5 DEF InBudget, Tally
<1>8. \A p : \A i \in Nat : Due(s, p, i) => Due(q, p, i)
  BY <1>2, <1>3 DEF Due
<1>9. Good(q, s)
  BY <1>2, <1>4, <1>6, <1>8 DEF Good
<1> QED BY <1>1, <1>9 DEF s

(* Past the breaker, to the accounts of a provider.                        *)
LEMMA PassGood ==
  ASSUME NEW q, Sound(q), q.pc = "breaker", q.ti <= Len(q.targets),
         ProviderOf(q) \in DOMAIN q.registry
  PROVE  Good(q, Moved(q, "cooldown"))
<1> DEFINE s == Moved(q, "cooldown")
<1>0. /\ q \in Request /\ "cooldown" \in Stages /\ q.attempt \in Nat
      /\ q.ti \in Nat /\ q.ai \in Nat /\ q.cancelled \in BOOLEAN
  BY Fields DEF Sound, Stages
<1>1. /\ s \in Request /\ s.pc = "cooldown" /\ s.model = q.model
      /\ s.cancelled = q.cancelled
      /\ s.registry = q.registry /\ s.targets = q.targets /\ s.ti = q.ti
      /\ s.ai = q.ai /\ s.attempt = q.attempt /\ s.err = q.err
  BY <1>0, MovedFields
<1> HIDE DEF s
<1>2. ProviderOf(s) = ProviderOf(q)
  BY <1>1 DEF ProviderOf
<1>3. Sound(s)
  BY <1>0, <1>1, <1>2 DEF Sound, Placed, Mild, First, Willing, Fresh, Unread,
     Trying, ToCharge, Charged, Answered
<1>4. ToCome(s) = 1 /\ ToCome(q) = 1
  BY <1>1 DEF ToCome, Charged
<1>5. \A n \in Nat : InBudget(q, n) => InBudget(s, Tally(q, s, n))
  BY <1>0, <1>1, <1>4 DEF InBudget, Tally
<1> QED BY <1>1, <1>3, <1>5 DEF Good, s

-----------------------------------------------------------------------------
(* The breakers, by the lemmas about CircuitBreaker, and what each of      *)
(* their steps does to the count of failures.                              *)

CBP == INSTANCE CircuitBreakerProofs WITH MaxFailures <- 0

Consistent(b) == b \in CB!Breaker /\ CBP!Sound(b)

LEMMA SameBreakers ==
  ASSUME NEW b
  PROVE  /\ CB!Breaker = CBP!Breaker
         /\ CB!AfterLook(b) = CBP!AfterLook(b)
         /\ CB!AfterFailure(b) = CBP!AfterFailure(b)
         /\ CB!AfterSuccess(b) = CBP!AfterSuccess(b)
<1>1. CB!Breaker = CBP!Breaker
  BY DEF CB!Breaker, CBP!Breaker, CB!Phase, CBP!Phase
<1>2. /\ CB!AfterLook(b) = CBP!AfterLook(b)
      /\ CB!AfterFailure(b) = CBP!AfterFailure(b)
      /\ CB!AfterSuccess(b) = CBP!AfterSuccess(b)
  BY DEF CB!AfterLook, CBP!AfterLook, CB!Expired, CBP!Expired, CB!AfterFailure,
         CBP!AfterFailure, CB!AfterSuccess, CBP!AfterSuccess
<1> QED BY <1>1, <1>2

LEMMA BreakerFields ==
  ASSUME NEW b, Consistent(b)
  PROVE  /\ b.failureCount \in Nat /\ b.state \in CB!Phase
         /\ b.state = "Open" <=> b.failureCount >= FailureThreshold
BY DEF Consistent, CB!Breaker, CBP!Sound

LEMMA LookKept ==
  ASSUME NEW b, Consistent(b)
  PROVE  LET c == CB!AfterLook(b) IN
         /\ Consistent(c)
         /\ c.failureCount <= b.failureCount
         /\ ~CB!Refuses(b) => c.failureCount < FailureThreshold
<1> DEFINE c == CB!AfterLook(b)
<1>1. b \in CBP!Breaker /\ CBP!Sound(b)
  BY SameBreakers DEF Consistent
<1>2. CBP!AfterLook(b) \in CBP!Breaker /\ CBP!Sound(CBP!AfterLook(b))
  BY <1>1, CBP!LookSound, EngineAssumption, Zenon
<1>3. Consistent(c)
  BY <1>2, SameBreakers DEF Consistent
<1>4. c.failureCount = 0 \/ c = b
  BY DEF CB!AfterLook, Consistent, CB!Breaker
<1> HIDE DEF c
<1>5. c.failureCount <= b.failureCount
  BY <1>3, <1>4, BreakerFields
<1>6. ~CB!Refuses(b) => c.failureCount < FailureThreshold
  BY <1>3, BreakerFields, EngineAssumption DEF CB!Refuses, c
<1> QED BY <1>3, <1>5, <1>6 DEF c

LEMMA FailureKept ==
  ASSUME NEW b, Consistent(b)
  PROVE  LET c == CB!AfterFailure(b) IN
         Consistent(c) /\ c.failureCount = b.failureCount + 1
<1> DEFINE c == CB!AfterFailure(b)
<1>1. b \in CBP!Breaker /\ CBP!Sound(b)
  BY SameBreakers DEF Consistent
<1>2. CBP!AfterFailure(b) \in CBP!Breaker /\ CBP!Sound(CBP!AfterFailure(b))
  BY <1>1, CBP!FailureSound, EngineAssumption, Zenon
<1>3. Consistent(c)
  BY <1>2, SameBreakers DEF Consistent
<1>4. c.failureCount = b.failureCount + 1
  BY DEF CB!AfterFailure, Consistent, CB!Breaker
<1> QED BY <1>3, <1>4

LEMMA SuccessKept ==
  ASSUME NEW b, Consistent(b)
  PROVE  LET c == CB!AfterSuccess(b) IN
         Consistent(c) /\ c.failureCount <= b.failureCount
<1> DEFINE c == CB!AfterSuccess(b)
<1>1. b \in CBP!Breaker /\ CBP!Sound(b)
  BY SameBreakers DEF Consistent
<1>2. CBP!AfterSuccess(b) \in CBP!Breaker /\ CBP!Sound(CBP!AfterSuccess(b))
  BY <1>1, CBP!SuccessSound, EngineAssumption, Zenon
<1>3. Consistent(c)
  BY <1>2, SameBreakers DEF Consistent
<1>4. c.failureCount = 0 \/ c.failureCount = b.failureCount
  BY DEF CB!AfterSuccess, Consistent, CB!Breaker
<1> HIDE DEF c
<1>5. c.failureCount <= b.failureCount
  BY <1>3, <1>4, BreakerFields
<1> QED BY <1>3, <1>5 DEF c

LEMMA OlderKept ==
  ASSUME NEW b, Consistent(b)
  PROVE  LET c == [b EXCEPT !.openLeft = IF @ = 0 THEN 0 ELSE @ - 1] IN
         Consistent(c) /\ c.failureCount = b.failureCount
<1>1. b \in CBP!Breaker /\ CBP!Sound(b)
  BY SameBreakers DEF Consistent
<1>2. CBP!Older(b) \in CBP!Breaker /\ CBP!Sound(CBP!Older(b))
  BY <1>1, CBP!OlderSound, EngineAssumption, Zenon
<1>3. CBP!Older(b) = [b EXCEPT !.openLeft = IF @ = 0 THEN 0 ELSE @ - 1]
  BY DEF CBP!Older
<1>4. [b EXCEPT !.openLeft = IF @ = 0 THEN 0 ELSE @ - 1].failureCount
        = b.failureCount
  BY DEF Consistent, CB!Breaker
<1> QED BY <1>2, <1>3, <1>4, SameBreakers DEF Consistent

LEMMA NewKept == Consistent(CB!NewBreaker) /\ CB!NewBreaker.failureCount = 0
BY EngineAssumption DEF CB!NewBreaker, Consistent, CB!Breaker, CB!Phase, CBP!Sound

-----------------------------------------------------------------------------
(* The engine's invariant.  Of the cooldowns it keeps what a handler reads *)
(* of them into its record, the levels.                                    *)

Leveled ==
    /\ DOMAIN cooldown = Accounts
    /\ \A a \in Accounts :
         "level" \in DOMAIN cooldown[a] /\ cooldown[a].level \in Nat

Kept ==
    /\ config \in Configs
    /\ roundRobin \in [Models -> Nat]
    /\ DOMAIN breaker = Providers /\ \A p \in Providers : Consistent(breaker[p])
    /\ Leveled
    /\ req \in [Requests -> Request] /\ \A r \in Requests : Sound(req[r])

(* The record of r becomes s, as it may.                                   *)
Becomes(r, s) == req' = [req EXCEPT ![r] = s] /\ Good(req[r], s)

GoodStep(r) == \E s : Becomes(r, s)

LEMMA Registries ==
  ASSUME NEW q, Sound(q), NEW p, p \in DOMAIN q.registry
  PROVE  /\ Len(q.registry[p].accounts) \in Nat
         /\ \A i \in 1..Len(q.registry[p].accounts) :
              Account(p, q.registry[p].accounts[i]) \in Accounts
<1>1. q.registry \in {c.registry : c \in Configs} \cup {<< >>}
  BY Fields DEF Sound
<1>2. q.registry # << >>
  OBVIOUS
<1>3. PICK c \in Configs : q.registry = c.registry
  BY <1>1, <1>2
<1>4. WellFormed(c)
  BY ConfigsAssumption
<1> QED BY <1>3, <1>4 DEF WellFormed

LEMMA TargetsTyped ==
  ASSUME NEW q, Sound(q), q.ti <= Len(q.targets)
  PROVE  /\ q.targets[q.ti] \in TargetRecord
         /\ ProviderOf(q) \in Providers
<1>1. q.targets \in Seq(TargetRecord) /\ q.ti \in Nat /\ q.ti >= 1
  BY Fields DEF Sound, Placed
<1>2. q.targets[q.ti] \in TargetRecord
  BY <1>1, Len(q.targets) \in Nat, ElementOfSeq
<1> QED BY <1>2 DEF TargetRecord, ProviderOf

LEMMA ProviderTyped ==
  ASSUME NEW q, Sound(q), q.pc \in Trying
  PROVE  ProviderOf(q) \in Providers
BY TargetsTyped DEF Sound, Placed

LEMMA CandidateTyped ==
  ASSUME Kept, NEW r \in Requests, req[r].pc \in Trying \ {"cooldown"}
  PROVE  Candidate(r) \in Accounts
<1> DEFINE q == req[r]
           p == ProviderOf(q)
<1>1. Sound(q)
  BY DEF Kept
<1>2. /\ q.ai \in Nat /\ q.ai >= 1
      /\ p \in DOMAIN q.registry /\ q.ai <= Len(q.registry[p].accounts)
  BY <1>1, Fields DEF Sound, Placed
<1>3. /\ Len(q.registry[p].accounts) \in Nat
      /\ \A i \in 1..Len(q.registry[p].accounts) :
           Account(p, q.registry[p].accounts[i]) \in Accounts
  BY <1>1, <1>2, Registries
<1>4. Account(p, q.registry[p].accounts[q.ai]) \in Accounts
  BY <1>2, <1>3
<1> QED BY <1>4 DEF Candidate, Target, AccountNames, Adapter, ProviderOf

LEMMA GotoStep ==
  ASSUME Kept, NEW r \in Requests, NEW pc, Goto(r, pc), Good(req[r], Moved(req[r], pc))
  PROVE  GoodStep(r)
<1>1. req' = [req EXCEPT ![r] = Moved(req[r], pc)]
  BY DEF Goto, Kept, Moved
<1> QED BY <1>1 DEF GoodStep, Becomes

LEMMA NextTargetStep ==
  ASSUME Kept, NEW r \in Requests, NextTarget(r), req[r].pc \in {"breaker", "cooldown"}
  PROVE  GoodStep(r)
<1>1. req' = [req EXCEPT ![r] = ToTarget(req[r])]
  BY DEF NextTarget, Kept, ToTarget
<1>2. Good(req[r], ToTarget(req[r]))
  BY ToTargetGood DEF Kept
<1> QED BY <1>1, <1>2 DEF GoodStep, Becomes

LEMMA NextAccountStep ==
  ASSUME Kept, NEW r \in Requests, NextAccount(r),
         req[r].pc \in {"cooldown", "lock", "charge", "cool", "lockModel"},
         req[r].pc \in {"charge", "cool", "lockModel"} => IsRetryable(req[r].err)
  PROVE  GoodStep(r)
<1>1. req' = [req EXCEPT ![r] = ToAccount(req[r])]
  BY DEF NextAccount, Kept, ToAccount
<1>2. Good(req[r], ToAccount(req[r]))
  BY ToAccountGood DEF Kept
<1> QED BY <1>1, <1>2 DEF GoodStep, Becomes

LEMMA FinishStep ==
  ASSUME Kept, NEW r \in Requests, NEW outcome \in Outcomes, Finish(r, outcome),
         req[r].pc \in Trying \cup {"breaker"},
         req[r].pc = "charge" => ~IsRetryable(req[r].err)
  PROVE  GoodStep(r)
<1>1. req' = [req EXCEPT ![r] = Finished(req[r], outcome)]
  BY DEF Finish, Kept
<1>2. Good(req[r], Finished(req[r], outcome))
  BY FinishedGood DEF Kept, Trying, ToCharge, Charged, Answered
<1> QED BY <1>1, <1>2 DEF GoodStep, Becomes

LEMMA DecideStep ==
  ASSUME Kept, NEW r \in Requests, Decide(r),
         req[r].pc \in {"charge", "cool", "lockModel"}
  PROVE  GoodStep(r)
<1>1. CASE IsRetryable(req[r].err)
  BY <1>1, NextAccountStep DEF Decide
<1>2. CASE ~IsRetryable(req[r].err)
  BY <1>2, FinishStep DEF Decide, Outcomes, Trying, ToCharge, Charged
<1> QED BY <1>1, <1>2

-----------------------------------------------------------------------------
(* Each action changes one record, in one of these ways.                   *)

LEMMA ResolvedGood ==
  ASSUME NEW q, Sound(q), q.pc \in {"routes", "rotate"},
         NEW targets \in Seq(TargetRecord)
  PROVE  Good(q, Resolved(q, targets))
<1>0. /\ q \in Request /\ q.stream \in BOOLEAN /\ q.purpose \in {"route", "log"}
      /\ q.outcome \in Outcomes
  BY Fields DEF Sound
<1>1. CASE q.purpose = "log" /\ q.stream
  <2> DEFINE s == [q EXCEPT !.pc = "snapshot", !.targets = << >>]
  <2>1. << >> \in Seq(TargetRecord) /\ "snapshot" \in Stages
    BY DEF Stages
  <2>2. /\ s \in Request /\ s.pc = "snapshot" /\ s.model = q.model
        /\ s.cancelled = q.cancelled /\ s.ti = q.ti /\ s.ai = q.ai
        /\ s.attempt = q.attempt /\ s.err = q.err
    BY <1>0, <2>1 DEF Request
  <2>3. Resolved(q, targets) = s
    BY <1>1 DEF Resolved
  <2> HIDE DEF s
  <2>4. ToCome(s) <= ToCome(q)
    BY <1>1, <2>2 DEF ToCome, Charged, Logs
  <2> QED BY <2>2, <2>3, <2>4, EnterGood
<1>2. CASE q.purpose = "log" /\ ~q.stream
  BY <1>0, <1>2, LeaveGood DEF Resolved
<1>3. CASE q.purpose = "route" /\ targets # << >>
  <2> DEFINE s == [q EXCEPT !.pc = "breaker", !.targets = targets]
  <2>1. "breaker" \in Stages
    BY DEF Stages
  <2>2. /\ s \in Request /\ s.pc = "breaker" /\ s.model = q.model
        /\ s.cancelled = q.cancelled /\ s.ti = q.ti /\ s.ai = q.ai
        /\ s.attempt = q.attempt /\ s.err = q.err
    BY <1>0, <2>1 DEF Request
  <2>3. Resolved(q, targets) = s
    BY <1>3 DEF Resolved
  <2> HIDE DEF s
  <2>4. ToCome(s) <= ToCome(q)
    BY <1>3, <2>2 DEF ToCome, Charged, Logs
  <2> QED BY <2>2, <2>3, <2>4, EnterGood
<1>4. CASE q.purpose = "route" /\ targets = << >>
  <2>1. Resolved(q, targets) = Finished(q, "unconfigured")
    BY <1>4 DEF Resolved
  <2>2. "unconfigured" \in Outcomes
    BY DEF Outcomes
  <2> QED BY <1>4, <2>1, <2>2, FinishedGood
<1> QED BY <1>0, <1>1, <1>2, <1>3, <1>4

LEMMA ArriveStep ==
  ASSUME Kept, NEW r \in Requests, NEW m \in Models, NEW stream \in Kinds,
         Arrive(r, m, stream)
  PROVE  GoodStep(r)
<1>1. stream \in BOOLEAN
  BY EngineAssumption
<1> QED BY <1>1, ArriveGood DEF Arrive, Kept, GoodStep, Becomes

LEMMA CancelStep ==
  ASSUME Kept, NEW r \in Requests, Cancel(r)
  PROVE  GoodStep(r)
<1>1. req' = [req EXCEPT ![r] = [req[r] EXCEPT !.cancelled = TRUE]]
  BY DEF Cancel, Kept
<1>2. Good(req[r], [req[r] EXCEPT !.cancelled = TRUE])
  BY CancelGood DEF Cancel, Kept
<1> QED BY <1>1, <1>2 DEF GoodStep, Becomes

LEMMA SnapshotStep ==
  ASSUME Kept, NEW r \in Requests, Snapshot(r)
  PROVE  GoodStep(r)
<1> DEFINE q == req[r]
           s == [q EXCEPT !.pc = "routes", !.purpose = "route",
                          !.registry = config.registry]
<1>0. Sound(q) /\ q \in Request /\ q.pc = "snapshot"
  BY DEF Kept, Sound, Snapshot
<1>1. req' = [req EXCEPT ![r] = s]
  BY DEF Snapshot, Kept
<1>2. config.registry \in {c.registry : c \in Configs} \cup {<< >>}
  BY DEF Kept
<1>3. /\ s \in Request /\ s.pc = "routes" /\ s.model = q.model
      /\ s.cancelled = q.cancelled /\ s.ti = q.ti /\ s.ai = q.ai
      /\ s.attempt = q.attempt /\ s.err = q.err /\ s.purpose = "route"
  BY <1>0, <1>2 DEF Request, Stages
<1> HIDE DEF s
<1>4. ToCome(s) <= ToCome(q)
  BY <1>0, <1>3 DEF ToCome, Charged, Logs
<1>5. Good(q, s)
  BY <1>0, <1>3, <1>4, EnterGood
<1> QED BY <1>1, <1>5 DEF GoodStep, Becomes

LEMMA PlainTyped ==
  ASSUME NEW c \in Configs, NEW m
  PROVE  PlainTargets(c, m) \in Seq(TargetRecord)
<1>1. \A t \in TargetRecord : <<t>> \in Seq(TargetRecord)
  OBVIOUS
<1>2. << >> \in Seq(TargetRecord)
  OBVIOUS
<1>3. WellFormed(c)
  BY ConfigsAssumption
<1>4. m \in DOMAIN c.aliases => c.aliases[m] \in TargetRecord
  BY <1>3 DEF WellFormed
<1>5. m \in DOMAIN Direct => Direct[m] \in TargetRecord
  BY ConfigsAssumption
<1> HIDE DEF WellFormed
<1> QED BY <1>1, <1>2, <1>4, <1>5 DEF PlainTargets

LEMMA ReadRoutesStep ==
  ASSUME Kept, NEW r \in Requests, ReadRoutes(r)
  PROVE  GoodStep(r)
<1> DEFINE q == req[r]
           m == q.model
           routed == m \in DOMAIN config.routes /\ config.routes[m].targets # << >>
           targets == config.routes[m].targets
<1>0. Sound(q) /\ q \in Request /\ q.pc = "routes" /\ config \in Configs
  BY DEF Kept, Sound, ReadRoutes
<1>1. routed => targets \in Seq(TargetRecord)
  BY <1>0, ConfigsAssumption DEF WellFormed
<1>2. CASE routed /\ req' = [req EXCEPT ![r].pc = "rotate", ![r].targets = targets]
  <2> DEFINE s == [q EXCEPT !.pc = "rotate", !.targets = targets]
  <2>1. req' = [req EXCEPT ![r] = s]
    BY <1>2 DEF Kept
  <2>2. /\ s \in Request /\ s.pc = "rotate" /\ s.model = q.model
        /\ s.cancelled = q.cancelled /\ s.ti = q.ti /\ s.ai = q.ai
        /\ s.attempt = q.attempt /\ s.err = q.err /\ s.targets # << >>
        /\ s.stream = q.stream /\ s.purpose = q.purpose
    BY <1>0, <1>1, <1>2 DEF Request, Stages
  <2> HIDE DEF s
  <2>3. ToCome(s) <= ToCome(q)
    BY <1>0, <2>2 DEF ToCome, Charged, Logs
  <2>4. Good(q, s)
    BY <1>0, <2>2, <2>3, EnterGood
  <2> QED BY <2>1, <2>4 DEF GoodStep, Becomes
<1>3. CASE routed /\ req' = [req EXCEPT ![r] = Resolved(@, targets)]
  <2>1. req' = [req EXCEPT ![r] = Resolved(q, targets)]
    BY <1>3 DEF Kept
  <2>2. Good(q, Resolved(q, targets))
    BY <1>0, <1>1, <1>3, ResolvedGood
  <2> QED BY <2>1, <2>2 DEF GoodStep, Becomes
<1>4. CASE req' = [req EXCEPT ![r] = Resolved(@, PlainTargets(config, m))]
  <2>1. req' = [req EXCEPT ![r] = Resolved(q, PlainTargets(config, m))]
    BY <1>4 DEF Kept
  <2>2. PlainTargets(config, m) \in Seq(TargetRecord)
    BY <1>0, PlainTyped
  <2>3. Good(q, Resolved(q, PlainTargets(config, m)))
    BY <1>0, <2>2, ResolvedGood
  <2> QED BY <2>1, <2>3 DEF GoodStep, Becomes
<1> QED BY <1>2, <1>3, <1>4 DEF ReadRoutes

LEMMA RotatedTyped ==
  ASSUME NEW t \in Seq(TargetRecord), NEW i \in Nat, i <= Len(t)
  PROVE  Rotated(t, i) \in Seq(TargetRecord)
<1>1. Len(t) \in Nat /\ \A j \in 1..Len(t) : t[j] \in TargetRecord
  BY ElementOfSeq
<1>2. SubSeq(t, i + 1, Len(t)) \in Seq(TargetRecord)
  <2>1. i + 1 \in Int /\ Len(t) \in Int
        /\ \A j \in (i + 1)..Len(t) : t[j] \in TargetRecord
    BY <1>1
  <2> QED BY <2>1, SubSeqProperties
<1>3. SubSeq(t, 1, i) \in Seq(TargetRecord)
  <2>1. 1 \in Int /\ i \in Int /\ \A j \in 1..i : t[j] \in TargetRecord
    BY <1>1
  <2> QED BY <2>1, SubSeqProperties
<1> QED BY <1>2, <1>3, ConcatProperties DEF Rotated

LEMMA RotateStep ==
  ASSUME Kept, NEW r \in Requests, Rotate(r)
  PROVE  GoodStep(r) /\ roundRobin' \in [Models -> Nat]
<1> DEFINE q == req[r]
           idx == roundRobin[q.model]
           n == Len(q.targets)
<1>0. /\ Sound(q) /\ q.pc = "rotate" /\ q.targets \in Seq(TargetRecord)
      /\ q.model \in Models /\ idx \in Nat /\ n \in Nat \ {0}
  <2>1. Sound(q) /\ q.pc = "rotate"
    BY DEF Kept, Rotate
  <2>2. q.targets \in Seq(TargetRecord) /\ q.model \in Models /\ q.targets # << >>
    BY <2>1, Fields DEF Sound, Placed
  <2>3. n \in Nat \ {0}
    BY <2>2, EmptySeq
  <2> QED BY <2>1, <2>2, <2>3 DEF Kept
<1>1. roundRobin' \in [Models -> Nat]
  <2>1. (idx + 1) % n \in Nat
    BY <1>0
  <2>2. roundRobin' = [roundRobin EXCEPT ![q.model] = (idx + 1) % n]
    BY DEF Rotate, AdvancedIndex, Kept
  <2> QED BY <2>1, <2>2 DEF Kept
<1>2. CASE idx > n
  <2>1. req' = [req EXCEPT ![r] = Leave("panic")]
    BY <1>2 DEF Rotate, Kept
  <2>2. "panic" \in Outcomes
    BY DEF Outcomes
  <2> QED BY <1>1, <2>1, <2>2, LeaveGood DEF GoodStep, Becomes
<1>3. CASE ~(idx > n)
  <2>1. req' = [req EXCEPT ![r] = Resolved(q, Rotated(q.targets, idx))]
    BY <1>3 DEF Rotate, Kept
  <2>2. Rotated(q.targets, idx) \in Seq(TargetRecord)
    BY <1>0, <1>3, RotatedTyped
  <2>3. Good(q, Resolved(q, Rotated(q.targets, idx)))
    BY <1>0, <2>2, ResolvedGood
  <2> QED BY <1>1, <2>1, <2>3 DEF GoodStep, Becomes
<1> QED BY <1>2, <1>3

LEMMA ExhaustStep ==
  ASSUME Kept, NEW r \in Requests, Exhaust(r)
  PROVE  GoodStep(r)
<1>1. Finish(r, "exhausted") /\ req[r].pc = "breaker" /\ "exhausted" \in Outcomes
  BY DEF Exhaust, Outcomes
<1> QED BY <1>1, FinishStep

LEMMA CheckBreakerStep ==
  ASSUME Kept, NEW r \in Requests, CheckBreaker(r)
  PROVE  GoodStep(r)
<1> DEFINE q == req[r]
<1>0. Sound(q) /\ q.pc = "breaker" /\ q.ti <= Len(q.targets)
  BY DEF CheckBreaker, Kept
<1>1. CASE NextTarget(r)
  BY <1>0, <1>1, NextTargetStep
<1>2. CASE Target(r).provider \in DOMAIN q.registry /\ Goto(r, "cooldown")
  <2>1. ProviderOf(q) \in DOMAIN q.registry
    BY <1>2 DEF Target, ProviderOf
  <2>2. Good(q, Moved(q, "cooldown"))
    BY <1>0, <2>1, PassGood
  <2> QED BY <1>2, <2>2, GotoStep
<1> QED BY <1>1, <1>2 DEF CheckBreaker

LEMMA CheckCooldownStep ==
  ASSUME Kept, NEW r \in Requests, CheckCooldown(r)
  PROVE  GoodStep(r)
<1> DEFINE q == req[r]
<1>0. Sound(q) /\ q.pc = "cooldown"
  BY DEF CheckCooldown, Kept
<1>1. CASE NextTarget(r)
  BY <1>0, <1>1, NextTargetStep
<1>2. CASE NextAccount(r)
  BY <1>0, <1>2, NextAccountStep
<1>3. CASE ~(q.ai > Len(AccountNames(r))) /\ Goto(r, "lock")
  <2>1. ProviderOf(q) \in DOMAIN q.registry /\ q.ai \in Nat
    BY <1>0, Fields DEF Sound, Placed, Trying, ToCharge
  <2>2. Len(q.registry[ProviderOf(q)].accounts) \in Nat
    BY <1>0, <2>1, Registries
  <2>3. q.ai <= Len(q.registry[ProviderOf(q)].accounts)
    <3>1. AccountNames(r) = q.registry[ProviderOf(q)].accounts
      BY DEF AccountNames, Adapter, Target, ProviderOf
    <3> QED BY <1>3, <2>1, <2>2, <3>1
  <2>4. Good(q, Moved(q, "lock"))
    BY <1>0, <2>3, MovedGood
  <2> QED BY <1>3, <2>4, GotoStep
<1> QED BY <1>1, <1>2, <1>3 DEF CheckCooldown

LEMMA CheckModelLockStep ==
  ASSUME Kept, NEW r \in Requests, CheckModelLock(r)
  PROVE  GoodStep(r)
<1>0. Sound(req[r]) /\ req[r].pc = "lock"
  BY DEF CheckModelLock, Kept
<1>1. CASE NextAccount(r)
  BY <1>0, <1>1, NextAccountStep
<1>2. CASE Goto(r, "attempt")
  BY <1>0, <1>2, MovedGood, GotoStep
<1> QED BY <1>1, <1>2 DEF CheckModelLock

LEMMA MaxAttemptsTyped == ASSUME Kept PROVE config.maxAttempts \in Nat \ {0}
BY ConfigsAssumption DEF Kept, WellFormed

LEMMA AttemptStep ==
  ASSUME Kept, NEW r \in Requests, Attempt(r)
  PROVE  GoodStep(r)
<1> DEFINE q == req[r]
<1>0. Sound(q) /\ q.pc = "attempt" /\ q.attempt \in Nat
  BY Fields DEF Attempt, Kept, Sound
<1>1. CASE q.attempt > config.maxAttempts /\ Goto(r, "charge")
  <2>1. q.attempt # 1
    BY <1>0, <1>1, MaxAttemptsTyped
  <2>2. Good(q, Moved(q, "charge"))
    BY <1>0, <2>1, MovedGood
  <2> QED BY <1>1, <2>2, GotoStep
<1>2. CASE req' = [req EXCEPT ![r].pc = "charge", ![r].err = PlainError]
  <2> DEFINE s == Erring(q, "charge", PlainError, q.attempt)
  <2>1. q = [q EXCEPT !.attempt = q.attempt]
    BY <1>0 DEF Sound, Request
  <2>2. s = [q EXCEPT !.pc = "charge", !.err = PlainError]
    BY <1>0 DEF Erring, Sound, Request
  <2>3. req' = [req EXCEPT ![r] = s]
    BY <1>2, <2>2 DEF Kept
  <2>4. Good(q, s)
    BY <1>0, ErringGood
  <2> QED BY <2>3, <2>4 DEF GoodStep, Becomes
<1>3. CASE ~q.cancelled /\ Goto(r, "calling")
  BY <1>0, <1>3, MovedGood, GotoStep
<1> QED BY <1>1, <1>2, <1>3 DEF Attempt

LEMMA BackoffStep ==
  ASSUME Kept, NEW r \in Requests, BackoffOver(r) \/ BackoffCancelled(r)
  PROVE  GoodStep(r)
<1> DEFINE q == req[r]
<1>0. Sound(q) /\ q.pc = "backoff" /\ q \in Request /\ q.attempt \in Nat
      /\ q.err \in ErrorTypes \cup {PlainError, "none"}
  BY Fields DEF BackoffOver, BackoffCancelled, Kept, Sound
<1>1. CASE BackoffOver(r)
  <2>1. PICK n \in Nat : n = q.attempt + 1
    BY <1>0
  <2> DEFINE s == Erring(q, "attempt", q.err, n)
  <2>2. req' = [req EXCEPT ![r] = [q EXCEPT !.pc = "attempt", !.attempt = n]]
    BY <1>1, <2>1 DEF BackoffOver, Kept
  <2>3. s = [q EXCEPT !.pc = "attempt", !.attempt = n]
    BY <1>0 DEF Erring, Request
  <2>4. Good(q, s)
    BY <1>0, <2>1, ErringGood
  <2> HIDE DEF s
  <2> QED BY <2>2, <2>3, <2>4 DEF GoodStep, Becomes
<1>2. CASE BackoffCancelled(r)
  <2> DEFINE s == Erring(q, "charge", PlainError, q.attempt)
  <2>2. s = [q EXCEPT !.pc = "charge", !.err = PlainError]
    BY <1>0 DEF Erring, Request
  <2>3. req' = [req EXCEPT ![r] = s]
    BY <1>2, <2>2 DEF Kept, BackoffCancelled
  <2>4. Good(q, s)
    BY <1>0, ErringGood
  <2> QED BY <2>3, <2>4 DEF GoodStep, Becomes
<1> QED BY <1>1, <1>2

LEMMA AnswerStep ==
  ASSUME Kept, NEW r \in Requests, NEW answer, Answer(r, answer)
  PROVE  GoodStep(r)
<1> DEFINE q == req[r]
           e == AnswerError(answer, q.stream, Adapter(r).errors)
           pc == CASE e = "none" -> "reset"
                   [] e # "none" /\ ~IsRetryable(e) -> "charge"
                   [] OTHER -> IF q.attempt < config.maxAttempts
                               THEN "backoff" ELSE "attempt"
           k == IF pc = "attempt" THEN q.attempt + 1 ELSE q.attempt
<1>0. Sound(q) /\ q.pc = "calling" /\ q \in Request /\ q.attempt \in Nat
  BY Fields DEF Answer, Kept, Sound
<1>1. e \in ErrorTypes \cup {PlainError, "none"}
  BY ErrorsTyped
<1>2. req' = [req EXCEPT ![r].pc = pc, ![r].err = e,
                         ![r].attempt = IF pc = "attempt" THEN @ + 1 ELSE @]
  BY DEF Answer
<1>3. ~IsRetryable("none")
  BY DEF IsRetryable
<1>4. \/ pc = "reset"
      \/ pc = "charge" /\ ~IsRetryable(e)
      \/ pc \in {"backoff", "attempt"} /\ IsRetryable(e)
  OBVIOUS
<1> HIDE DEF e, pc
<1>5. PICK n \in Nat : n = k
  BY <1>0
<1>6. req' = [req EXCEPT ![r] = Erring(q, pc, e, n)]
  BY <1>2, <1>5 DEF Kept, Erring
<1>7. Good(q, Erring(q, pc, e, n))
  BY <1>0, <1>1, <1>4, <1>5, ErringGood
<1> QED BY <1>6, <1>7 DEF GoodStep, Becomes

LEMMA ChargeStep ==
  ASSUME Kept, NEW r \in Requests, Charge(r)
  PROVE  GoodStep(r)
<1>0. Sound(req[r]) /\ req[r].pc = "charge"
  BY DEF Charge, Kept
<1>1. CASE Goto(r, "level")
  BY <1>0, <1>1, MovedGood, GotoStep
<1>2. CASE Goto(r, "lockModel")
  BY <1>0, <1>2, MovedGood, GotoStep
<1>3. CASE Decide(r)
  BY <1>0, <1>3, DecideStep
<1> QED BY <1>1, <1>2, <1>3 DEF Charge

LEMMA ReadLevelStep ==
  ASSUME Kept, NEW r \in Requests, ReadLevel(r)
  PROVE  GoodStep(r)
<1> DEFINE q == req[r]
           level == CD!BackoffLevel(Candidate(r))
<1>0. Sound(q) /\ q.pc = "level"
  BY DEF ReadLevel, Kept
<1>1. Candidate(r) \in Accounts
  BY <1>0, CandidateTyped DEF Trying, ToCharge, Charged
<1>2. level \in Nat
  BY <1>1 DEF CD!BackoffLevel, Kept, Leveled
<1> HIDE DEF level
<1>3. PICK l \in Nat \ {0} : l = IF level < 1 THEN 1 ELSE level
  BY <1>2
<1>4. req' = [req EXCEPT ![r] = [q EXCEPT !.pc = "cool", !.level = l]]
  BY <1>3 DEF ReadLevel, Kept, level
<1>5. Good(q, [q EXCEPT !.pc = "cool", !.level = l])
  BY <1>0, LeveledGood
<1> QED BY <1>4, <1>5 DEF GoodStep, Becomes

LEMMA CoolStep ==
  ASSUME Kept, NEW r \in Requests, Cool(r) \/ LockModel(r)
  PROVE  GoodStep(r)
BY DecideStep DEF Cool, LockModel

LEMMA AnsweredStep ==
  ASSUME Kept, NEW r \in Requests, ResetBackoff(r) \/ Unlock(r) \/ Credit(r)
  PROVE  GoodStep(r)
<1>1. CASE ResetBackoff(r)
  BY <1>1, MovedGood, GotoStep DEF ResetBackoff, Kept
<1>2. CASE Unlock(r)
  BY <1>2, MovedGood, GotoStep DEF Unlock, Kept
<1>3. CASE Credit(r)
  <2>1. Finish(r, "served") /\ req[r].pc = "credit" /\ "served" \in Outcomes
    BY <1>3 DEF Credit, Outcomes
  <2> QED BY <2>1, FinishStep DEF Trying, Answered
<1> QED BY <1>1, <1>2, <1>3

LEMMA ProgressStep ==
  ASSUME Kept, NEW r \in Requests, Progress(r)
  PROVE  GoodStep(r)
BY SnapshotStep, ReadRoutesStep, RotateStep, ExhaustStep, CheckBreakerStep,
   CheckCooldownStep, CheckModelLockStep, AttemptStep, BackoffStep, AnswerStep,
   ChargeStep, ReadLevelStep, CoolStep, AnsweredStep DEF Progress

-----------------------------------------------------------------------------
(* The other variables.                                                    *)

LEMMA TouchesNoBreaker ==
  ASSUME NEW r \in Requests, Progress(r), req[r].pc \notin {"breaker", "charge", "credit"}
  PROVE  UNCHANGED breaker
BY DEF Progress, Snapshot, ReadRoutes, Rotate, Exhaust, CheckBreaker, CheckCooldown,
       CheckModelLock, Attempt, BackoffOver, BackoffCancelled, Answer, Charge,
       ReadLevel, Cool, LockModel, ResetBackoff, Unlock, Credit

LEMMA TouchesOneBreaker ==
  ASSUME NEW r \in Requests, Progress(r)
  PROVE  /\ req[r].pc = "breaker" => Exhaust(r) \/ CheckBreaker(r)
         /\ req[r].pc = "charge" => Charge(r)
         /\ req[r].pc = "credit" => Credit(r)
BY DEF Progress, Snapshot, ReadRoutes, Rotate, Exhaust, CheckBreaker, CheckCooldown,
       CheckModelLock, Attempt, BackoffOver, BackoffCancelled, Answer, Charge,
       ReadLevel, Cool, LockModel, ResetBackoff, Unlock, Credit

(* One consistent breaker takes the place of another.                      *)
BreakersKept == DOMAIN breaker = Providers /\ \A p \in Providers : Consistent(breaker[p])

LEMMA OneBreaker ==
  ASSUME Kept, NEW p \in Providers, NEW b, Consistent(b),
         breaker' = [breaker EXCEPT ![p] = b]
  PROVE  /\ BreakersKept'
         /\ breaker'[p] = b
         /\ \A o \in Providers \ {p} : breaker'[o] = breaker[o]
BY DEF Kept, BreakersKept, Consistent

(* What a handler does to the breakers: nothing, a look, a failure of the  *)
(* provider it tries, or a success.                                        *)
LEMMA ProgressOfBreakers ==
  ASSUME Kept, NEW r \in Requests, Progress(r)
  PROVE  LET p == ProviderOf(req[r]) IN
         /\ BreakersKept'
         /\ \A o \in Providers :
              \/ req[r].pc = "charge" /\ o = p
              \/ breaker'[o].failureCount <= breaker[o].failureCount
         /\ req[r].pc = "charge" =>
              breaker'[p].failureCount = breaker[p].failureCount + 1
         /\ req[r].pc = "breaker" /\ ~Exhaust(r) /\ ~NextTarget(r) =>
              /\ Goto(r, "cooldown")
              /\ p \in Providers
              /\ breaker'[p].failureCount < FailureThreshold
<1> DEFINE q == req[r]
           p == ProviderOf(q)
<1>0. /\ Sound(q)
      /\ \A o \in Providers : Consistent(breaker[o]) /\ breaker[o].failureCount \in Nat
  BY BreakerFields DEF Kept
<1>1. CASE q.pc \notin {"breaker", "charge", "credit"}
  BY <1>0, <1>1, TouchesNoBreaker DEF Kept, BreakersKept, Consistent
<1>2. CASE Exhaust(r)
  BY <1>0, <1>2 DEF Exhaust, Kept, BreakersKept, Consistent
<1>3. CASE CheckBreaker(r)
  <2>1. p \in Providers /\ q.pc = "breaker"
    BY <1>0, <1>3, TargetsTyped DEF CheckBreaker
  <2> DEFINE b == breaker[p]
             c == CB!AfterLook(b)
  <2>2. Consistent(c) /\ c.failureCount <= b.failureCount
        /\ (~CB!Refuses(b) => c.failureCount < FailureThreshold)
    BY <1>0, <2>1, LookKept
  <2>3. breaker' = [breaker EXCEPT ![p] = c]
    BY <1>3 DEF CheckBreaker, CB!IsOpen, Target, ProviderOf, Kept
  <2>4. NextTarget(r) \/ (~CB!Refuses(b) /\ Goto(r, "cooldown"))
    BY <1>3 DEF CheckBreaker, CB!IsOpen, Target, ProviderOf
  <2> HIDE DEF c
  <2>5. /\ BreakersKept' /\ breaker'[p] = c
        /\ \A o \in Providers \ {p} : breaker'[o] = breaker[o]
    BY <2>1, <2>2, <2>3, OneBreaker
  <2>6. \A o \in Providers : breaker'[o].failureCount <= breaker[o].failureCount
    <3> SUFFICES ASSUME NEW o \in Providers
                 PROVE  breaker'[o].failureCount <= breaker[o].failureCount
      OBVIOUS
    <3>1. CASE o = p
      BY <2>2, <2>5, <3>1
    <3>2. CASE o # p
      BY <1>0, <2>5, <3>2
    <3> QED BY <3>1, <3>2
  <2> QED BY <2>1, <2>2, <2>4, <2>5, <2>6
<1>4. CASE Charge(r)
  <2>1. p \in Providers /\ q.pc = "charge"
    BY <1>0, <1>4, ProviderTyped DEF Charge, Trying, ToCharge
  <2> DEFINE b == breaker[p]
             c == CB!AfterFailure(b)
  <2>2. Consistent(c) /\ c.failureCount = b.failureCount + 1
    BY <1>0, <2>1, FailureKept
  <2>3. breaker' = [breaker EXCEPT ![p] = c]
    BY <1>4 DEF Charge, CB!RecordFailure, Target, ProviderOf, Kept
  <2> HIDE DEF c
  <2>5. /\ BreakersKept' /\ breaker'[p] = c
        /\ \A o \in Providers \ {p} : breaker'[o] = breaker[o]
    BY <2>1, <2>2, <2>3, OneBreaker
  <2>6. \A o \in Providers : o = p \/ breaker'[o].failureCount <= breaker[o].failureCount
    BY <1>0, <2>5
  <2> QED BY <2>1, <2>2, <2>5, <2>6
<1>5. CASE Credit(r)
  <2>1. p \in Providers /\ q.pc = "credit"
    BY <1>0, <1>5, ProviderTyped DEF Credit, Trying, Answered
  <2> DEFINE b == breaker[p]
             c == CB!AfterSuccess(b)
  <2>2. Consistent(c) /\ c.failureCount <= b.failureCount
    BY <1>0, <2>1, SuccessKept
  <2>3. breaker' = [breaker EXCEPT ![p] = c]
    BY <1>5 DEF Credit, CB!RecordSuccess, Target, ProviderOf, Kept
  <2> HIDE DEF c
  <2>5. /\ BreakersKept' /\ breaker'[p] = c
        /\ \A o \in Providers \ {p} : breaker'[o] = breaker[o]
    BY <2>1, <2>2, <2>3, OneBreaker
  <2>6. \A o \in Providers : breaker'[o].failureCount <= breaker[o].failureCount
    <3> SUFFICES ASSUME NEW o \in Providers
                 PROVE  breaker'[o].failureCount <= breaker[o].failureCount
      OBVIOUS
    <3>1. CASE o = p
      BY <2>2, <2>5, <3>1
    <3>2. CASE o # p
      BY <1>0, <2>5, <3>2
    <3> QED BY <3>1, <3>2
  <2> QED BY <2>1, <2>5, <2>6
<1> QED BY <1>1, <1>2, <1>3, <1>4, <1>5, TouchesOneBreaker

(* The levels stay numbers, whatever happens to the rest of an entry.      *)
LEMMA LevelsKept ==
  ASSUME Leveled,
         \/ UNCHANGED cooldown
         \/ CD!Tick
         \/ \E a \in Accounts :
              \/ \E d : CD!SetCooldown(a, d)
              \/ CD!ResetBackoffLevel(a)
              \/ \E m, d : CD!SetModelLock(a, m, d)
              \/ \E m : CD!ClearModelLock(a, m)
  PROVE  Leveled'
<1>1. CASE UNCHANGED cooldown
  BY <1>1 DEF Leveled
<1>2. CASE CD!Tick
  BY <1>2 DEF Leveled, CD!Tick
<1>3. ASSUME NEW a \in Accounts, NEW d, CD!SetCooldown(a, d) PROVE Leveled'
  <2>1. LevelCap \in Nat /\ cooldown[a].level \in Nat
    BY EngineAssumption DEF Leveled
  <2>2. PICK l \in Nat : l = IF cooldown[a].level < LevelCap
                             THEN cooldown[a].level + 1 ELSE cooldown[a].level
    BY <2>1
  <2>3. cooldown' = [cooldown EXCEPT ![a] = [cooldown[a] EXCEPT !.left = d, !.level = l]]
    BY <1>3, <2>2 DEF CD!SetCooldown, Leveled
  <2> QED BY <2>3 DEF Leveled
<1>4. ASSUME NEW a \in Accounts, CD!ResetBackoffLevel(a) PROVE Leveled'
  BY <1>4 DEF Leveled, CD!ResetBackoffLevel
<1>5. ASSUME NEW a \in Accounts, NEW m, NEW d, CD!SetModelLock(a, m, d) PROVE Leveled'
  BY <1>5 DEF Leveled, CD!SetModelLock
<1>6. ASSUME NEW a \in Accounts, NEW m, CD!ClearModelLock(a, m) PROVE Leveled'
  BY <1>6 DEF Leveled, CD!ClearModelLock
<1> QED BY <1>1, <1>2, <1>3, <1>4, <1>5, <1>6

LEMMA ProgressOfCooldowns ==
  ASSUME Kept, NEW r \in Requests, Progress(r)
  PROVE  Leveled'
<1>0. Leveled
  BY DEF Kept
<1>1. CASE UNCHANGED cooldown
  BY <1>0, <1>1, LevelsKept
<1>2. CASE Cool(r)
  <2>1. Candidate(r) \in Accounts
    BY <1>2, CandidateTyped DEF Cool, Trying, Charged
  <2> QED BY <1>0, <1>2, <2>1, LevelsKept DEF Cool
<1>3. CASE LockModel(r)
  <2>1. Candidate(r) \in Accounts
    BY <1>3, CandidateTyped DEF LockModel, Trying, Charged
  <2> QED BY <1>0, <1>3, <2>1, LevelsKept DEF LockModel
<1>4. CASE ResetBackoff(r)
  <2>1. Candidate(r) \in Accounts
    BY <1>4, CandidateTyped DEF ResetBackoff, Trying, Answered
  <2> QED BY <1>0, <1>4, <2>1, LevelsKept DEF ResetBackoff
<1>5. CASE Unlock(r)
  <2>1. Candidate(r) \in Accounts
    BY <1>5, CandidateTyped DEF Unlock, Trying, Answered
  <2> QED BY <1>0, <1>5, <2>1, LevelsKept DEF Unlock
<1> QED BY <1>1, <1>2, <1>3, <1>4, <1>5 DEF Progress, Snapshot, ReadRoutes, Rotate,
       Exhaust, CheckBreaker, CheckCooldown, CheckModelLock, Attempt, BackoffOver,
       BackoffCancelled, Answer, Charge, ReadLevel, Credit

LEMMA ProgressOfTheRest ==
  ASSUME Kept, NEW r \in Requests, Progress(r)
  PROVE  config' = config /\ roundRobin' \in [Models -> Nat]
<1>1. CASE Rotate(r)
  BY <1>1, RotateStep DEF Rotate
<1> QED BY <1>1 DEF Kept, Progress, Snapshot, ReadRoutes, Exhaust, CheckBreaker,
       CheckCooldown, CheckModelLock, Attempt, BackoffOver, BackoffCancelled, Answer,
       Charge, ReadLevel, Cool, LockModel, ResetBackoff, Unlock, Credit

-----------------------------------------------------------------------------
(* The invariant is one.                                                   *)

LEMMA KeptInit == Init => Kept
<1> SUFFICES ASSUME Init PROVE Kept
  OBVIOUS
<1>1. config \in Configs /\ roundRobin \in [Models -> Nat]
  BY EngineAssumption DEF Init
<1>2. DOMAIN breaker = Providers /\ \A p \in Providers : Consistent(breaker[p])
  BY NewKept DEF Init, CB!Init
<1>3. Leveled
  BY DEF Init, CD!Init, CD!NewState, Leveled
<1>4. Sound(Idle)
  BY IdleTyped DEF Sound, Placed, Mild, First, Trying, ToCharge, Charged, Answered, Idle
<1>5. req \in [Requests -> Request] /\ \A r \in Requests : Sound(req[r])
  BY <1>4 DEF Init, Sound
<1> QED BY <1>1, <1>2, <1>3, <1>5 DEF Kept

LEMMA RecordsKept ==
  ASSUME Kept, NEW r \in Requests, GoodStep(r)
  PROVE  /\ req' \in [Requests -> Request] /\ \A o \in Requests : Sound(req'[o])
         /\ Good(req[r], req'[r])
         /\ \A o \in Requests \ {r} : req'[o] = req[o]
<1>1. PICK s : req' = [req EXCEPT ![r] = s] /\ Good(req[r], s)
  BY DEF GoodStep, Becomes
<1>2. Sound(s) /\ s \in Request
  BY <1>1 DEF Good, Sound
<1>3. req'[r] = s /\ \A o \in Requests \ {r} : req'[o] = req[o]
  BY <1>1 DEF Kept
<1>4. req' \in [Requests -> Request]
  BY <1>1, <1>2 DEF Kept
<1> QED BY <1>1, <1>2, <1>3, <1>4 DEF Kept

LEMMA KeptStep == Kept /\ [Next]_vars => Kept'
<1> SUFFICES ASSUME Kept, [Next]_vars PROVE Kept'
  OBVIOUS
<1>1. ASSUME NEW r \in Requests, Progress(r) PROVE Kept'
  <2>1. GoodStep(r)
    BY <1>1, ProgressStep
  <2>2. req' \in [Requests -> Request] /\ \A o \in Requests : Sound(req'[o])
    BY <2>1, RecordsKept
  <2>3. BreakersKept'
    BY <1>1, ProgressOfBreakers
  <2>4. config' \in Configs /\ roundRobin' \in [Models -> Nat]
    BY <1>1, ProgressOfTheRest DEF Kept
  <2> QED BY <1>1, <2>2, <2>3, <2>4, ProgressOfCooldowns DEF Kept, BreakersKept
<1>2. ASSUME NEW r \in Requests, NEW m \in Models, NEW stream \in Kinds,
             Arrive(r, m, stream)
      PROVE  Kept'
  <2>1. req' \in [Requests -> Request] /\ \A o \in Requests : Sound(req'[o])
    BY <1>2, ArriveStep, RecordsKept
  <2>2. UNCHANGED <<config, roundRobin, breaker, cooldown>>
    BY <1>2 DEF Arrive
  <2> QED BY <2>1, <2>2 DEF Kept, Leveled
<1>3. ASSUME NEW r \in Requests, Cancel(r) PROVE Kept'
  <2>1. req' \in [Requests -> Request] /\ \A o \in Requests : Sound(req'[o])
    BY <1>3, CancelStep, RecordsKept
  <2>2. UNCHANGED <<config, roundRobin, breaker, cooldown>>
    BY <1>3 DEF Cancel
  <2> QED BY <2>1, <2>2 DEF Kept, Leveled
<1>4. ASSUME NEW c \in Configs, Reconfigure(c) PROVE Kept'
  BY <1>4, NewKept DEF Reconfigure, CB!Renew, Kept, Leveled
<1>5. CASE Tick
  <2>1. \A p \in Providers : Consistent(breaker'[p])
    BY <1>5, OlderKept DEF Tick, CB!Tick, Kept
  <2>2. Leveled'
    BY <1>5, LevelsKept DEF Tick, Kept
  <2> QED BY <1>5, <2>1, <2>2 DEF Tick, CB!Tick, Kept
<1>6. CASE UNCHANGED vars
  BY <1>6 DEF vars, Kept, Leveled
<1> QED BY <1>1, <1>2, <1>3, <1>4, <1>5, <1>6 DEF Next

LEMMA Invariance == Spec => []Kept
BY KeptInit, KeptStep, PTL DEF Spec

(* A request calls a provider again only after a retryable error, and one  *)
(* that a cancelled context or any other error has stopped never does.     *)
THEOREM RetriesAreAllowed == Spec => []CallsOnlyAfterRetryable
<1>1. Kept => CallsOnlyAfterRetryable
  BY DEF Kept, Sound, Mild, Willing, Fresh, Unread, CallsOnlyAfterRetryable
<1> QED BY <1>1, Invariance, PTL

(* What a handler looks up: a target, a provider and an account.           *)
InRange ==
    \A r \in Requests :
      req[r].pc \in Trying =>
        /\ req[r].ti \in 1..Len(req[r].targets)
        /\ ProviderOf(req[r]) \in DOMAIN req[r].registry
        /\ req[r].pc # "cooldown" =>
             req[r].ai \in 1..Len(req[r].registry[ProviderOf(req[r])].accounts)

(* The target, the provider and the account a handler works on are in the  *)
(* targets and the registry it copied, although the engine may have been   *)
(* reconfigured twice since: no index runs out of range.                   *)
THEOREM IndexesInRange == Spec => []InRange
<1>1. ASSUME Kept, NEW r \in Requests, req[r].pc \in Trying
      PROVE  /\ req[r].ti \in 1..Len(req[r].targets)
             /\ ProviderOf(req[r]) \in DOMAIN req[r].registry
             /\ req[r].pc # "cooldown" =>
                  req[r].ai \in 1..Len(req[r].registry[ProviderOf(req[r])].accounts)
  <2>1. Sound(req[r]) /\ Placed(req[r]) /\ req[r].ti \in Nat /\ req[r].ai \in Nat
        /\ req[r].targets \in Seq(TargetRecord)
    BY <1>1, Fields DEF Kept, Sound
  <2>2. Len(req[r].registry[ProviderOf(req[r])].accounts) \in Nat
    BY <1>1, <2>1, Registries DEF Placed
  <2> QED BY <1>1, <2>1, <2>2 DEF Placed
<1>2. Kept => InRange
  BY <1>1 DEF InRange
<1> QED BY <1>2, Invariance, PTL

(* A step is one handler's, or leaves all handlers alone.                  *)
LEMMA StepsOfRecords ==
  ASSUME Kept, [Next]_vars
  PROVE  \/ req' = req
         \/ \E r \in Requests :
              /\ Good(req[r], req'[r])
              /\ \A o \in Requests \ {r} : req'[o] = req[o]
<1>1. ASSUME NEW r \in Requests, GoodStep(r)
      PROVE  \E o \in Requests :
              /\ Good(req[o], req'[o])
              /\ \A u \in Requests \ {o} : req'[u] = req[u]
  BY <1>1, RecordsKept
<1> QED BY <1>1, ProgressStep, ArriveStep, CancelStep
        DEF Next, Reconfigure, Tick, vars

-----------------------------------------------------------------------------
(* What is charged late, by one request: the history variable counts the   *)
(* charges, ToCome bounds those to come.                                    *)

Budgeted == \A r \in Requests : late[r] \in Nat /\ InBudget(req[r], late[r])

LEMMA BudgetStep ==
  ASSUME Kept, Budgeted, [HistNext]_histVars
  PROVE  Budgeted'
<1>1. CASE UNCHANGED histVars
  BY <1>1 DEF histVars, vars, Budgeted
<1>2. CASE HistNext
  <2> SUFFICES ASSUME NEW o \in Requests
               PROVE  late'[o] \in Nat /\ InBudget(req'[o], late'[o])
    BY DEF Budgeted
  <2> DEFINE q == req[o]
             s == req'[o]
  <2>1. late[o] \in Nat /\ InBudget(q, late[o])
    BY DEF Budgeted
  <2>2. late'[o] = Tally(q, s, late[o])
    BY <1>2 DEF HistNext, Remember, ChargedNow, Tally
  <2>3. late'[o] \in Nat
    BY <2>1, <2>2 DEF Tally
  <2>4. CASE Good(q, s)
    BY <2>1, <2>2, <2>3, <2>4 DEF Good
  <2>5. CASE s = q
    <3>1. Placed(q)
      BY DEF Kept, Sound
    <3> HIDE DEF q, s
    <3>2. InBudget(q, Tally(q, q, late[o]))
      BY <2>1, <3>1 DEF InBudget, Tally, Placed
    <3> QED BY <2>2, <2>3, <2>5, <3>2 DEF q, s
  <2>6. Good(q, s) \/ s = q
    BY <1>2, StepsOfRecords DEF HistNext
  <2> QED BY <2>3, <2>4, <2>5, <2>6
<1> QED BY <1>1, <1>2

LEMMA BudgetInit == HistInit => Budgeted
BY DEF HistInit, Init, Budgeted, InBudget, Idle

LEMMA HistoryRefines == HistSpec => Spec
<1>1. HistInit => Init
  BY DEF HistInit
<1>2. [HistNext]_histVars => [Next]_vars
  BY DEF HistNext, histVars
<1> QED BY <1>1, <1>2, PTL DEF HistSpec, Spec

LEMMA HistoryInvariance == HistSpec => [](Kept /\ Budgeted)
<1>1. Kept /\ Budgeted /\ [HistNext]_histVars => (Kept /\ Budgeted)'
  <2>1. [HistNext]_histVars => [Next]_vars
    BY DEF HistNext, histVars
  <2> QED BY <2>1, KeptStep, BudgetStep
<1>2. HistInit => Kept /\ Budgeted
  BY KeptInit, BudgetInit DEF HistInit
<1> QED BY <1>1, <1>2, PTL DEF HistSpec

-----------------------------------------------------------------------------
(* What is charged late, to one provider: the failures still due from the  *)
(* handlers that passed its breaker are among the pairs of a handler and   *)
(* one of at most MaxAccounts accounts.                                    *)

LEMMA FiniteMax ==
  ASSUME NEW S, IsFiniteSet(S), S \subseteq Int, S # {}
  PROVE  Max(S) \in S /\ \A y \in S : Max(S) >= y
<1> DEFINE HasMax(T) == \E v \in T : \A y \in T : v >= y
           Bad == {T \in SUBSET S : T # {} /\ ~HasMax(T)}
<1>1. Bad = {}
  <2> SUFFICES ASSUME Bad # {} PROVE FALSE
    OBVIOUS
  <2>1. IsWellFoundedOn(StrictSubsetOrdering(S), SUBSET S)
    BY FS_StrictSubsetOrderingWellFounded, FS_FiniteSubsetsOfFinite
  <2>2. PICK T \in Bad : \A U \in Bad : <<U, T>> \notin StrictSubsetOrdering(S)
    <3>1. Bad \subseteq SUBSET S
      OBVIOUS
    <3> HIDE DEF Bad
    <3> QED BY <2>1, <3>1, WFMin, Zenon
  <2>3. PICK v \in T : TRUE
    OBVIOUS
  <2> DEFINE U == T \ {v}
  <2>4. U \in SUBSET S /\ <<U, T>> \in StrictSubsetOrdering(S)
    BY DEF StrictSubsetOrdering
  <2>5. U \notin Bad
    BY <2>2, <2>4
  <2>6. CASE U = {}
    <3>1. \A y \in T : v >= y
      BY <2>6
    <3> QED BY <3>1
  <2>7. CASE HasMax(U)
    <3>1. PICK m \in U : \A y \in U : m >= y
      BY <2>7
    <3>2. CASE m >= v
      <4>1. \A y \in T : m >= y
        BY <3>1, <3>2
      <4> QED BY <4>1
    <3>3. CASE ~(m >= v)
      <4>1. \A y \in T : v >= y
        BY <3>1, <3>3
      <4> QED BY <4>1
    <3> QED BY <3>2, <3>3
  <2> QED BY <2>4, <2>5, <2>6, <2>7
<1>2. HasMax(S)
  BY <1>1
<1> QED BY <1>2 DEF Max

LEMMA MaxAccountsBounds ==
  /\ MaxAccounts \in Nat
  /\ \A q, p : Sound(q) /\ p \in DOMAIN q.registry =>
       Len(q.registry[p].accounts) <= MaxAccounts
<1>1. AccountCounts \subseteq Nat
  BY ConfigsAssumption DEF AccountCounts, WellFormed
<1>2. AccountCounts # {}
  <2>1. PICK c \in Configs : DOMAIN c.registry # {}
    BY ConfigsAssumption
  <2>2. PICK p \in DOMAIN c.registry : TRUE
    BY <2>1
  <2>3. Len(c.registry[p].accounts) \in AccountCounts
    BY <2>2 DEF AccountCounts
  <2> QED BY <2>3
<1>3. MaxAccounts \in AccountCounts /\ \A y \in AccountCounts : MaxAccounts >= y
  <2>1. AccountCounts \subseteq Int
    BY <1>1
  <2> QED BY <1>2, <2>1, AccountsAssumption, FiniteMax, Zenon DEF MaxAccounts
<1>4. ASSUME NEW q, NEW p, Sound(q), p \in DOMAIN q.registry
      PROVE  Len(q.registry[p].accounts) <= MaxAccounts
  <2>1. q.registry \in {c.registry : c \in Configs} \cup {<< >>}
    BY <1>4, Fields DEF Sound
  <2>2. q.registry # << >>
    BY <1>4
  <2>3. PICK c \in Configs : q.registry = c.registry
    BY <2>1, <2>2
  <2>4. Len(q.registry[p].accounts) \in AccountCounts
    BY <1>4, <2>3 DEF AccountCounts
  <2> QED BY <1>1, <1>3, <2>4
<1> QED BY <1>1, <1>3, <1>4

Slots == Requests \X (1..MaxAccounts)

Pending(p) == {slot \in Slots : Due(req[slot[1]], p, slot[2])}

LEMMA SlotsFinite ==
  /\ IsFiniteSet(Slots)
  /\ Cardinality(Slots) = Cardinality(Requests) * MaxAccounts
  /\ Cardinality(Slots) \in Nat
<1>1. IsFiniteSet(1..MaxAccounts) /\ Cardinality(1..MaxAccounts) = MaxAccounts
  BY MaxAccountsBounds, FS_Interval
<1>2. IsFiniteSet(Requests)
  BY ConfigsAssumption
<1>3. IsFiniteSet(Slots) /\ Cardinality(Slots) = Cardinality(Requests) * MaxAccounts
  BY <1>1, <1>2, FS_Product DEF Slots
<1> QED BY <1>3, FS_CardinalityType

(* Below the threshold, or with enough of the bound left for what is due.  *)
Within(p) ==
    \/ breaker[p].failureCount < FailureThreshold
    \/ breaker[p].failureCount + Cardinality(Pending(p))
         <= FailureThreshold - 1 + Cardinality(Slots)

Bounded == \A p \in Providers : Within(p)

LEMMA PendingFinite ==
  ASSUME NEW p
  PROVE  /\ IsFiniteSet(Pending(p)) /\ Cardinality(Pending(p)) \in Nat
         /\ Cardinality(Pending(p)) <= Cardinality(Slots)
<1>1. Pending(p) \in SUBSET Slots
  BY DEF Pending
<1>2. IsFiniteSet(Pending(p)) /\ Cardinality(Pending(p)) <= Cardinality(Slots)
  BY <1>1, SlotsFinite, FS_Subset
<1> QED BY <1>2, FS_CardinalityType

(* The counts stay within the bound when no failure becomes due and none   *)
(* is charged, ...                                                         *)
LEMMA NothingNew ==
  ASSUME Kept, Kept', NEW p \in Providers, Within(p),
         breaker'[p].failureCount <= breaker[p].failureCount,
         Pending(p)' \subseteq Pending(p)
  PROVE  Within(p)'
<1>1. /\ breaker[p].failureCount \in Nat /\ breaker'[p].failureCount \in Nat
      /\ FailureThreshold \in Nat
  BY BreakerFields, EngineAssumption DEF Kept
<1>2. Pending(p)' \in SUBSET Slots
  BY DEF Pending, Slots
<1>3. IsFiniteSet(Pending(p)) /\ Cardinality(Pending(p)) \in Nat
  BY PendingFinite
<1>4. Cardinality(Pending(p)') <= Cardinality(Pending(p))
  BY <1>3, FS_Subset
<1>5. Cardinality(Pending(p)') \in Nat
  BY <1>3, FS_Subset, FS_CardinalityType
<1>6. Cardinality(Slots) \in Nat
  BY SlotsFinite
<1>7. Within(p)' <=>
        \/ breaker'[p].failureCount < FailureThreshold
        \/ breaker'[p].failureCount + Cardinality(Pending(p)')
             <= FailureThreshold - 1 + Cardinality(Slots)
  BY DEF Within, Slots, MaxAccounts, AccountCounts
<1> HIDE DEF Pending
<1> QED BY <1>1, <1>3, <1>4, <1>5, <1>6, <1>7 DEF Within

(* ... and when a failure that was due is charged.                         *)
LEMMA OneCharged ==
  ASSUME Kept, Kept', NEW p \in Providers, Within(p), NEW slot \in Pending(p),
         breaker'[p].failureCount = breaker[p].failureCount + 1,
         Pending(p)' \subseteq Pending(p) \ {slot}
  PROVE  Within(p)'
<1>1. breaker[p].failureCount \in Nat /\ FailureThreshold \in Nat
  BY BreakerFields, EngineAssumption DEF Kept
<1>2. /\ IsFiniteSet(Pending(p)) /\ Cardinality(Pending(p)) \in Nat
      /\ Cardinality(Pending(p)) <= Cardinality(Slots)
  BY PendingFinite
<1>3. /\ IsFiniteSet(Pending(p) \ {slot})
      /\ Cardinality(Pending(p) \ {slot}) = Cardinality(Pending(p)) - 1
  BY <1>2, FS_RemoveElement
<1>4. /\ Cardinality(Pending(p)') <= Cardinality(Pending(p)) - 1
      /\ Cardinality(Pending(p)') \in Nat
  BY <1>3, FS_Subset, FS_CardinalityType
<1>5. Cardinality(Slots) \in Nat
  BY SlotsFinite
<1>6. Within(p)' <=>
        \/ breaker'[p].failureCount < FailureThreshold
        \/ breaker'[p].failureCount + Cardinality(Pending(p)')
             <= FailureThreshold - 1 + Cardinality(Slots)
  BY DEF Within, Slots, MaxAccounts, AccountCounts
<1> HIDE DEF Pending
<1> QED BY <1>1, <1>2, <1>4, <1>5, <1>6 DEF Within

(* What becomes due with the step of one handler.                          *)
LEMMA PendingOfStep ==
  ASSUME Kept, NEW r \in Requests, NEW p \in Providers,
         \A o \in Requests \ {r} : req'[o] = req[o],
         \A i \in Nat : Due(req'[r], p, i) => Due(req[r], p, i)
  PROVE  Pending(p)' \subseteq Pending(p)
<1> SUFFICES ASSUME NEW slot \in Slots, Due(req'[slot[1]], p, slot[2])
             PROVE  Due(req[slot[1]], p, slot[2])
  BY DEF Pending, Slots, MaxAccounts, AccountCounts
<1>1. slot[1] \in Requests /\ slot[2] \in Nat
  BY MaxAccountsBounds DEF Slots
<1>2. CASE slot[1] = r
  BY <1>1, <1>2
<1>3. CASE slot[1] # r
  BY <1>1, <1>3
<1> QED BY <1>2, <1>3

(* A charge leaves the stage of charging.                                  *)
LEMMA ChargeMovesOn ==
  ASSUME Kept, NEW r \in Requests, Charge(r)
  PROVE  req'[r].pc # "charge"
<1>0. req[r] \in Request
  BY DEF Kept
<1>1. ASSUME NEW pc, Goto(r, pc) PROVE req'[r].pc = pc
  BY <1>0, <1>1 DEF Goto, Kept, Request
<1>2. ASSUME NextAccount(r) PROVE req'[r].pc = "cooldown"
  <2>1. req'[r] = ToAccount(req[r])
    BY <1>2 DEF NextAccount, Kept, ToAccount
  <2> QED BY <1>0, <2>1, ToAccountFields
<1>3. ASSUME NEW outcome, Finish(r, outcome) PROVE req'[r].pc # "charge"
  BY <1>3 DEF Finish, Finished, Leave, Idle, Kept
<1> QED BY <1>1, <1>2, <1>3 DEF Charge, Decide

LEMMA ProgressBounded ==
  ASSUME Kept, Kept', Bounded, NEW r \in Requests, Progress(r), NEW p \in Providers
  PROVE  Within(p)'
<1> DEFINE q == req[r]
           s == req'[r]
<1>0. Sound(q) /\ q \in Request /\ Within(p)
  BY DEF Kept, Bounded
<1>1. Good(q, s) /\ \A o \in Requests \ {r} : req'[o] = req[o]
  BY ProgressStep, RecordsKept
<1>2. CASE q.pc # "breaker" /\ ~(q.pc = "charge" /\ p = ProviderOf(q))
  <2>1. Pending(p)' \subseteq Pending(p)
    BY <1>1, <1>2, PendingOfStep DEF Good
  <2>2. breaker'[p].failureCount <= breaker[p].failureCount
    BY <1>2, ProgressOfBreakers
  <2> QED BY <1>0, <2>1, <2>2, NothingNew
<1>3. CASE q.pc = "charge" /\ p = ProviderOf(q)
  <2>1. Pending(p)' \subseteq Pending(p)
    BY <1>1, <1>3, PendingOfStep DEF Good
  <2>2. ~Due(s, p, q.ai)
    BY <1>1, <1>3, TouchesOneBreaker, ChargeMovesOn DEF Good
  <2> DEFINE slot == <<r, q.ai>>
  <2>3. slot \in Slots
    <3>1. /\ q.ai \in Nat /\ q.ai >= 1 /\ p \in DOMAIN q.registry
          /\ q.ai <= Len(q.registry[p].accounts)
      BY <1>0, <1>3, Fields DEF Sound, Placed, Trying, ToCharge
    <3>2. Len(q.registry[p].accounts) \in Nat
          /\ Len(q.registry[p].accounts) <= MaxAccounts /\ MaxAccounts \in Nat
      BY <1>0, <3>1, Registries, MaxAccountsBounds
    <3>3. q.ai \in 1..MaxAccounts
      BY <3>1, <3>2
    <3> QED BY <3>3 DEF Slots
  <2>4. slot \in Pending(p)
    <3>1. Due(q, p, q.ai)
      BY <1>0, <1>3, Fields DEF Due, ToCharge
    <3> QED BY <2>3, <3>1 DEF Pending
  <2>5. slot \notin Pending(p)'
    BY <2>2 DEF Pending
  <2>6. Pending(p)' \subseteq Pending(p) \ {slot}
    BY <2>1, <2>5
  <2>7. breaker'[p].failureCount = breaker[p].failureCount + 1
    BY <1>3, ProgressOfBreakers
  <2> HIDE DEF slot
  <2> QED BY <1>0, <2>4, <2>6, <2>7, OneCharged
<1>4. CASE q.pc = "breaker" /\ (Exhaust(r) \/ NextTarget(r))
  <2>1. s.pc \notin ToCharge \cup Charged
    <3>1. CASE Exhaust(r)
      BY <3>1 DEF Exhaust, Finish, Finished, Leave, Idle, Kept, ToCharge, Charged
    <3>2. CASE NextTarget(r)
      <4>1. s = ToTarget(q)
        BY <3>2 DEF NextTarget, ToTarget, Kept
      <4> QED BY <1>0, <4>1, ToTargetFields DEF ToCharge, Charged
    <3> QED BY <1>4, <3>1, <3>2
  <2>2. \A i \in Nat : ~Due(s, p, i)
    BY <2>1 DEF Due
  <2>3. Pending(p)' \subseteq Pending(p)
    BY <1>1, <2>2, PendingOfStep
  <2>4. breaker'[p].failureCount <= breaker[p].failureCount
    BY <1>4, ProgressOfBreakers
  <2> QED BY <1>0, <2>3, <2>4, NothingNew
<1>5. CASE q.pc = "breaker" /\ ~Exhaust(r) /\ ~NextTarget(r)
  <2>1. /\ Goto(r, "cooldown")
        /\ breaker'[ProviderOf(q)].failureCount < FailureThreshold
    BY <1>5, ProgressOfBreakers
  <2>2. CASE p = ProviderOf(q)
    BY <2>1, <2>2 DEF Within
  <2>3. CASE p # ProviderOf(q)
    <3>1. s = Moved(q, "cooldown")
      BY <2>1 DEF Goto, Kept, Moved
    <3>2. s.targets = q.targets /\ s.ti = q.ti
      BY <1>0, <3>1, MovedFields DEF Stages
    <3>3. \A i \in Nat : ~Due(s, p, i)
      BY <2>3, <3>2 DEF Due, ProviderOf
    <3>4. Pending(p)' \subseteq Pending(p)
      BY <1>1, <3>3, PendingOfStep
    <3>5. breaker'[p].failureCount <= breaker[p].failureCount
      BY <1>5, ProgressOfBreakers
    <3> QED BY <1>0, <3>4, <3>5, NothingNew
  <2> QED BY <2>2, <2>3
<1> QED BY <1>2, <1>3, <1>4, <1>5

LEMMA BoundedStep ==
  ASSUME Kept, Kept', Bounded, [Next]_vars
  PROVE  Bounded'
<1> SUFFICES ASSUME NEW p \in Providers PROVE Within(p)'
  BY DEF Bounded
<1>0. Within(p) /\ breaker[p].failureCount \in Nat
  BY BreakerFields DEF Bounded, Kept
<1>1. ASSUME NEW r \in Requests, Progress(r) PROVE Within(p)'
  BY <1>1, ProgressBounded
<1>2. ASSUME NEW r \in Requests, GoodStep(r), req[r].pc # "breaker", UNCHANGED breaker
      PROVE  Within(p)'
  <2>1. /\ Good(req[r], req'[r])
        /\ \A o \in Requests \ {r} : req'[o] = req[o]
    BY <1>2, RecordsKept
  <2>2. Pending(p)' \subseteq Pending(p)
    BY <1>2, <2>1, PendingOfStep DEF Good
  <2> QED BY <1>0, <1>2, <2>2, NothingNew
<1>3. ASSUME NEW r \in Requests, NEW m \in Models, NEW stream \in Kinds,
             Arrive(r, m, stream)
      PROVE  Within(p)'
  BY <1>2, <1>3, ArriveStep DEF Arrive
<1>4. ASSUME NEW r \in Requests, Cancel(r) PROVE Within(p)'
  <2> DEFINE q == req[r]
  <2>1. req'[r] = [q EXCEPT !.cancelled = TRUE] /\ UNCHANGED breaker
        /\ \A o \in Requests \ {r} : req'[o] = req[o]
    BY <1>4 DEF Cancel, Kept
  <2>2. /\ req'[r].pc = q.pc /\ req'[r].targets = q.targets
        /\ req'[r].ti = q.ti /\ req'[r].ai = q.ai
    BY <2>1 DEF Kept, Request
  <2>3. \A i \in Nat : Due(req'[r], p, i) => Due(q, p, i)
    BY <2>2 DEF Due, ProviderOf
  <2>4. Pending(p)' \subseteq Pending(p)
    BY <2>1, <2>3, PendingOfStep
  <2> QED BY <1>0, <2>1, <2>4, NothingNew
<1>5. ASSUME NEW c \in Configs, Reconfigure(c) PROVE Within(p)'
  <2>1. breaker'[p].failureCount = 0
    BY <1>5, NewKept DEF Reconfigure, CB!Renew
  <2> QED BY <2>1, EngineAssumption DEF Within
<1>6. CASE Tick \/ UNCHANGED vars
  <2>1. Pending(p)' \subseteq Pending(p)
    BY <1>6 DEF Tick, vars, Pending, Slots, MaxAccounts, AccountCounts
  <2>2. breaker'[p].failureCount = breaker[p].failureCount
    BY <1>6, OlderKept DEF Tick, CB!Tick, vars, Kept
  <2>3. breaker'[p].failureCount <= breaker[p].failureCount
    BY <1>0, <2>2
  <2> QED BY <1>0, <2>1, <2>3, NothingNew
<1> QED BY <1>1, <1>3, <1>4, <1>5, <1>6 DEF Next

LEMMA BoundedInit == Init => Bounded
BY EngineAssumption DEF Init, CB!Init, CB!NewBreaker, Bounded, Within

LEMMA BoundedInvariance == Spec => [](Kept /\ Bounded)
<1>1. Kept /\ Bounded /\ [Next]_vars => (Kept /\ Bounded)'
  BY KeptStep, BoundedStep
<1> QED BY <1>1, KeptInit, BoundedInit, PTL DEF Spec

LEMMA BoundSuffices == Kept /\ Bounded => LateFailuresBounded
<1> SUFFICES ASSUME Kept, Bounded, NEW p \in Providers
             PROVE  breaker[p].failureCount
                      <= FailureThreshold - 1 + Cardinality(Requests) * MaxAccounts
  BY DEF LateFailuresBounded
<1>1. /\ breaker[p].failureCount \in Nat /\ FailureThreshold \in Nat /\ Within(p)
  BY BreakerFields, EngineAssumption DEF Kept, Bounded
<1>2. Cardinality(Pending(p)) \in Nat
  BY PendingFinite
<1>3. PICK n \in Nat : n = Cardinality(Slots) /\ n = Cardinality(Requests) * MaxAccounts
  BY SlotsFinite
<1>4. breaker[p].failureCount <= FailureThreshold - 1 + n
  BY <1>1, <1>2, <1>3 DEF Within
<1> QED BY <1>3, <1>4

(* However many handlers are on their way through an open breaker, however *)
(* often the engine is reconfigured meanwhile: the failures a breaker has  *)
(* collected exceed its threshold by less than one for each handler and    *)
(* account, and a handler whose client has left charges at most two.       *)
THEOREM LateOutcomesAreBounded == HistSpec => []LateOutcomesBounded
<1>1. Kept /\ Budgeted => LateChargesBounded
  BY DEF Budgeted, InBudget, ToCome, LateChargesBounded
<1>2. HistSpec => [](Kept /\ Bounded)
  BY HistoryRefines, BoundedInvariance, PTL
<1>3. Kept /\ Bounded /\ Budgeted => LateOutcomesBounded
  BY <1>1, BoundSuffices DEF LateOutcomesBounded
<1> QED BY <1>2, <1>3, HistoryInvariance, PTL

-----------------------------------------------------------------------------
(* Rotations of a sequence.                                                *)

LEMMA SmallMod ==
  ASSUME NEW n \in Nat \ {0}, NEW a \in Nat
  PROVE  /\ a < n => a % n = a
         /\ n <= a /\ a < 2 * n => a % n = a - n
<1>1. a < n => a % n = a
  OBVIOUS
<1>2. ASSUME n <= a, a < 2 * n PROVE a % n = a - n
  BY <1>2
<1> QED BY <1>1, <1>2

LEMMA RotatedElements ==
  ASSUME NEW S, NEW t \in Seq(S), NEW k \in 0..Len(t)
  PROVE  LET n == Len(t) IN
         /\ Rotated(t, k) \in Seq(S)
         /\ Len(Rotated(t, k)) = n
         /\ \A i \in 1..n : Rotated(t, k)[i] = IF i <= n - k THEN t[k + i] ELSE t[i - (n - k)]
<1> DEFINE n == Len(t)
<1>0. n \in Nat /\ k \in Nat /\ k <= n
  OBVIOUS
<1>1. /\ SubSeq(t, k + 1, n) \in Seq(S)
      /\ Len(SubSeq(t, k + 1, n)) = n - k
      /\ \A i \in 1..(n - k) : SubSeq(t, k + 1, n)[i] = t[k + i]
  <2>1. \A i \in (k + 1)..n : t[i] \in S
    BY <1>0, ElementOfSeq
  <2>2. k + 1 \in Int /\ n \in Int /\ (IF k + 1 <= n THEN n - (k + 1) + 1 ELSE 0) = n - k
    BY <1>0
  <2>3. /\ SubSeq(t, k + 1, n) \in Seq(S)
        /\ Len(SubSeq(t, k + 1, n)) = (IF k + 1 <= n THEN n - (k + 1) + 1 ELSE 0)
        /\ \A i \in 1..(n - (k + 1) + 1) : SubSeq(t, k + 1, n)[i] = t[(k + 1) + i - 1]
    BY <2>1, <2>2, SubSeqProperties
  <2>4. \A i \in 1..(n - k) : (k + 1) + i - 1 = k + i
    BY <1>0
  <2>5. n - (k + 1) + 1 = n - k
    BY <1>0
  <2> QED BY <2>2, <2>3, <2>4, <2>5
<1>2. /\ SubSeq(t, 1, k) \in Seq(S)
      /\ Len(SubSeq(t, 1, k)) = k
      /\ \A i \in 1..k : SubSeq(t, 1, k)[i] = t[i]
  <2>1. \A i \in 1..k : t[i] \in S
    BY <1>0, ElementOfSeq
  <2>3. /\ SubSeq(t, 1, k) \in Seq(S)
        /\ Len(SubSeq(t, 1, k)) = (IF 1 <= k THEN k - 1 + 1 ELSE 0)
        /\ \A i \in 1..(k - 1 + 1) : SubSeq(t, 1, k)[i] = t[1 + i - 1]
    BY <1>0, <2>1, 1 \in Int, SubSeqProperties
  <2>4. \A i \in 1..k : 1 + i - 1 = i
    OBVIOUS
  <2>5. k - 1 + 1 = k /\ (IF 1 <= k THEN k ELSE 0) = k
    BY <1>0
  <2> QED BY <2>3, <2>4, <2>5
<1> DEFINE u == SubSeq(t, k + 1, n)
           v == SubSeq(t, 1, k)
<1> HIDE DEF u, v, n
<1>3. /\ u \o v \in Seq(S) /\ Len(u \o v) = Len(u) + Len(v)
      /\ \A i \in 1..(Len(u) + Len(v)) :
           (u \o v)[i] = IF i <= Len(u) THEN u[i] ELSE v[i - Len(u)]
  BY <1>1, <1>2, ConcatProperties DEF u, v
<1>4. Len(u) = n - k /\ Len(v) = k /\ (n - k) + k = n
  BY <1>0, <1>1, <1>2 DEF u, v
<1>5. ASSUME NEW i \in 1..n
      PROVE  (u \o v)[i] = IF i <= n - k THEN t[k + i] ELSE t[i - (n - k)]
  <2>1. CASE i <= n - k
    <3>1. i \in 1..(n - k)
      BY <1>0, <2>1
    <3> QED BY <1>1, <1>3, <1>4, <2>1, <3>1 DEF u
  <2>2. CASE ~(i <= n - k)
    <3>1. i - (n - k) \in 1..k
      BY <1>0, <2>2
    <3> QED BY <1>2, <1>3, <1>4, <2>2, <3>1 DEF v
  <2> QED BY <2>1, <2>2
<1>6. Rotated(t, k) = u \o v
  BY DEF Rotated, u, v, n
<1> QED BY <1>3, <1>4, <1>5, <1>6 DEF n

LEMMA RotatedIsRotation ==
  ASSUME NEW S, NEW t \in Seq(S), t # << >>, NEW k \in 0..Len(t)
  PROVE  IsRotationOf(Rotated(t, k), t)
<1> DEFINE n == Len(t)
           s == Rotated(t, k)
<1>0. n \in Nat \ {0} /\ k \in Nat /\ k <= n
  BY EmptySeq
<1>1. /\ Len(s) = n
      /\ \A i \in 1..n : s[i] = IF i <= n - k THEN t[k + i] ELSE t[i - (n - k)]
  BY RotatedElements
<1> HIDE DEF n, s
<1>2. CASE k < n
  <2>1. ASSUME NEW i \in 1..n PROVE s[i] = t[((i - 1 + k) % n) + 1]
    <3>1. CASE i <= n - k
      <4>1. i - 1 + k \in Nat /\ i - 1 + k < n
        BY <1>0, <1>2, <3>1
      <4>2. (i - 1 + k) % n = i - 1 + k
        BY <1>0, <4>1, SmallMod
      <4>3. (i - 1 + k) + 1 = k + i
        BY <1>0
      <4> QED BY <1>1, <3>1, <4>2, <4>3
    <3>2. CASE ~(i <= n - k)
      <4>1. PICK a \in Nat : a = i - 1 + k
        BY <1>0
      <4>2. n <= a /\ a < 2 * n
        BY <1>0, <1>2, <3>2, <4>1
      <4>3. a % n = a - n
        BY <1>0, <4>2, SmallMod
      <4>4. (a - n) + 1 = i - (n - k)
        BY <1>0, <4>1
      <4> QED BY <1>1, <3>2, <4>1, <4>3, <4>4
    <3> QED BY <3>1, <3>2
  <2>2. k \in 0..(n - 1)
    BY <1>0, <1>2
  <2> QED BY <1>1, <2>1, <2>2 DEF IsRotationOf, n, s
<1>3. CASE k = n
  <2>1. ASSUME NEW i \in 1..n PROVE s[i] = t[((i - 1 + 0) % n) + 1]
    <3>1. ~(i <= n - k) /\ i - (n - k) = i /\ i - 1 + 0 = i - 1
      BY <1>0, <1>3
    <3>2. i - 1 \in Nat /\ i - 1 < n
      BY <1>0
    <3>3. (i - 1) % n = i - 1
      BY <1>0, <3>2, SmallMod
    <3>4. (i - 1) + 1 = i
      OBVIOUS
    <3> QED BY <1>1, <3>1, <3>3, <3>4
  <2>2. 0 \in 0..(n - 1)
    BY <1>0
  <2> QED BY <1>1, <2>1, <2>2 DEF IsRotationOf, n, s
<1> QED BY <1>0, <1>2, <1>3 DEF n, s

LEMMA SelfRotation ==
  ASSUME NEW S, NEW t \in Seq(S), t # << >>
  PROVE  IsRotationOf(t, t)
<1> DEFINE n == Len(t)
<1>0. n \in Nat \ {0}
  BY EmptySeq
<1> HIDE DEF n
<1>1. ASSUME NEW i \in 1..n PROVE t[i] = t[((i - 1 + 0) % n) + 1]
  <2>1. i - 1 \in Nat /\ i - 1 < n /\ i - 1 + 0 = i - 1 /\ (i - 1) + 1 = i
    BY <1>0
  <2>2. (i - 1) % n = i - 1
    BY <1>0, <2>1, SmallMod
  <2> QED BY <2>1, <2>2
<1>2. 0 \in 0..(n - 1)
  BY <1>0
<1> QED BY <1>1, <1>2 DEF IsRotationOf, n

(* Every model a client may ask for has a route with targets, whatever is  *)
(* installed.                                                              *)
RoutesStay ==
    \A c \in Configs, m \in Models :
      m \in DOMAIN c.routes /\ c.routes[m].targets # << >>

Chosen(q) ==
    /\ q.pc = "rotate" => q.targets \in RouteTargets(q.model)
    /\ q.pc \notin Unread =>
         \E t \in RouteTargets(q.model) : IsRotationOf(q.targets, t)

(* Once in its chain, a handler keeps what it has read until it leaves it. *)
KeepsReading(q, s) ==
    s.pc \notin {"idle", "routes"} =>
      /\ s.pc \notin Unread
      /\ s.targets = q.targets /\ s.model = q.model /\ s.registry = q.registry

LEMMA FinishedUnread ==
  ASSUME NEW q, NEW outcome
  PROVE  Finished(q, outcome).pc \in {"idle", "routes"}
BY DEF Finished, Leave, Idle

LEMMA ChainKeepsReading ==
  ASSUME Kept, NEW r \in Requests, Progress(r), req[r].pc \notin Unread
  PROVE  KeepsReading(req[r], req'[r])
<1> DEFINE q == req[r]
           s == req'[r]
<1>0. q \in Request /\ req \in [Requests -> Request]
  BY DEF Kept
<1>1. CASE \E pc \in Stages \ Unread : Goto(r, pc)
  BY <1>0, <1>1 DEF Goto, KeepsReading, Request
<1>2. CASE NextTarget(r) \/ NextAccount(r)
  BY <1>0, <1>2 DEF NextTarget, NextAccount, KeepsReading, Request, Unread
<1>3. CASE \E outcome : Finish(r, outcome)
  BY <1>0, <1>3, FinishedUnread DEF Finish, KeepsReading
<1>4. CASE \E pc \in Stages \ Unread : \E e, n :
             req' = [req EXCEPT ![r].pc = pc, ![r].err = e, ![r].attempt = n]
  BY <1>0, <1>4 DEF KeepsReading, Request
<1>5. CASE \E pc \in Stages \ Unread : \E e :
             req' = [req EXCEPT ![r].pc = pc, ![r].err = e]
  BY <1>0, <1>5 DEF KeepsReading, Request
<1>6. CASE ReadLevel(r) \/ BackoffOver(r)
  BY <1>0, <1>6 DEF ReadLevel, BackoffOver, KeepsReading, Request, Unread
<1>7. ASSUME Decide(r) PROVE KeepsReading(q, s)
  BY <1>2, <1>3, <1>7 DEF Decide
<1>8. {"cooldown", "lock", "attempt", "calling", "charge", "level", "lockModel",
       "unlock", "credit", "reset", "backoff"} \subseteq Stages \ Unread
  BY DEF Stages, Unread
<1>9. CASE \E answer \in MayAnswer(r) : Answer(r, answer)
  <2>1. PICK answer : Answer(r, answer)
    BY <1>9
  <2> DEFINE e == AnswerError(answer, q.stream, Adapter(r).errors)
             pc == CASE e = "none" -> "reset"
                     [] e # "none" /\ ~IsRetryable(e) -> "charge"
                     [] OTHER -> IF q.attempt < config.maxAttempts
                                 THEN "backoff" ELSE "attempt"
             n == IF pc = "attempt" THEN q.attempt + 1 ELSE q.attempt
  <2>2. pc \in {"reset", "charge", "backoff", "attempt"}
    OBVIOUS
  <2>3. req' = [req EXCEPT ![r].pc = pc, ![r].err = e,
                           ![r].attempt = IF pc = "attempt" THEN @ + 1 ELSE @]
    BY <2>1 DEF Answer
  <2> HIDE DEF e, pc
  <2>4. req' = [req EXCEPT ![r].pc = pc, ![r].err = e, ![r].attempt = n]
    BY <2>3
  <2> HIDE DEF n
  <2>5. pc \in Stages \ Unread
    BY <1>8, <2>2
  <2> QED BY <1>4, <2>4, <2>5
<1>10. CASE Exhaust(r) \/ Credit(r)
  BY <1>3, <1>10 DEF Exhaust, Credit
<1>11. CASE CheckBreaker(r) \/ CheckCooldown(r) \/ CheckModelLock(r)
  BY <1>1, <1>2, <1>8, <1>11 DEF CheckBreaker, CheckCooldown, CheckModelLock
<1>12. CASE Attempt(r) \/ BackoffCancelled(r)
  BY <1>1, <1>5, <1>8, <1>12 DEF Attempt, BackoffCancelled
<1>13. CASE Charge(r) \/ Cool(r) \/ LockModel(r)
  BY <1>1, <1>7, <1>8, <1>13 DEF Charge, Cool, LockModel
<1>14. CASE ResetBackoff(r) \/ Unlock(r)
  BY <1>1, <1>8, <1>14 DEF ResetBackoff, Unlock
<1>15. ~Snapshot(r) /\ ~ReadRoutes(r) /\ ~Rotate(r)
  BY DEF Snapshot, ReadRoutes, Rotate, Unread
<1> QED BY <1>6, <1>9, <1>10, <1>11, <1>12, <1>13, <1>14, <1>15 DEF Progress

(* Resolving puts the given targets into the record, or leaves the chain.  *)
LEMMA ResolvedChosen ==
  ASSUME NEW q \in Request, NEW u \in Seq(TargetRecord),
         NEW t \in RouteTargets(q.model), IsRotationOf(u, t)
  PROVE  Chosen(Resolved(q, u))
<1>1. CASE Resolved(q, u) = [q EXCEPT !.pc = "breaker", !.targets = u]
  <2>1. Resolved(q, u).pc = "breaker" /\ Resolved(q, u).targets = u
        /\ Resolved(q, u).model = q.model
    BY <1>1 DEF Request
  <2> QED BY <2>1 DEF Chosen
<1>2. CASE Resolved(q, u).pc \in {"idle", "routes", "snapshot"}
  BY <1>2 DEF Chosen, Unread
<1>3. [q EXCEPT !.pc = "snapshot", !.targets = << >>].pc = "snapshot"
  BY DEF Request
<1>4. Leave(q.outcome).pc = "idle"
  BY DEF Leave, Idle
<1> QED BY <1>1, <1>2, <1>3, <1>4, FinishedUnread DEF Resolved

LEMMA RoutesTyped ==
  ASSUME RoutesStay, NEW c \in Configs, NEW m \in Models
  PROVE  LET t == c.routes[m].targets IN
         /\ m \in DOMAIN c.routes /\ t # << >>
         /\ t \in Seq(TargetRecord) /\ t \in RouteTargets(m)
BY ConfigsAssumption DEF RoutesStay, RouteTargets, WellFormed

LEMMA RoutesOfModel ==
  ASSUME RoutesStay, NEW m \in Models, NEW t \in RouteTargets(m)
  PROVE  t # << >> /\ t \in Seq(TargetRecord)
BY RoutesTyped DEF RouteTargets

LEMMA ReadingChosen ==
  ASSUME RoutesStay, Kept, NEW r \in Requests, ReadRoutes(r)
  PROVE  Chosen(req'[r])
<1> DEFINE q == req[r]
           m == q.model
           t == config.routes[m].targets
<1>0. /\ q \in Request /\ m \in Models /\ config \in Configs
      /\ req \in [Requests -> Request]
  BY DEF ReadRoutes, Kept, Sound, Placed
<1>1. m \in DOMAIN config.routes /\ t # << >> /\ t \in Seq(TargetRecord)
      /\ t \in RouteTargets(m)
  BY <1>0, RoutesTyped
<1>2. CASE req' = [req EXCEPT ![r].pc = "rotate", ![r].targets = t]
  <2>1. req'[r].pc = "rotate" /\ req'[r].targets = t /\ req'[r].model = m
    BY <1>0, <1>2 DEF Request
  <2> QED BY <1>1, <2>1 DEF Chosen, Unread
<1>3. CASE req' = [req EXCEPT ![r] = Resolved(@, t)]
  <2>1. req'[r] = Resolved(q, t)
    BY <1>0, <1>3
  <2>2. IsRotationOf(t, t)
    BY <1>1, SelfRotation
  <2> QED BY <1>0, <1>1, <2>1, <2>2, ResolvedChosen
<1> QED BY <1>1, <1>2, <1>3 DEF ReadRoutes

LEMMA RotatingChosen ==
  ASSUME RoutesStay, Kept, NEW r \in Requests, Rotate(r), Chosen(req[r])
  PROVE  Chosen(req'[r])
<1> DEFINE q == req[r]
           t == q.targets
           k == roundRobin[q.model]
<1>0. /\ q \in Request /\ q.model \in Models /\ req \in [Requests -> Request]
      /\ k \in Nat /\ q.pc = "rotate"
  BY DEF Rotate, Kept, Sound, Placed
<1>1. t \in RouteTargets(q.model) /\ t # << >> /\ t \in Seq(TargetRecord)
  BY <1>0, RoutesOfModel DEF Chosen
<1>2. CASE k > Len(t)
  <2>1. req'[r] = Leave("panic")
    BY <1>0, <1>2 DEF Rotate
  <2> QED BY <2>1 DEF Chosen, Leave, Idle, Unread
<1>3. CASE ~(k > Len(t))
  <2>1. req'[r] = Resolved(q, Rotated(t, k))
    BY <1>0, <1>3 DEF Rotate
  <2>2. k \in 0..Len(t)
    BY <1>0, <1>1, <1>3
  <2>3. IsRotationOf(Rotated(t, k), t) /\ Rotated(t, k) \in Seq(TargetRecord)
    BY <1>1, <2>2, RotatedIsRotation, RotatedElements
  <2> QED BY <1>0, <1>1, <2>1, <2>3, ResolvedChosen
<1> QED BY <1>2, <1>3

AllChosen == \A r \in Requests : Chosen(req[r])

LEMMA ChoicesStep == ASSUME RoutesStay PROVE Kept /\ AllChosen /\ [Next]_vars => AllChosen'
<1> SUFFICES ASSUME Kept, AllChosen, [Next]_vars PROVE AllChosen'
  OBVIOUS
<1>0. req \in [Requests -> Request]
  BY DEF Kept
<1>1. ASSUME NEW r \in Requests, Chosen(req'[r]),
             \A o \in Requests \ {r} : req'[o] = req[o]
      PROVE  AllChosen'
  BY <1>1 DEF AllChosen, Chosen
<1>2. ASSUME NEW r \in Requests, Progress(r) PROVE AllChosen'
  <2>1. \A o \in Requests \ {r} : req'[o] = req[o]
    BY <1>2, ProgressStep, RecordsKept
  <2>2. CASE req[r].pc \notin Unread
    <3>1. KeepsReading(req[r], req'[r])
      BY <1>2, <2>2, ChainKeepsReading
    <3>2. Chosen(req'[r])
      BY <2>2, <3>1 DEF KeepsReading, AllChosen, Chosen, Unread
    <3> QED BY <1>1, <2>1, <3>2
  <2>3. CASE Snapshot(r)
    <3>1. req'[r].pc = "routes"
      BY <1>0, <2>3 DEF Snapshot, Request
    <3> QED BY <1>1, <2>1, <3>1 DEF Chosen, Unread
  <2>4. CASE ReadRoutes(r)
    BY <1>1, <2>1, <2>4, ReadingChosen
  <2>5. CASE Rotate(r)
    BY <1>1, <2>1, <2>5, RotatingChosen DEF AllChosen
  <2>6. req[r].pc \in Unread => Snapshot(r) \/ ReadRoutes(r) \/ Rotate(r)
    BY <1>2 DEF Progress, Unread, Exhaust, CheckBreaker, CheckCooldown,
       CheckModelLock, Attempt, BackoffOver, BackoffCancelled, Answer, Charge,
       ReadLevel, Cool, LockModel, ResetBackoff, Unlock, Credit
  <2> QED BY <2>2, <2>3, <2>4, <2>5, <2>6
<1>3. ASSUME NEW r \in Requests, NEW m \in Models, NEW stream \in Kinds,
             Arrive(r, m, stream)
      PROVE  AllChosen'
  <2>1. req'[r].pc \in {"routes", "snapshot"}
    BY <1>0, <1>3 DEF Arrive, Idle
  <2>2. \A o \in Requests \ {r} : req'[o] = req[o]
    BY <1>3, ArriveStep, RecordsKept
  <2> QED BY <1>1, <2>1, <2>2 DEF Chosen, Unread
<1>4. ASSUME NEW r \in Requests, Cancel(r) PROVE AllChosen'
  <2>1. /\ req'[r].pc = req[r].pc /\ req'[r].targets = req[r].targets
        /\ req'[r].model = req[r].model
    BY <1>0, <1>4 DEF Cancel, Request
  <2>2. \A o \in Requests \ {r} : req'[o] = req[o]
    BY <1>4, CancelStep, RecordsKept
  <2> QED BY <1>1, <2>1, <2>2 DEF Chosen, AllChosen
<1>5. CASE UNCHANGED req
  BY <1>5 DEF AllChosen, Chosen
<1> QED BY <1>2, <1>3, <1>4, <1>5 DEF Next, Reconfigure, Tick, vars

(* Where every model keeps a route, a handler that is on its chain goes    *)
(* through a rotation of a route of its model, whatever was installed      *)
(* between its reading and its rotating, and whatever the index.           *)
THEOREM TargetsRotate == ASSUME RoutesStay PROVE Spec => []TargetsAreRotation
<1>1. Init => AllChosen
  BY DEF Init, AllChosen, Chosen, Idle, Unread
<1>2. AllChosen => TargetsAreRotation
  BY DEF AllChosen, Chosen, TargetsAreRotation, InChain, Unread
<1> QED BY <1>1, <1>2, ChoicesStep, Invariance, PTL DEF Spec

-----------------------------------------------------------------------------
(* The world of HealthyServed: clients wait, upstreams answer, every       *)
(* registry knows the providers of every route, and the routes that may    *)
(* replace one another differ in length by one at most, so that an index   *)
(* left behind by the longer one is not beyond the end of the shorter.     *)
Healthy ==
    /\ RoutesStay
    /\ Impatient = {}
    /\ \A a \in Answers : a.status = OK /\ a.parses
    /\ \A c, d \in Configs, m \in Models :
         /\ Len(c.routes[m].targets) <= Len(d.routes[m].targets) + 1
         /\ \A i \in 1..Len(c.routes[m].targets) :
              LET p == c.routes[m].targets[i].provider
              IN  p \in DOMAIN d.registry /\ Len(d.registry[p].accounts) >= 1

(* The registry it has copied knows the provider and has an account for    *)
(* it.                                                                     *)
Knows(q, p) == p \in DOMAIN q.registry /\ Len(q.registry[p].accounts) >= 1

(* A request in it never leaves the first account of the first target.     *)
Calm(q) ==
    /\ ~q.cancelled /\ q.outcome \in {"none", "served"}
    /\ q.ti = 1 /\ q.ai = 1 /\ q.attempt = 1
    /\ q.pc \notin {"backoff", "charge"} \cup Charged
    /\ q.pc \in {"routes", "rotate"} /\ q.purpose = "route" =>
         q.registry \in {c.registry : c \in Configs}
    /\ q.pc \notin Unread => 1 <= Len(q.targets) /\ Knows(q, ProviderOf(q))

LEMMA CalmMoved ==
  ASSUME NEW q \in Request, Calm(q), q.pc \notin Unread,
         NEW pc \in {"cooldown", "lock", "attempt", "calling", "unlock", "credit"}
  PROVE  Calm(Moved(q, pc))
<1>1. pc \in Stages /\ pc \notin {"backoff", "charge"} \cup Charged
      /\ pc \notin {"routes", "rotate"}
  BY DEF Stages, Charged
<1> DEFINE s == Moved(q, pc)
<1>2. s.outcome = q.outcome
  BY DEF Moved, Request
<1>3. /\ s.pc = pc /\ s.cancelled = q.cancelled /\ s.registry = q.registry
      /\ s.targets = q.targets /\ s.ti = q.ti /\ s.ai = q.ai /\ s.attempt = q.attempt
  BY <1>1, MovedFields
<1> HIDE DEF s
<1>4. ProviderOf(s) = ProviderOf(q) /\ (Knows(q, ProviderOf(q)) => Knows(s, ProviderOf(q)))
  BY <1>3 DEF ProviderOf, Knows
<1> QED BY <1>1, <1>2, <1>3, <1>4 DEF Calm, s

LEMMA CalmFinished ==
  ASSUME NEW q \in Request, Calm(q)
  PROVE  Calm(Finished(q, "served"))
BY DEF Finished, Leave, Idle, Calm, Unread, Charged, Request

(* A route of the model, rotated or not, begins with a provider that the   *)
(* registry of any configuration knows.                                    *)
LEMMA CalmResolved ==
  ASSUME Healthy, NEW q \in Request, Sound(q), Calm(q), q.pc \in {"routes", "rotate"},
         NEW t \in RouteTargets(q.model), NEW u \in Seq(TargetRecord),
         IsRotationOf(u, t)
  PROVE  Calm(Resolved(q, u))
<1>0. q.model \in Models
  BY DEF Sound, Placed
<1>1. t # << >> /\ t \in Seq(TargetRecord)
  BY <1>0, RoutesOfModel DEF Healthy
<1>2. Len(t) \in Nat \ {0} /\ Len(u) = Len(t) /\ u # << >>
  BY <1>1, EmptySeq DEF IsRotationOf
<1>3. PICK i \in 1..Len(t) : u[1] = t[i]
  <2>1. PICK k \in 0..(Len(t) - 1) :
               \A i \in 1..Len(t) : u[i] = t[((i - 1 + k) % Len(t)) + 1]
    BY DEF IsRotationOf
  <2>2. 1 \in 1..Len(t) /\ 1 - 1 + k = k /\ k \in Nat /\ k < Len(t)
    BY <1>2
  <2>3. k % Len(t) = k
    BY <1>2, <2>2, SmallMod
  <2>4. k + 1 \in 1..Len(t)
    BY <1>2
  <2> QED BY <2>1, <2>2, <2>3, <2>4
<1>4. CASE q.purpose = "log" /\ q.stream
  <2>1. Resolved(q, u) = [q EXCEPT !.pc = "snapshot", !.targets = << >>]
    BY <1>4 DEF Resolved
  <2> QED BY <2>1 DEF Calm, Unread, Charged, Request
<1>5. CASE q.purpose = "log" /\ ~q.stream
  <2>1. Resolved(q, u) = Leave(q.outcome)
    BY <1>5 DEF Resolved
  <2> QED BY <2>1 DEF Calm, Leave, Idle, Unread, Charged
<1>6. CASE q.purpose = "route"
  <2> DEFINE s == [q EXCEPT !.pc = "breaker", !.targets = u]
  <2>1. Resolved(q, u) = s
    BY <1>2, <1>6 DEF Resolved
  <2>2. /\ s.pc = "breaker" /\ s.targets = u /\ s.registry = q.registry
        /\ s.cancelled = q.cancelled /\ s.outcome = q.outcome
        /\ s.ti = q.ti /\ s.ai = q.ai /\ s.attempt = q.attempt
    BY DEF Request
  <2> HIDE DEF s
  <2>3. PICK d \in Configs : q.registry = d.registry
    BY <1>6 DEF Calm
  <2>4. PICK c \in Configs : q.model \in DOMAIN c.routes /\ t = c.routes[q.model].targets
    BY DEF RouteTargets
  <2>5. t[i].provider \in DOMAIN d.registry /\ Len(d.registry[t[i].provider].accounts) >= 1
    BY <1>0, <2>4 DEF Healthy
  <2>6. ProviderOf(s) = t[i].provider
    BY <1>3, <2>2 DEF ProviderOf, Calm
  <2>7. Knows(s, ProviderOf(s))
    BY <2>2, <2>3, <2>5, <2>6 DEF Knows
  <2> QED BY <1>2, <2>1, <2>2, <2>7 DEF Calm, Unread, Charged
<1> QED BY <1>4, <1>5, <1>6 DEF Request

(* New breakers let everybody pass, and an account without entries is      *)
(* free.                                                                   *)
LEMMA RestedPasses ==
  ASSUME Kept, CB!Init, CD!Init
  PROVE  /\ \A p \in Providers : /\ CB!AfterLook(breaker[p]) = breaker[p]
                                 /\ CB!AfterSuccess(breaker[p]) = breaker[p]
                                 /\ ~CB!Refuses(breaker[p])
         /\ \A a \in Accounts : ~CD!IsInCooldown(a)
         /\ \A a \in Accounts, m \in TargetModels : ~CD!IsModelLocked(a, m)
<1>1. ASSUME NEW p \in Providers
      PROVE  /\ CB!AfterLook(breaker[p]) = breaker[p]
             /\ CB!AfterSuccess(breaker[p]) = breaker[p]
             /\ ~CB!Refuses(breaker[p])
  <2>1. breaker[p] = CB!NewBreaker
    BY DEF CB!Init
  <2>2. CB!AfterLook(CB!NewBreaker) = CB!NewBreaker
    BY DEF CB!AfterLook, CB!Expired, CB!NewBreaker
  <2>3. CB!AfterSuccess(CB!NewBreaker) = CB!NewBreaker
    BY DEF CB!AfterSuccess, CB!NewBreaker
  <2> QED BY <2>1, <2>2, <2>3 DEF CB!Refuses, CB!NewBreaker
<1>2. ASSUME NEW a \in Accounts
      PROVE  /\ ~CD!IsInCooldown(a)
             /\ \A m \in TargetModels : ~CD!IsModelLocked(a, m)
  <2>1. cooldown[a] = CD!NewState
    BY DEF CD!Init
  <2> QED BY <2>1 DEF CD!IsInCooldown, CD!IsModelLocked, CD!LockEntry,
                      CD!NewState, CD!LockNames, CD!NoLock
<1> QED BY <1>1, <1>2

LEMMA RestKept ==
  ASSUME CB!Init, CD!Init
  PROVE  /\ CB!Tick => CB!Init'
         /\ CD!Tick => CD!Init'
         /\ CB!Renew => CB!Init'
         /\ \A p \in Providers : CB!RecordSuccess(p) => CB!Init'
         /\ \A a \in Accounts : CD!ResetBackoffLevel(a) => CD!Init'
         /\ \A a \in Accounts, m \in TargetModels : CD!ClearModelLock(a, m) => CD!Init'
<1>1. CB!Tick => CB!Init'
  BY DEF CB!Tick, CB!Init, CB!NewBreaker
<1>2. ASSUME CD!Tick PROVE CD!Init'
  <2> DEFINE Aged(e) ==
        [e EXCEPT !.left = IF @ > 0 THEN @ - 1 ELSE @,
                  !.locks = [m \in CD!LockNames |-> IF @[m] > 0 THEN @[m] - 1 ELSE @[m]]]
  <2>1. cooldown' = [a \in Accounts |-> Aged(cooldown[a])]
    BY <1>2 DEF CD!Tick
  <2>2. Aged(CD!NewState) = CD!NewState
    <3>1. [m \in CD!LockNames |-> IF CD!NewState.locks[m] > 0
                                  THEN CD!NewState.locks[m] - 1
                                  ELSE CD!NewState.locks[m]] = CD!NewState.locks
      BY DEF CD!NewState, CD!NoLock
    <3>2. CD!NewState.left = 0
      BY DEF CD!NewState
    <3> DEFINE n == CD!NewState
               l == [m \in CD!LockNames |-> IF n.locks[m] > 0 THEN n.locks[m] - 1
                                            ELSE n.locks[m]]
               k == IF n.left > 0 THEN n.left - 1 ELSE n.left
    <3>3. Aged(n) = [n EXCEPT !.left = k, !.locks = l]
      OBVIOUS
    <3>4. k = 0 /\ l = n.locks
      BY <3>1, <3>2
    <3>5. [n EXCEPT !.left = 0, !.locks = n.locks] = n
      <4> DEFINE none == [m \in CD!LockNames |-> CD!NoLock]
      <4>1. n = [left |-> 0, level |-> 0, locks |-> none]
        BY DEF CD!NewState
      <4>2. n.locks = none
        BY <4>1
      <4> HIDE DEF n, none
      <4> DEFINE R == [left : {0}, level : {0}, locks : {none}]
      <4>3. n \in R
        BY <4>1
      <4>4. \A e \in R : [e EXCEPT !.left = 0, !.locks = none] \in R
        OBVIOUS
      <4>5. \A e, f \in R : e = f
        OBVIOUS
      <4> QED BY <4>2, <4>3, <4>4, <4>5
    <3> HIDE DEF k, l, n, Aged
    <3> QED BY <3>3, <3>4, <3>5 DEF n
  <2> HIDE DEF Aged
  <2> QED BY <2>1, <2>2 DEF CD!Init
<1>3. CB!Renew => CB!Init'
  BY DEF CB!Renew, CB!Init
<1>4. ASSUME NEW p \in Providers, CB!RecordSuccess(p) PROVE CB!Init'
  <2>1. CB!AfterSuccess(CB!NewBreaker) = CB!NewBreaker
    BY DEF CB!AfterSuccess, CB!NewBreaker
  <2>2. breaker[p] = CB!NewBreaker
    BY DEF CB!Init
  <2>3. breaker' = [breaker EXCEPT ![p] = CB!NewBreaker]
    BY <1>4, <2>1, <2>2 DEF CB!RecordSuccess
  <2> QED BY <2>3 DEF CB!Init
<1>5. ASSUME NEW a \in Accounts, CD!ResetBackoffLevel(a) PROVE CD!Init'
  <2>1. [CD!NewState EXCEPT !.level = 0] = CD!NewState
    BY DEF CD!NewState
  <2>2. cooldown' = [cooldown EXCEPT ![a] = [CD!NewState EXCEPT !.level = 0]]
    BY <1>5 DEF CD!ResetBackoffLevel, CD!Init
  <2> QED BY <2>1, <2>2 DEF CD!Init
<1>6. ASSUME NEW a \in Accounts, NEW m \in TargetModels, CD!ClearModelLock(a, m)
      PROVE  CD!Init'
  <2>1. [CD!NewState EXCEPT !.locks[m] = CD!NoLock] = CD!NewState
    BY DEF CD!NewState, CD!LockNames
  <2>2. cooldown' = [cooldown EXCEPT ![a] = [CD!NewState EXCEPT !.locks[m] = CD!NoLock]]
    BY <1>6 DEF CD!ClearModelLock, CD!Init
  <2> QED BY <2>1, <2>2 DEF CD!Init
<1> QED BY <1>1, <1>2, <1>3, <1>4, <1>5, <1>6

LEMMA CalmCandidate ==
  ASSUME Kept, NEW r \in Requests, Calm(req[r]), req[r].pc \notin Unread
  PROVE  LET q == req[r] IN
         /\ Target(r).provider = ProviderOf(q) /\ Target(r).provider \in Providers
         /\ Target(r).model \in TargetModels
         /\ Candidate(r) \in Accounts
         /\ Target(r).provider \in DOMAIN q.registry
         /\ Len(AccountNames(r)) >= 1 /\ Len(AccountNames(r)) \in Nat
         /\ Len(q.targets) \in Nat /\ Len(q.targets) >= 1
<1> DEFINE q == req[r]
<1>0. Sound(q) /\ q.ti = 1 /\ q.ai = 1 /\ 1 <= Len(q.targets) /\ Knows(q, ProviderOf(q))
  BY DEF Kept, Calm
<1>1. q.targets[q.ti] \in TargetRecord /\ ProviderOf(q) \in Providers
  BY <1>0, TargetsTyped
<1>2. Target(r).provider = ProviderOf(q)
  BY DEF Target, ProviderOf
<1>3. Target(r).model \in TargetModels
  BY <1>1 DEF Target, TargetRecord
<1>4. AccountNames(r) = q.registry[ProviderOf(q)].accounts
  BY DEF AccountNames, Adapter, Target, ProviderOf
<1>5. /\ Len(q.registry[ProviderOf(q)].accounts) \in Nat
      /\ \A i \in 1..Len(q.registry[ProviderOf(q)].accounts) :
           Account(ProviderOf(q), q.registry[ProviderOf(q)].accounts[i]) \in Accounts
  BY <1>0, Registries DEF Knows
<1>6. Candidate(r) = Account(ProviderOf(q), q.registry[ProviderOf(q)].accounts[1])
  BY <1>0, <1>2, <1>4 DEF Candidate
<1>7. 1 \in 1..Len(q.registry[ProviderOf(q)].accounts)
  BY <1>0, <1>5 DEF Knows
<1>8. Len(q.targets) \in Nat
  BY <1>0, Fields DEF Sound
<1> QED BY <1>0, <1>1, <1>2, <1>3, <1>4, <1>5, <1>6, <1>7, <1>8 DEF Knows

(* No breaker, no cooldown and no lock ever differs from a new one, and no *)
(* index is beyond the end of a route.                                     *)
Rested ==
    /\ CB!Init /\ CD!Init
    /\ \A m \in Models, c \in Configs : roundRobin[m] <= Len(c.routes[m].targets)

LEMMA CalmGoto ==
  ASSUME Kept, NEW r \in Requests, Calm(req[r]), req[r].pc \notin Unread,
         NEW pc \in {"cooldown", "lock", "attempt", "calling", "unlock", "credit"},
         Goto(r, pc)
  PROVE  Calm(req'[r])
<1>1. req'[r] = Moved(req[r], pc)
  BY DEF Goto, Kept, Moved
<1> QED BY <1>1, CalmMoved DEF Kept

(* Each step of a handler is the one it would take if it were alone.       *)
LEMMA CalmProgress ==
  ASSUME Healthy, Kept, AllChosen, Rested, NEW r \in Requests, Progress(r), Calm(req[r])
  PROVE  Calm(req'[r]) /\ Rested'
<1> DEFINE q == req[r]
<1>0. /\ q \in Request /\ req \in [Requests -> Request] /\ Sound(q)
      /\ CB!Init /\ CD!Init
      /\ q.pc # "idle" => q.model \in Models
  BY DEF Kept, Rested, Sound, Placed
<1>1. CASE Snapshot(r)
  <2> DEFINE s == [q EXCEPT !.pc = "routes", !.purpose = "route",
                            !.registry = config.registry]
  <2>1. req'[r] = s /\ config \in Configs
    BY <1>0, <1>1 DEF Snapshot, Kept
  <2>2. /\ s.pc = "routes" /\ s.registry = config.registry
        /\ s.cancelled = q.cancelled /\ s.outcome = q.outcome
        /\ s.ti = q.ti /\ s.ai = q.ai /\ s.attempt = q.attempt
    BY <1>0 DEF Request
  <2> HIDE DEF s
  <2>3. Calm(s)
    BY <2>1, <2>2 DEF Calm, Unread, Charged
  <2> QED BY <1>1, <2>1, <2>3 DEF Snapshot, Rested, CB!Init, CD!Init
<1>2. CASE ReadRoutes(r)
  <2> DEFINE t == config.routes[q.model].targets
  <2>1. /\ q.pc = "routes" /\ q.model \in DOMAIN config.routes /\ t # << >>
        /\ t \in Seq(TargetRecord) /\ t \in RouteTargets(q.model)
    BY <1>0, <1>2, RoutesTyped DEF ReadRoutes, Kept, Healthy
  <2>2. ASSUME req' = [req EXCEPT ![r].pc = "rotate", ![r].targets = t]
        PROVE  Calm(req'[r])
    <3> DEFINE s == [q EXCEPT !.pc = "rotate", !.targets = t]
    <3>1. req'[r] = s
      BY <1>0, <2>2
    <3>2. /\ s.pc = "rotate" /\ s.registry = q.registry /\ s.purpose = q.purpose
          /\ s.cancelled = q.cancelled /\ s.outcome = q.outcome
          /\ s.ti = q.ti /\ s.ai = q.ai /\ s.attempt = q.attempt
      BY <1>0 DEF Request
    <3> HIDE DEF s
    <3> QED BY <2>1, <3>1, <3>2 DEF Calm, Unread, Charged
  <2>3. ASSUME req' = [req EXCEPT ![r] = Resolved(@, t)] PROVE Calm(req'[r])
    <3>1. req'[r] = Resolved(q, t)
      BY <1>0, <2>3
    <3>2. Calm(Resolved(q, t))
      BY <1>0, <2>1, SelfRotation, CalmResolved
    <3> QED BY <3>1, <3>2
  <2>4. Calm(req'[r])
    BY <1>2, <2>1, <2>2, <2>3 DEF ReadRoutes
  <2> QED BY <1>2, <2>4 DEF ReadRoutes, Rested, CB!Init, CD!Init
<1>3. CASE Rotate(r)
  <2> DEFINE t == q.targets
             k == roundRobin[q.model]
             n == Len(t)
  <2>1. /\ q.pc = "rotate" /\ q.model \in Models /\ k \in Nat
        /\ t \in RouteTargets(q.model) /\ t # << >> /\ t \in Seq(TargetRecord)
        /\ n \in Nat \ {0}
    <3>1. q.pc = "rotate" /\ q.model \in Models /\ t \in RouteTargets(q.model)
      BY <1>0, <1>3 DEF Rotate, AllChosen, Chosen
    <3>2. t # << >> /\ t \in Seq(TargetRecord)
      BY <3>1, RoutesOfModel DEF Healthy
    <3> QED BY <3>1, <3>2, EmptySeq DEF Kept
  <2>2. PICK c \in Configs : t = c.routes[q.model].targets
    BY <2>1 DEF RouteTargets
  <2>3. k <= n
    BY <2>1, <2>2 DEF Rested
  <2>4. req'[r] = Resolved(q, Rotated(t, k))
    BY <1>0, <1>3, <2>1, <2>3 DEF Rotate
  <2>5. k \in 0..n
    BY <2>1, <2>3
  <2>6. IsRotationOf(Rotated(t, k), t) /\ Rotated(t, k) \in Seq(TargetRecord)
    BY <2>1, <2>5, RotatedIsRotation, RotatedElements
  <2>7. Calm(req'[r])
    BY <1>0, <2>1, <2>4, <2>6, CalmResolved
  <2>8. roundRobin' = [roundRobin EXCEPT ![q.model] = (k + 1) % n]
    BY <1>3 DEF Rotate, AdvancedIndex, Kept
  <2>9. (k + 1) % n \in Nat /\ (k + 1) % n < n
    BY <2>1, SMTT(30)
  <2>10. ASSUME NEW m \in Models, NEW d \in Configs
         PROVE  roundRobin'[m] <= Len(d.routes[m].targets)
    <3>1. CASE m = q.model
      <4>1. Len(d.routes[m].targets) \in Nat
        BY RoutesTyped DEF Healthy
      <4>2. n <= Len(d.routes[m].targets) + 1
        BY <2>2, <3>1 DEF Healthy
      <4>3. roundRobin'[m] = (k + 1) % n
        BY <2>8, <3>1 DEF Kept
      <4> HIDE DEF n, k
      <4>4. \A j \in Nat, l \in Nat : j < n /\ n <= l + 1 => j <= l
        BY <2>1
      <4> QED BY <2>9, <4>1, <4>2, <4>3, <4>4
    <3>2. CASE m # q.model
      BY <2>8, <3>2 DEF Kept, Rested
    <3> QED BY <3>1, <3>2
  <2> QED BY <1>3, <2>7, <2>10 DEF Rotate, Rested, CB!Init, CD!Init
<1>4. ASSUME q.pc \notin Unread PROVE Calm(req'[r]) /\ Rested'
  <2>0. /\ Target(r).provider = ProviderOf(q) /\ Target(r).provider \in Providers
        /\ Target(r).model \in TargetModels /\ Candidate(r) \in Accounts
        /\ Target(r).provider \in DOMAIN q.registry
        /\ Len(AccountNames(r)) >= 1 /\ Len(AccountNames(r)) \in Nat
        /\ Len(q.targets) \in Nat /\ Len(q.targets) >= 1
    BY <1>4, CalmCandidate
  <2>1. /\ ~q.cancelled /\ q.ti = 1 /\ q.ai = 1 /\ q.attempt = 1
        /\ q.pc \notin {"backoff", "charge"} \cup Charged
    BY DEF Calm
  <2>2. ASSUME UNCHANGED <<breaker, cooldown, roundRobin>> PROVE Rested'
    BY <2>2 DEF Rested, CB!Init, CD!Init
  <2>3. ~Exhaust(r)
    BY <2>0, <2>1 DEF Exhaust
  <2>4. CASE CheckBreaker(r)
    <3>1. ~CB!Refuses(breaker[Target(r).provider])
          /\ CB!AfterLook(breaker[Target(r).provider]) = breaker[Target(r).provider]
      BY <1>0, <2>0, RestedPasses
    <3>2. Goto(r, "cooldown")
      BY <2>0, <2>4, <3>1 DEF CheckBreaker, CB!IsOpen
    <3>3. breaker' = [breaker EXCEPT ![Target(r).provider] = breaker[Target(r).provider]]
      BY <2>4, <3>1 DEF CheckBreaker, CB!IsOpen
    <3>4. breaker' = breaker
      BY <3>3, <1>0, <2>0 DEF CB!Init
    <3> QED BY <1>4, <2>2, <2>4, <3>2, <3>4, CalmGoto DEF CheckBreaker
  <2>5. CASE CheckCooldown(r)
    <3>1. Goto(r, "lock")
      BY <1>0, <2>0, <2>1, <2>5, RestedPasses DEF CheckCooldown
    <3> QED BY <1>4, <2>2, <2>5, <3>1, CalmGoto DEF CheckCooldown
  <2>6. CASE CheckModelLock(r)
    <3>1. Goto(r, "attempt")
      BY <1>0, <2>0, <2>6, RestedPasses DEF CheckModelLock
    <3> QED BY <1>4, <2>2, <2>6, <3>1, CalmGoto DEF CheckModelLock
  <2>7. CASE Attempt(r)
    <3>1. ~(q.attempt > config.maxAttempts)
      BY <2>1, MaxAttemptsTyped
    <3>2. Goto(r, "calling")
      BY <2>1, <2>7, <3>1 DEF Attempt
    <3> QED BY <1>4, <2>2, <2>7, <3>2, CalmGoto DEF Attempt
  <2>8. ASSUME NEW answer \in MayAnswer(r), Answer(r, answer)
        PROVE  Calm(req'[r]) /\ Rested'
    <3>1. answer \in Answers /\ answer.status = OK /\ answer.parses
      BY <2>1, <2>8 DEF MayAnswer, Healthy
    <3>2. AnswerError(answer, q.stream, Adapter(r).errors) = "none"
      BY <3>1 DEF AnswerError, OK
    <3> DEFINE s == [q EXCEPT !.pc = "reset", !.err = "none"]
    <3>3. req' = [req EXCEPT ![r].pc = "reset", ![r].err = "none",
                             ![r].attempt = @]
      BY <2>8, <3>2 DEF Answer
    <3>4. req'[r].pc = "reset" /\ req'[r].registry = q.registry
          /\ req'[r].targets = q.targets /\ req'[r].cancelled = q.cancelled
          /\ req'[r].outcome = q.outcome /\ req'[r].ti = q.ti /\ req'[r].ai = q.ai
          /\ req'[r].attempt = q.attempt
      BY <1>0, <3>3 DEF Request
    <3>5. Calm(req'[r])
      BY <1>4, <3>4 DEF Calm, Knows, ProviderOf, Unread, Charged
    <3> QED BY <2>2, <2>8, <3>5 DEF Answer
  <2>9. CASE ResetBackoff(r)
    <3>1. CD!Init'
      BY <1>0, <2>0, <2>9, RestKept DEF ResetBackoff
    <3> QED BY <1>4, <2>9, <3>1, CalmGoto DEF ResetBackoff, Rested, CB!Init
  <2>10. CASE Unlock(r)
    <3>1. CD!Init'
      BY <1>0, <2>0, <2>10, RestKept DEF Unlock
    <3> QED BY <1>4, <2>10, <3>1, CalmGoto DEF Unlock, Rested, CB!Init
  <2>11. CASE Credit(r)
    <3>1. CB!Init'
      BY <1>0, <2>0, <2>11, RestKept DEF Credit
    <3>2. req'[r] = Finished(q, "served")
      BY <1>0, <2>11 DEF Credit, Finish
    <3> QED BY <1>0, <2>11, <3>1, <3>2, CalmFinished DEF Credit, Rested, CD!Init
  <2>12. /\ ~BackoffOver(r) /\ ~BackoffCancelled(r) /\ ~Charge(r)
         /\ ~ReadLevel(r) /\ ~Cool(r) /\ ~LockModel(r)
    BY <2>1 DEF BackoffOver, BackoffCancelled, Charge, ReadLevel, Cool, LockModel, Charged
  <2>13. ~Snapshot(r) /\ ~ReadRoutes(r) /\ ~Rotate(r)
    BY <1>4 DEF Snapshot, ReadRoutes, Rotate, Unread
  <2> QED BY <2>3, <2>4, <2>5, <2>6, <2>7, <2>8, <2>9, <2>10, <2>11, <2>12, <2>13
          DEF Progress
<1>5. q.pc \in Unread => Snapshot(r) \/ ReadRoutes(r) \/ Rotate(r)
  BY DEF Progress, Unread, Exhaust, CheckBreaker, CheckCooldown,
     CheckModelLock, Attempt, BackoffOver, BackoffCancelled, Answer, Charge,
     ReadLevel, Cool, LockModel, ResetBackoff, Unlock, Credit
<1> QED BY <1>1, <1>2, <1>3, <1>4, <1>5

Serene == Rested /\ \A r \in Requests : Calm(req[r])

LEMMA SereneInit == ASSUME Healthy PROVE Init => Serene
<1> SUFFICES ASSUME Init PROVE Serene
  OBVIOUS
<1>1. \A m \in Models, c \in Configs : roundRobin[m] <= Len(c.routes[m].targets)
  <2>1. \A m \in Models, c \in Configs : Len(c.routes[m].targets) \in Nat
    BY RoutesTyped, SMTT(60) DEF Healthy
  <2> QED BY <2>1 DEF Init
<1>2. Calm(Idle)
  BY DEF Calm, Idle, Unread, Charged
<1> QED BY <1>1, <1>2 DEF Init, Serene, Rested

LEMMA SereneStep ==
  ASSUME Healthy PROVE Kept /\ AllChosen /\ Serene /\ [Next]_vars => Serene'
<1> SUFFICES ASSUME Kept, AllChosen, Serene, [Next]_vars PROVE Serene'
  OBVIOUS
<1>0. req \in [Requests -> Request] /\ Rested /\ CB!Init /\ CD!Init
  BY DEF Kept, Serene, Rested
<1>1. ASSUME NEW r \in Requests, Calm(req'[r]), Rested',
             \A o \in Requests \ {r} : req'[o] = req[o]
      PROVE  Serene'
  BY <1>1, SMTT(60) DEF Serene, Calm, Knows, ProviderOf
<1>2. ASSUME NEW r \in Requests, Progress(r) PROVE Serene'
  <2>1. \A o \in Requests \ {r} : req'[o] = req[o]
    BY <1>2, ProgressStep, RecordsKept
  <2> QED BY <1>0, <1>1, <1>2, <2>1, CalmProgress DEF Serene
<1>3. ASSUME NEW r \in Requests, NEW m \in Models, NEW stream \in Kinds,
             Arrive(r, m, stream)
      PROVE  Serene'
  <2>1. \A o \in Requests \ {r} : req'[o] = req[o]
    BY <1>3, ArriveStep, RecordsKept
  <2>2. req'[r] = [Idle EXCEPT !.pc = IF stream THEN "routes" ELSE "snapshot",
                               !.purpose = IF stream THEN "log" ELSE "route",
                               !.model = m, !.stream = stream]
    BY <1>0, <1>3 DEF Arrive
  <2>3. stream \in BOOLEAN
    BY EngineAssumption
  <2>4. Calm(req'[r])
    BY <2>2, <2>3 DEF Calm, Idle, Unread, Charged
  <2>5. Rested'
    BY <1>0, <1>3 DEF Arrive, Rested, CB!Init, CD!Init
  <2> QED BY <1>1, <2>1, <2>4, <2>5
<1>4. ASSUME NEW r \in Requests, Cancel(r) PROVE Serene'
  BY <1>4 DEF Cancel, Healthy
<1>5. ASSUME NEW c \in Configs, Reconfigure(c) PROVE Serene'
  <2>1. CB!Init'
    BY <1>0, <1>5, RestKept DEF Reconfigure
  <2> QED BY <1>0, <1>5, <2>1
          DEF Reconfigure, Serene, Rested, CD!Init, Calm, Knows, ProviderOf
<1>6. CASE Tick
  <2>1. CB!Init' /\ CD!Init'
    BY <1>0, <1>6, RestKept DEF Tick
  <2> QED BY <1>0, <1>6, <2>1 DEF Tick, Serene, Rested, Calm, Knows, ProviderOf
<1>7. CASE UNCHANGED vars
  BY <1>0, <1>7 DEF vars, Serene, Rested, CB!Init, CD!Init, Calm, Knows, ProviderOf
<1> QED BY <1>2, <1>3, <1>4, <1>5, <1>6, <1>7 DEF Next

(* Upstreams that answer serve every request by a rotation of its route,   *)
(* for any number of handlers, models, targets and configurations that     *)
(* replace one another at any moment, if the routes they have for a model  *)
(* differ by one target at most.                                           *)
THEOREM RotationIsServed == ASSUME Healthy PROVE Spec => []RotationServes
<1>1. RoutesStay
  BY DEF Healthy
<1>2. Init => AllChosen
  BY DEF Init, AllChosen, Chosen, Idle, Unread
<1>3. Kept /\ AllChosen /\ [Next]_vars => AllChosen'
  BY <1>1, ChoicesStep
<1>4. AllChosen /\ Serene => RotationServes
  BY DEF AllChosen, Chosen, TargetsAreRotation, InChain, Unread, RotationServes,
         Serene, Calm, HealthyServed
<1> QED BY <1>2, <1>3, <1>4, SereneInit, SereneStep, Invariance, PTL DEF Spec


-----------------------------------------------------------------------------
(* The types of the engine: what the invariant leaves open are the lengths *)
(* of cooldowns and locks.                                                 *)

LEMMA PowersOfTwo == ASSUME NEW n \in Nat PROVE 2^n \in Nat
<1>1. IsFiniteSet(1..n) /\ Cardinality(1..n) = n
  BY FS_Interval
<1>2. /\ IsFiniteSet(SUBSET (1..n))
      /\ Cardinality(SUBSET (1..n)) = 2^Cardinality(1..n)
  BY <1>1, FS_SUBSET
<1> QED BY <1>1, <1>2, FS_CardinalityType

LEMMA DurationTyped ==
  ASSUME NEW base \in Nat, NEW level \in Nat \ {0}
  PROVE  Duration(base, level) \in 0..MaxCooldown
<1>1. level - 1 \in Nat
  OBVIOUS
<1>2. 2^(level - 1) \in Nat
  BY <1>1, PowersOfTwo
<1> DEFINE grown == base * 2^(level - 1)
<1>3. grown \in Nat
  <2> DEFINE power == 2^(level - 1)
  <2>1. power \in Nat
    BY <1>2
  <2> HIDE DEF power
  <2>2. base * power \in Nat
    BY <2>1
  <2> QED BY <2>2 DEF power
<1> HIDE DEF grown
<1>4. (IF grown > MaxCooldown THEN MaxCooldown ELSE grown) \in 0..MaxCooldown
  BY <1>3, EngineAssumption
<1> QED BY <1>4 DEF Duration, grown

(* Entries of the tracker: one changes, or all of them grow older.         *)
LEMMA EntryOfAccount ==
  ASSUME CD!TypeOK, NEW a \in Accounts, NEW e \in CD!CooldownState,
         cooldown' = [cooldown EXCEPT ![a] = e]
  PROVE  CD!TypeOK'
BY DEF CD!TypeOK

LEMMA EntryFields ==
  ASSUME CD!TypeOK, NEW a \in Accounts
  PROVE  /\ cooldown[a] \in CD!CooldownState
         /\ cooldown[a].left \in 0..MaxCooldown /\ cooldown[a].level \in 0..LevelCap
         /\ cooldown[a].locks \in [CD!LockNames -> {CD!NoLock} \cup 0..LockTime]
BY DEF CD!TypeOK, CD!CooldownState

LEMMA CooldownsStayTyped ==
  ASSUME CD!TypeOK,
         \/ UNCHANGED cooldown
         \/ CD!Tick
         \/ \E a \in Accounts :
              \/ \E d \in 0..MaxCooldown : CD!SetCooldown(a, d)
              \/ CD!ResetBackoffLevel(a)
              \/ \E m \in CD!LockNames : CD!SetModelLock(a, m, LockTime)
              \/ \E m \in CD!LockNames : CD!ClearModelLock(a, m)
  PROVE  CD!TypeOK'
<1>0. MaxCooldown \in Nat /\ LockTime \in Nat /\ LevelCap \in Nat
  BY EngineAssumption
<1>1. CASE UNCHANGED cooldown
  BY <1>1 DEF CD!TypeOK
<1>2. CASE CD!Tick
  <2>1. ASSUME NEW a \in Accounts PROVE cooldown'[a] \in CD!CooldownState
    <3> DEFINE e == cooldown[a]
    <3>1. /\ e \in CD!CooldownState /\ e.left \in 0..MaxCooldown
          /\ e.locks \in [CD!LockNames -> {CD!NoLock} \cup 0..LockTime]
      BY EntryFields
    <3>2. (IF e.left > 0 THEN e.left - 1 ELSE e.left) \in 0..MaxCooldown
      BY <1>0, <3>1
    <3>3. [m \in CD!LockNames |-> IF e.locks[m] > 0 THEN e.locks[m] - 1 ELSE e.locks[m]]
            \in [CD!LockNames -> {CD!NoLock} \cup 0..LockTime]
      BY <1>0, <3>1 DEF CD!NoLock
    <3> QED BY <1>2, <3>1, <3>2, <3>3 DEF CD!Tick, CD!CooldownState
  <2>2. cooldown' \in [Accounts -> CD!CooldownState]
    BY <1>2, <2>1 DEF CD!Tick
  <2> QED BY <2>2 DEF CD!TypeOK
<1>3. ASSUME NEW a \in Accounts, NEW d \in 0..MaxCooldown, CD!SetCooldown(a, d)
      PROVE  CD!TypeOK'
  <2>1. PICK l : l = IF cooldown[a].level < LevelCap
                     THEN cooldown[a].level + 1 ELSE cooldown[a].level
    OBVIOUS
  <2>2. l \in 0..LevelCap
    BY <1>0, <2>1, EntryFields
  <2>3. [cooldown[a] EXCEPT !.left = d, !.level = l] \in CD!CooldownState
    BY <2>2, EntryFields DEF CD!CooldownState
  <2>4. cooldown' = [cooldown EXCEPT ![a] = [cooldown[a] EXCEPT !.left = d, !.level = l]]
    BY <1>3, <2>1 DEF CD!SetCooldown, CD!TypeOK, CD!CooldownState
  <2> QED BY <2>3, <2>4, EntryOfAccount
<1>4. ASSUME NEW a \in Accounts, CD!ResetBackoffLevel(a) PROVE CD!TypeOK'
  <2>1. [cooldown[a] EXCEPT !.level = 0] \in CD!CooldownState
    BY <1>0, EntryFields DEF CD!CooldownState
  <2>2. cooldown' = [cooldown EXCEPT ![a] = [cooldown[a] EXCEPT !.level = 0]]
    BY <1>4 DEF CD!ResetBackoffLevel, CD!TypeOK
  <2> QED BY <2>1, <2>2, EntryOfAccount
<1>5. ASSUME NEW a \in Accounts, NEW m \in CD!LockNames, NEW d \in {CD!NoLock, LockTime},
             cooldown' = [cooldown EXCEPT ![a].locks[m] = d]
      PROVE  CD!TypeOK'
  <2>1. d \in {CD!NoLock} \cup 0..LockTime
    BY <1>0
  <2>2. PICK l : l = [cooldown[a].locks EXCEPT ![m] = d]
    OBVIOUS
  <2>3. l \in [CD!LockNames -> {CD!NoLock} \cup 0..LockTime]
    BY <2>1, <2>2, EntryFields
  <2>4. [cooldown[a] EXCEPT !.locks = l] \in CD!CooldownState
    BY <2>3, EntryFields DEF CD!CooldownState
  <2>5. cooldown' = [cooldown EXCEPT ![a] = [cooldown[a] EXCEPT !.locks = l]]
    BY <1>5, <2>2
  <2> QED BY <2>4, <2>5, EntryOfAccount
<1>6. ASSUME NEW a \in Accounts, NEW m \in CD!LockNames,
             CD!SetModelLock(a, m, LockTime) \/ CD!ClearModelLock(a, m)
      PROVE  CD!TypeOK'
  BY <1>5, <1>6 DEF CD!SetModelLock, CD!ClearModelLock
<1> QED BY <1>1, <1>2, <1>3, <1>4, <1>6

LEMMA ProgressKeepsCooldowns ==
  ASSUME Kept, CD!TypeOK, NEW r \in Requests, Progress(r)
  PROVE  CD!TypeOK'
<1>1. CASE UNCHANGED cooldown
  BY <1>1, CooldownsStayTyped
<1>2. CASE Cool(r)
  <2>1. Candidate(r) \in Accounts
    BY <1>2, CandidateTyped DEF Cool, Trying, Charged
  <2>2. config.maxCooldown \in Nat
    BY ConfigsAssumption DEF Kept, WellFormed
  <2>3. req[r].level \in Nat \ {0}
    BY DEF Kept, Request
  <2>4. Duration(config.maxCooldown, req[r].level) \in 0..MaxCooldown
    BY <2>2, <2>3, DurationTyped
  <2> QED BY <1>2, <2>1, <2>4, CooldownsStayTyped DEF Cool
<1>3. CASE ResetBackoff(r)
  <2>1. Candidate(r) \in Accounts
    BY <1>3, CandidateTyped DEF ResetBackoff, Trying, Answered
  <2> QED BY <1>3, <2>1, CooldownsStayTyped DEF ResetBackoff
<1>4. CASE LockModel(r) \/ Unlock(r)
  <2>1. Candidate(r) \in Accounts
    BY <1>4, CandidateTyped DEF LockModel, Unlock, Trying, Charged, Answered
  <2>2. req[r].pc \in Trying /\ Sound(req[r])
    BY <1>4 DEF LockModel, Unlock, Trying, Charged, Answered, Kept
  <2>3. Target(r) \in TargetRecord
    BY <2>2, TargetsTyped DEF Target, Sound, Placed
  <2>4. Target(r).model \in CD!LockNames
    BY <2>3 DEF TargetRecord, CD!LockNames
  <2> QED BY <1>4, <2>1, <2>4, CooldownsStayTyped DEF LockModel, Unlock
<1> QED BY <1>1, <1>2, <1>3, <1>4 DEF Progress, Snapshot, ReadRoutes, Rotate,
       Exhaust, CheckBreaker, CheckCooldown, CheckModelLock, Attempt, BackoffOver,
       BackoffCancelled, Answer, Charge, ReadLevel, Credit

LEMMA CooldownsTyped == Kept /\ CD!TypeOK /\ [Next]_vars => CD!TypeOK'
<1> SUFFICES ASSUME Kept, CD!TypeOK, [Next]_vars PROVE CD!TypeOK'
  OBVIOUS
<1>1. ASSUME NEW r \in Requests, Progress(r) PROVE CD!TypeOK'
  BY <1>1, ProgressKeepsCooldowns
<1>2. CASE Tick
  BY <1>2, CooldownsStayTyped DEF Tick
<1>3. ASSUME NEW r \in Requests, Cancel(r) PROVE CD!TypeOK'
  BY <1>3, CooldownsStayTyped DEF Cancel
<1>4. ASSUME NEW r \in Requests, NEW m \in Models, NEW stream \in Kinds, Arrive(r, m, stream)
      PROVE  CD!TypeOK'
  BY <1>4, CooldownsStayTyped DEF Arrive
<1>5. ASSUME NEW c \in Configs, Reconfigure(c) PROVE CD!TypeOK'
  BY <1>5, CooldownsStayTyped DEF Reconfigure
<1>6. CASE UNCHANGED vars
  BY <1>6, CooldownsStayTyped DEF vars
<1> QED BY <1>1, <1>2, <1>3, <1>4, <1>5, <1>6 DEF Next

(* The breakers are a function, and Kept says of what.                     *)
LEMMA BreakersStayTyped ==
  ASSUME Kept', CB!TypeOK,
         \/ UNCHANGED breaker
         \/ \E p, b : breaker' = [breaker EXCEPT ![p] = b]
         \/ CB!Renew
         \/ CB!Tick
  PROVE  CB!TypeOK'
<1>1. breaker' = [p \in Providers |-> breaker'[p]]
  <2>1. CASE \E p, b : breaker' = [breaker EXCEPT ![p] = b]
    BY <2>1 DEF CB!TypeOK
  <2> QED BY <2>1 DEF CB!TypeOK, CB!Renew, CB!Tick
<1>2. \A p \in Providers : breaker'[p] \in CB!Breaker
  BY DEF Kept, Consistent
<1> QED BY <1>1, <1>2 DEF CB!TypeOK

LEMMA BreakersTyped == Kept /\ Kept' /\ CB!TypeOK /\ [Next]_vars => CB!TypeOK'
<1> SUFFICES ASSUME Kept, Kept', CB!TypeOK, [Next]_vars PROVE CB!TypeOK'
  OBVIOUS
<1>1. ASSUME NEW r \in Requests, Progress(r) PROVE CB!TypeOK'
  <2>1. CASE req[r].pc \notin {"breaker", "charge", "credit"}
    BY <1>1, <2>1, TouchesNoBreaker, BreakersStayTyped
  <2>2. CASE Exhaust(r)
    BY <2>2, BreakersStayTyped DEF Exhaust
  <2>3. CASE CheckBreaker(r)
    BY <2>3, BreakersStayTyped DEF CheckBreaker, CB!IsOpen
  <2>4. CASE Charge(r)
    BY <2>4, BreakersStayTyped DEF Charge, CB!RecordFailure
  <2>5. CASE Credit(r)
    BY <2>5, BreakersStayTyped DEF Credit, CB!RecordSuccess
  <2> QED BY <1>1, <2>1, <2>2, <2>3, <2>4, <2>5, TouchesOneBreaker
<1>2. CASE Tick
  BY <1>2, BreakersStayTyped DEF Tick
<1>3. ASSUME NEW r \in Requests, Cancel(r) PROVE CB!TypeOK'
  BY <1>3, BreakersStayTyped DEF Cancel
<1>4. ASSUME NEW r \in Requests, NEW m \in Models, NEW stream \in Kinds, Arrive(r, m, stream)
      PROVE  CB!TypeOK'
  BY <1>4, BreakersStayTyped DEF Arrive
<1>5. ASSUME NEW c \in Configs, Reconfigure(c) PROVE CB!TypeOK'
  BY <1>5, BreakersStayTyped DEF Reconfigure
<1>6. CASE UNCHANGED vars
  BY <1>6, BreakersStayTyped DEF vars
<1> QED BY <1>1, <1>2, <1>3, <1>4, <1>5, <1>6 DEF Next

(* The configuration, the rotation's indexes, the breakers, the cooldowns  *)
(* and the handlers keep their types: no cooldown is negative or longer    *)
(* than its cap, whatever the levels are.                                  *)
THEOREM EngineTypeCorrect == Spec => []TypeOK
<1>1. Init => CB!TypeOK /\ CD!TypeOK
  <2> SUFFICES ASSUME Init PROVE CB!TypeOK /\ CD!TypeOK
    OBVIOUS
  <2>1. CB!TypeOK
    BY NewKept DEF Init, CB!Init, CB!TypeOK, Consistent
  <2>2. CD!NewState \in CD!CooldownState
    BY EngineAssumption DEF CD!NewState, CD!CooldownState, CD!NoLock
  <2> QED BY <2>1, <2>2 DEF Init, CD!Init, CD!TypeOK
<1>2. Kept /\ CB!TypeOK /\ CD!TypeOK => TypeOK
  BY DEF Kept, TypeOK
<1> QED BY <1>1, <1>2, Invariance, BreakersTyped, CooldownsTyped, PTL DEF Spec

-----------------------------------------------------------------------------
(* The index of a rotation, which outlives the routes it was made for:     *)
(* when it fits the routes that replace them.                              *)

(* The routes of a model differ in length by one at most.                  *)
SimilarRoutes ==
    \A m \in Models : \A s, t \in RouteTargets(m) \ {<< >>} : Len(s) <= Len(t) + 1

Ends == Outcomes \ {"panic"}

(* A step that begins no rotation and makes no request panic.              *)
Sane(q, s) == s.pc # "rotate" /\ s.outcome \in {q.outcome} \cup Ends

Fits ==
    /\ \A r \in Requests :
         /\ req[r].outcome \in Ends
         /\ req[r].pc = "rotate" =>
              req[r].targets \in RouteTargets(req[r].model) \ {<< >>}
    /\ \A m \in Models : \A t \in RouteTargets(m) \ {<< >>} : roundRobin[m] <= Len(t)

LEMMA SaneFinish ==
  ASSUME NEW q, NEW outcome \in Ends
  PROVE  Sane(q, Finished(q, outcome)) /\ Sane(q, Leave(outcome))
BY DEF Finished, Leave, Idle, Sane

LEMMA SaneResolved ==
  ASSUME NEW q \in Request, q.outcome \in Ends, NEW targets
  PROVE  Sane(q, Resolved(q, targets))
<1>1. CASE q.purpose = "log"
  <2>1. [q EXCEPT !.pc = "snapshot", !.targets = << >>].outcome = q.outcome
        /\ [q EXCEPT !.pc = "snapshot", !.targets = << >>].pc = "snapshot"
    BY DEF Request
  <2> QED BY <1>1, <2>1, SaneFinish DEF Resolved, Sane
<1>2. CASE q.purpose = "route"
  <2>1. [q EXCEPT !.pc = "breaker", !.targets = targets].outcome = q.outcome
        /\ [q EXCEPT !.pc = "breaker", !.targets = targets].pc = "breaker"
    BY DEF Request
  <2>2. "unconfigured" \in Ends
    BY DEF Ends, Outcomes
  <2> QED BY <1>2, <2>1, <2>2, SaneFinish DEF Resolved, Sane
<1>3. q.purpose \in {"route", "log"}
  BY DEF Request
<1> QED BY <1>1, <1>2, <1>3

LEMMA SaneProgress ==
  ASSUME Kept, NEW r \in Requests, Progress(r), ~Rotate(r), ~ReadRoutes(r),
         req[r].outcome \in Ends
  PROVE  Sane(req[r], req'[r])
<1> DEFINE q == req[r]
<1>0. q \in Request /\ req \in [Requests -> Request]
  BY DEF Kept
<1>1. ASSUME NEW pc, pc # "rotate", Goto(r, pc) PROVE Sane(q, req'[r])
  BY <1>0, <1>1 DEF Goto, Request, Sane
<1>2. CASE NextTarget(r)
  BY <1>0, <1>2 DEF NextTarget, Request, Sane
<1>3. CASE NextAccount(r)
  BY <1>0, <1>3 DEF NextAccount, Request, Sane
<1>4. ASSUME NEW outcome \in Ends, Finish(r, outcome) PROVE Sane(q, req'[r])
  BY <1>0, <1>4, SaneFinish DEF Finish
<1>5. "exhausted" \in Ends /\ "refused" \in Ends /\ "served" \in Ends
  BY DEF Ends, Outcomes
<1>6. CASE Decide(r)
  BY <1>3, <1>4, <1>5, <1>6 DEF Decide
<1>7. CASE Snapshot(r)
  BY <1>0, <1>7 DEF Snapshot, Request, Sane
<1>8. CASE Exhaust(r) \/ Credit(r)
  BY <1>4, <1>5, <1>8 DEF Exhaust, Credit
<1>9. CASE CheckBreaker(r) \/ CheckCooldown(r) \/ CheckModelLock(r)
  BY <1>1, <1>2, <1>3, <1>9 DEF CheckBreaker, CheckCooldown, CheckModelLock
<1>10. CASE Attempt(r) \/ BackoffCancelled(r)
  <2>1. CASE req' = [req EXCEPT ![r].pc = "charge", ![r].err = PlainError]
    BY <1>0, <2>1 DEF Request, Sane
  <2> QED BY <1>1, <1>10, <2>1 DEF Attempt, BackoffCancelled
<1>11. CASE BackoffOver(r)
  BY <1>0, <1>11 DEF BackoffOver, Request, Sane
<1>12. ASSUME NEW answer, Answer(r, answer) PROVE Sane(q, req'[r])
  <2>1. PICK next, err, attempt :
          /\ req' = [req EXCEPT ![r].pc = next, ![r].err = err, ![r].attempt = attempt]
          /\ next \in {"reset", "charge", "backoff", "attempt"}
    BY <1>0, <1>12 DEF Answer
  <2> QED BY <1>0, <2>1 DEF Request, Sane
<1>13. CASE Charge(r)
  BY <1>1, <1>6, <1>13 DEF Charge
<1>14. CASE ReadLevel(r)
  BY <1>0, <1>14 DEF ReadLevel, Request, Sane
<1>15. CASE Cool(r) \/ LockModel(r)
  BY <1>6, <1>15 DEF Cool, LockModel
<1>16. CASE ResetBackoff(r) \/ Unlock(r)
  BY <1>1, <1>16 DEF ResetBackoff, Unlock
<1> QED BY <1>7, <1>8, <1>9, <1>10, <1>11, <1>12, <1>13, <1>14, <1>15, <1>16
        DEF Progress

LEMMA FitsWhenRead ==
  ASSUME Kept, Fits, NEW r \in Requests, ReadRoutes(r)
  PROVE  /\ req'[r].outcome \in Ends
         /\ req'[r].pc = "rotate" =>
              req'[r].targets \in RouteTargets(req'[r].model) \ {<< >>}
<1> DEFINE q == req[r]
           m == q.model
           t == config.routes[m].targets
<1>0. /\ q \in Request /\ config \in Configs /\ req \in [Requests -> Request]
      /\ q.outcome \in Ends
  BY DEF Kept, Fits
<1>1. ASSUME m \in DOMAIN config.routes, t # << >>,
             req' = [req EXCEPT ![r].pc = "rotate", ![r].targets = t]
      PROVE  /\ req'[r].outcome \in Ends
             /\ req'[r].targets \in RouteTargets(req'[r].model) \ {<< >>}
  <2>1. /\ req'[r].outcome = q.outcome /\ req'[r].targets = t /\ req'[r].model = m
    BY <1>0, <1>1 DEF Request
  <2> QED BY <1>0, <1>1, <2>1 DEF RouteTargets
<1>2. ASSUME NEW targets, req' = [req EXCEPT ![r] = Resolved(@, targets)]
      PROVE  req'[r].outcome \in Ends /\ req'[r].pc # "rotate"
  BY <1>0, <1>2, SaneResolved DEF Sane
<1> QED BY <1>1, <1>2 DEF ReadRoutes

LEMMA FitsWhenRotated ==
  ASSUME SimilarRoutes, Kept, Fits, NEW r \in Requests, Rotate(r)
  PROVE  /\ req'[r].outcome \in Ends /\ req'[r].pc # "rotate"
         /\ \A m \in Models : \A t \in RouteTargets(m) \ {<< >>} : roundRobin'[m] <= Len(t)
<1> DEFINE q == req[r]
           t == q.targets
           k == roundRobin[q.model]
<1>0. /\ q \in Request /\ q.model \in Models /\ req \in [Requests -> Request]
      /\ k \in Nat /\ q.pc = "rotate" /\ q.outcome \in Ends
      /\ roundRobin \in [Models -> Nat] /\ t \in Seq(TargetRecord)
  BY DEF Rotate, Kept, Sound, Placed, Request, Fits
<1>1. t \in RouteTargets(q.model) \ {<< >>} /\ k <= Len(t)
  BY <1>0 DEF Fits
<1>2. Len(t) \in Nat \ {0}
  BY <1>0, <1>1
<1>3. req' = [req EXCEPT ![r] = Resolved(@, Rotated(t, k))]
  <2>1. ~(k > Len(t))
    BY <1>0, <1>1, <1>2
  <2> QED BY <2>1 DEF Rotate
<1>4. req'[r].outcome \in Ends /\ req'[r].pc # "rotate"
  BY <1>0, <1>3, SaneResolved DEF Sane
<1>5. PICK next : next = (k + 1) % Len(t)
  OBVIOUS
<1>6. roundRobin' = [roundRobin EXCEPT ![q.model] = next]
  BY <1>5 DEF Rotate, AdvancedIndex
<1>7. next \in 0..(Len(t) - 1)
  BY <1>0, <1>2, <1>5
<1>8. ASSUME NEW m \in Models, NEW s \in RouteTargets(m) \ {<< >>}
      PROVE  roundRobin'[m] <= Len(s)
  <2>1. CASE m = q.model
    <3>1. Len(t) <= Len(s) + 1
      BY <1>1, <2>1 DEF SimilarRoutes
    <3>2. Len(s) \in Nat
      BY ConfigsAssumption DEF RouteTargets, WellFormed
    <3>3. roundRobin'[m] = next
      BY <1>0, <1>6, <2>1
    <3> QED BY <1>2, <1>7, <3>1, <3>2, <3>3
  <2>2. CASE m # q.model
    BY <1>0, <1>6, <2>2 DEF Fits
  <2> QED BY <2>1, <2>2
<1> QED BY <1>4, <1>8

LEMMA FitsStep == ASSUME SimilarRoutes PROVE Kept /\ Fits /\ [Next]_vars => Fits'
<1> SUFFICES ASSUME Kept, Fits, [Next]_vars PROVE Fits'
  OBVIOUS
<1>0. req \in [Requests -> Request]
  BY DEF Kept
<1>1. ASSUME NEW r \in Requests, Progress(r) PROVE Fits'
  <2>1. \A o \in Requests \ {r} : req'[o] = req[o]
    BY <1>1, ProgressStep, RecordsKept
  <2>2. /\ req'[r].outcome \in Ends
        /\ req'[r].pc = "rotate" =>
             req'[r].targets \in RouteTargets(req'[r].model) \ {<< >>}
    <3>1. CASE Rotate(r)
      BY <3>1, FitsWhenRotated
    <3>2. CASE ReadRoutes(r)
      BY <3>2, FitsWhenRead
    <3>3. CASE ~Rotate(r) /\ ~ReadRoutes(r)
      BY <1>1, <3>3, SaneProgress DEF Sane, Fits
    <3> QED BY <3>1, <3>2, <3>3
  <2>3. \A m \in Models : \A t \in RouteTargets(m) \ {<< >>} : roundRobin'[m] <= Len(t)
    <3>1. CASE Rotate(r)
      BY <3>1, FitsWhenRotated
    <3>2. CASE ~Rotate(r)
      <4>1. UNCHANGED roundRobin
        BY <1>1, <3>2 DEF Progress, Snapshot, ReadRoutes, Exhaust, CheckBreaker,
           CheckCooldown, CheckModelLock, Attempt, BackoffOver, BackoffCancelled, Answer,
           Charge, ReadLevel, Cool, LockModel, ResetBackoff, Unlock, Credit
      <4> QED BY <4>1 DEF Fits
    <3> QED BY <3>1, <3>2
  <2>4. ASSUME NEW o \in Requests
        PROVE  /\ req'[o].outcome \in Ends
               /\ req'[o].pc = "rotate" =>
                    req'[o].targets \in RouteTargets(req'[o].model) \ {<< >>}
    BY <2>1, <2>2 DEF Fits
  <2> QED BY <2>3, <2>4 DEF Fits, RouteTargets
<1>2. ASSUME NEW r \in Requests, NEW s, req' = [req EXCEPT ![r] = s],
             s.outcome \in Ends,
             s.pc = "rotate" => s.targets \in RouteTargets(s.model) \ {<< >>},
             UNCHANGED roundRobin
      PROVE  Fits'
  <2>1. ASSUME NEW o \in Requests
        PROVE  /\ req'[o].outcome \in Ends
               /\ req'[o].pc = "rotate" =>
                    req'[o].targets \in RouteTargets(req'[o].model) \ {<< >>}
    <3>1. req'[o] = IF o = r THEN s ELSE req[o]
      BY <1>0, <1>2
    <3> QED BY <1>2, <3>1 DEF Fits
  <2> QED BY <1>2, <2>1 DEF Fits, RouteTargets
<1>3. ASSUME NEW r \in Requests, NEW m \in Models, NEW stream \in Kinds,
             Arrive(r, m, stream)
      PROVE  Fits'
  <2> DEFINE s == [Idle EXCEPT !.pc = IF stream THEN "routes" ELSE "snapshot",
                     !.purpose = IF stream THEN "log" ELSE "route",
                     !.model = m, !.stream = stream]
  <2>1. s.outcome \in Ends /\ s.pc # "rotate"
    BY DEF Idle, Ends, Outcomes
  <2> HIDE DEF s
  <2>2. req' = [req EXCEPT ![r] = s] /\ UNCHANGED roundRobin
    BY <1>3 DEF Arrive, s
  <2> QED BY <1>2, <2>1, <2>2
<1>4. ASSUME NEW r \in Requests, Cancel(r) PROVE Fits'
  <2> DEFINE s == [req[r] EXCEPT !.cancelled = TRUE]
  <2>1. /\ s.outcome = req[r].outcome /\ s.pc = req[r].pc
        /\ s.targets = req[r].targets /\ s.model = req[r].model
    BY <1>0 DEF Request
  <2> HIDE DEF s
  <2>2. req' = [req EXCEPT ![r] = s] /\ UNCHANGED roundRobin
    BY <1>4 DEF Cancel, s
  <2> QED BY <1>2, <2>1, <2>2 DEF Fits
<1>5. CASE UNCHANGED <<req, roundRobin>>
  BY <1>5 DEF Fits, RouteTargets
<1> QED BY <1>1, <1>3, <1>4, <1>5 DEF Next, Reconfigure, Tick, vars

(* The index that a longer route left behind makes no request panic if the *)
(* routes that may replace one another differ in length by one at most:    *)
(* what MCRoutingStaleIndex refutes of routes of three and of one target.  *)
THEOREM SimilarRoutesNeverPanic == ASSUME SimilarRoutes PROVE Spec => []NoPanic
<1>1. Init => Fits
  <2> SUFFICES ASSUME Init PROVE Fits
    OBVIOUS
  <2>1. Idle.outcome \in Ends /\ Idle.pc = "idle"
    BY DEF Idle, Ends, Outcomes
  <2>2. \A m \in Models : \A t \in RouteTargets(m) : Len(t) \in Nat
    BY ConfigsAssumption DEF RouteTargets, WellFormed
  <2> QED BY <2>1, <2>2 DEF Init, Fits
<1>2. Fits => NoPanic
  BY DEF Fits, NoPanic, Ends
<1> QED BY <1>1, <1>2, FitsStep, Invariance, PTL DEF Spec
=============================================================================
