---------------------------- MODULE RequestProofs ----------------------------
(***************************************************************************)
(* What holds on the way of a request, whatever the policies, keys, models *)
(* and handlers are: the metrics balance, the answers - those of the cache *)
(* included - are those that the policies allow, and a service request     *)
(* tries every provider that was there all the time.  And of the calls of  *)
(* the Google adapters, whatever the accounts and their tokens' life: none *)
(* carries a token that it knows to have expired, or fails for one that    *)
(* has.  And that the cloud server's table follows its memory.  In the end *)
(* all of it together, with the routing engine.                            *)
(***************************************************************************)
EXTENDS MCRequests, RoutingProofs, SequenceTheorems, FiniteSetTheorems, TLAPS

-----------------------------------------------------------------------------
(* The cache: sequences of entries, for any set of entries.                *)

LEMMA PlaceOfEntry ==
  ASSUME NEW c, NEW k, IsCached(c, k)
  PROVE  Place(c, k) \in DOMAIN c /\ CachedEntry(c, k).key = k
BY DEF IsCached, Place, CachedEntry

LEMMA EntryTyped ==
  ASSUME NEW E, NEW c \in Seq(E), NEW k, IsCached(c, k)
  PROVE  CachedEntry(c, k) \in E
<1>1. Place(c, k) \in 1..Len(c)
  BY PlaceOfEntry
<1> QED BY <1>1, ElementOfSeq DEF CachedEntry

(* Each key has one entry. *)
OneEach(c) == \A i, j \in DOMAIN c : c[i].key = c[j].key => i = j

LEMMA RemoveProperties ==
  ASSUME NEW E, NEW c \in Seq(E), NEW k
  PROVE  LET d == removeElement(c, k) IN
         /\ d \in Seq(E)
         /\ Len(d) = IF IsCached(c, k) THEN Len(c) - 1 ELSE Len(c)
         /\ OneEach(c) => OneEach(d) /\ ~IsCached(d, k)
<1> DEFINE d == removeElement(c, k)
           i == Place(c, k)
           s == SubSeq(c, 1, i - 1)
           t == SubSeq(c, i + 1, Len(c))
<1>1. CASE ~IsCached(c, k)
  BY <1>1 DEF removeElement
<1>2. CASE IsCached(c, k)
  <2>1. d = s \o t
    BY <1>2 DEF removeElement
  <2>2. i \in 1..Len(c) /\ c[i].key = k
    BY <1>2, PlaceOfEntry DEF CachedEntry
  <2>3. Len(c) \in Nat /\ \A j \in 1..Len(c) : c[j] \in E
    BY ElementOfSeq
  <2> HIDE DEF i
  <2>4. /\ s \in Seq(E) /\ Len(s) = i - 1
        /\ \A j \in 1..(i - 1) : s[j] = c[j]
    <3>1. 1 \in Int /\ i - 1 \in Int /\ \A j \in 1..(i - 1) : c[j] \in E
      BY <2>2, <2>3
    <3>2. /\ s \in Seq(E)
          /\ Len(s) = IF 1 <= i - 1 THEN (i - 1) - 1 + 1 ELSE 0
          /\ \A j \in 1..((i - 1) - 1 + 1) : s[j] = c[1 + j - 1]
      BY <3>1, SubSeqProperties
    <3>3. ((i - 1) - 1 + 1) = i - 1 /\ \A j \in 1..(i - 1) : 1 + j - 1 = j
      BY <2>2
    <3> HIDE DEF s
    <3> QED BY <2>2, <3>2, <3>3
  <2>5. /\ t \in Seq(E) /\ Len(t) = Len(c) - i
        /\ \A j \in 1..(Len(c) - i) : t[j] = c[i + j]
    <3>1. i + 1 \in Int /\ Len(c) \in Int /\ \A j \in (i + 1)..Len(c) : c[j] \in E
      BY <2>2, <2>3
    <3>2. /\ t \in Seq(E)
          /\ Len(t) = IF i + 1 <= Len(c) THEN Len(c) - (i + 1) + 1 ELSE 0
          /\ \A j \in 1..(Len(c) - (i + 1) + 1) : t[j] = c[(i + 1) + j - 1]
      BY <3>1, SubSeqProperties
    <3>3. Len(c) - (i + 1) + 1 = Len(c) - i
          /\ \A j \in 1..(Len(c) - i) : (i + 1) + j - 1 = i + j
      BY <2>2, <2>3
    <3> HIDE DEF t
    <3>4. /\ Len(t) = Len(c) - i
          /\ \A j \in 1..(Len(c) - i) : t[j] = c[(i + 1) + j - 1]
      <4>1. Len(c) - (i + 1) + 1 = Len(c) - i
        BY <3>3
      <4>2. \A j \in 1..(Len(c) - i) : t[j] = c[(i + 1) + j - 1]
        BY <3>2, <4>1
      <4>3. Len(t) = Len(c) - i
        BY <2>2, <2>3, <3>2
      <4> QED BY <4>2, <4>3
    <3>5. \A j \in 1..(Len(c) - i) : t[j] = c[i + j]
      BY <3>3, <3>4
    <3> QED BY <3>2, <3>4, <3>5
  <2> HIDE DEF s, t
  <2>6. /\ d \in Seq(E) /\ Len(d) = Len(c) - 1
        /\ \A j \in 1..(Len(c) - 1) : d[j] = IF j < i THEN c[j] ELSE c[j + 1]
    <3>1. /\ d \in Seq(E) /\ Len(d) = Len(s) + Len(t)
          /\ \A j \in 1..(Len(s) + Len(t)) :
               d[j] = IF j <= Len(s) THEN s[j] ELSE t[j - Len(s)]
      <4> HIDE DEF d
      <4>1. s \in Seq(E) /\ t \in Seq(E)
        BY <2>4, <2>5
      <4> QED BY <2>1, <4>1, ConcatProperties
    <3> HIDE DEF d
    <3>2. Len(s) + Len(t) = Len(c) - 1
      BY <2>2, <2>3, <2>4, <2>5
    <3>3. ASSUME NEW j \in 1..(Len(c) - 1)
          PROVE  d[j] = IF j < i THEN c[j] ELSE c[j + 1]
      <4>1. CASE j < i
        BY <2>2, <2>3, <2>4, <3>1, <3>2, <4>1
      <4>2. CASE ~(j < i)
        <5>1. d[j] = t[j - (i - 1)]
          BY <2>2, <2>3, <2>4, <3>1, <3>2, <4>2
        <5>2. j - (i - 1) \in 1..(Len(c) - i) /\ i + (j - (i - 1)) = j + 1
          BY <2>2, <2>3, <4>2
        <5> QED BY <2>5, <4>2, <5>1, <5>2
      <4> QED BY <4>1, <4>2
    <3> QED BY <3>1, <3>2, <3>3
  <2> HIDE DEF d
  <2>7. DOMAIN d = 1..(Len(c) - 1) /\ DOMAIN c = 1..Len(c)
    BY <2>6
  <2>8. ASSUME OneEach(c) PROVE OneEach(d) /\ ~IsCached(d, k)
    <3>1. ASSUME NEW j \in DOMAIN d, NEW l \in DOMAIN d, d[j].key = d[l].key
          PROVE  j = l
      <4> DEFINE jj == IF j < i THEN j ELSE j + 1
                 ll == IF l < i THEN l ELSE l + 1
      <4>1. /\ jj \in DOMAIN c /\ ll \in DOMAIN c
            /\ d[j] = c[jj] /\ d[l] = c[ll]
        BY <2>2, <2>3, <2>6, <2>7
      <4>2. jj = ll
        BY <2>8, <3>1, <4>1 DEF OneEach
      <4> QED BY <2>2, <2>7, <4>2
    <3>2. ASSUME NEW j \in DOMAIN d, d[j].key = k PROVE FALSE
      <4> DEFINE jj == IF j < i THEN j ELSE j + 1
      <4>1. jj \in DOMAIN c /\ d[j] = c[jj] /\ jj # i /\ i \in DOMAIN c
        BY <2>2, <2>3, <2>6, <2>7
      <4> QED BY <2>2, <2>8, <3>2, <4>1 DEF OneEach
    <3> QED BY <3>1, <3>2 DEF OneEach, IsCached
  <2> QED BY <1>2, <2>6, <2>8 DEF d
<1> QED BY <1>1, <1>2

LEMMA PrependProperties ==
  ASSUME NEW E, NEW d \in Seq(E), NEW e \in E, OneEach(d), ~IsCached(d, e.key)
  PROVE  LET c == <<e>> \o d IN
         c \in Seq(E) /\ Len(c) = Len(d) + 1 /\ OneEach(c)
<1> DEFINE c == <<e>> \o d
<1>1. <<e>> \in Seq(E) /\ Len(<<e>>) = 1 /\ <<e>>[1] = e
  OBVIOUS
<1>2. Len(d) \in Nat /\ DOMAIN d = 1..Len(d)
  OBVIOUS
<1>3. /\ c \in Seq(E) /\ Len(c) = 1 + Len(d)
      /\ \A i \in 1..(1 + Len(d)) : c[i] = IF i <= 1 THEN e ELSE d[i - 1]
  <2>1. /\ c \in Seq(E) /\ Len(c) = Len(<<e>>) + Len(d)
        /\ \A i \in 1..(Len(<<e>>) + Len(d)) :
             c[i] = IF i <= Len(<<e>>) THEN <<e>>[i] ELSE d[i - Len(<<e>>)]
    BY <1>1, ConcatProperties
  <2>2. ASSUME NEW i \in 1..(1 + Len(d)) PROVE c[i] = IF i <= 1 THEN e ELSE d[i - 1]
    <3>1. CASE i = 1
      BY <1>1, <1>2, <2>1, <3>1
    <3>2. CASE i # 1
      BY <1>1, <1>2, <2>1, <3>2
    <3> QED BY <3>1, <3>2
  <2> QED BY <1>1, <2>1, <2>2
<1> HIDE DEF c
<1>4. DOMAIN c = 1..(1 + Len(d))
  BY <1>3
<1>5. ASSUME NEW i \in DOMAIN c, NEW j \in DOMAIN c, c[i].key = c[j].key PROVE i = j
  <2>1. CASE i = 1 /\ j = 1
    BY <2>1
  <2>2. CASE i # 1 /\ j # 1
    <3>1. i - 1 \in DOMAIN d /\ j - 1 \in DOMAIN d /\ c[i] = d[i - 1] /\ c[j] = d[j - 1]
      BY <1>2, <1>3, <1>4, <2>2
    <3>2. i - 1 = j - 1
      BY <1>5, <3>1 DEF OneEach
    <3> QED BY <1>4, <3>2, <1>2
  <2>3. CASE i = 1 /\ j # 1
    <3>1. j - 1 \in DOMAIN d /\ c[i] = e /\ c[j] = d[j - 1]
      BY <1>2, <1>3, <1>4, <2>3
    <3> QED BY <1>5, <3>1 DEF IsCached
  <2>4. CASE i # 1 /\ j = 1
    <3>1. i - 1 \in DOMAIN d /\ c[j] = e /\ c[i] = d[i - 1]
      BY <1>2, <1>3, <1>4, <2>4
    <3> QED BY <1>5, <3>1 DEF IsCached
  <2> QED BY <2>1, <2>2, <2>3, <2>4
<1> QED BY <1>3, <1>5, <1>2 DEF OneEach, c

(* Get keeps the entries, or drops the one that has expired, ... *)
LEMMA GetProperties ==
  ASSUME NEW E, NEW c \in Seq(E), NEW k, OneEach(c)
  PROVE  LET d == CacheGet(c, k) IN
         d \in Seq(E) /\ OneEach(d) /\ Len(d) <= Len(c)
<1> DEFINE d == removeElement(c, k)
<1>1. /\ d \in Seq(E) /\ OneEach(d) /\ ~IsCached(d, k)
      /\ Len(d) = IF IsCached(c, k) THEN Len(c) - 1 ELSE Len(c)
  BY RemoveProperties
<1>2. Len(c) \in Nat /\ Len(d) \in Nat
  BY <1>1
<1> HIDE DEF d
<1>3. CASE Hit(c, k)
  <2> DEFINE e == CachedEntry(c, k)
  <2>1. e \in E /\ e.key = k /\ IsCached(c, k)
    BY <1>3, EntryTyped, PlaceOfEntry DEF Hit
  <2>2. CacheGet(c, k) = <<e>> \o d
    BY <1>3 DEF CacheGet, d
  <2> HIDE DEF e
  <2>3. <<e>> \o d \in Seq(E) /\ Len(<<e>> \o d) = Len(d) + 1 /\ OneEach(<<e>> \o d)
    BY <1>1, <2>1, PrependProperties
  <2> QED BY <1>1, <1>2, <2>1, <2>2, <2>3
<1>4. CASE ~Hit(c, k)
  <2>1. CacheGet(c, k) = d
    BY <1>4 DEF CacheGet, d
  <2> QED BY <1>1, <1>2, <2>1
<1> QED BY <1>3, <1>4

(* ... and Set adds one and drops the oldest if they become too many.      *)
LEMMA SetProperties ==
  ASSUME NEW E, NEW c \in Seq(E), NEW k, NEW v, OneEach(c), CacheEntry(k, v) \in E,
         NEW capacity \in Nat \ {0}, Len(c) <= capacity
  PROVE  LET d == CacheSet(c, k, v, capacity) IN
         d \in Seq(E) /\ OneEach(d) /\ Len(d) <= capacity
<1> DEFINE b == removeElement(c, k)
           e == CacheEntry(k, v)
           l == <<e>> \o b
           d == CacheSet(c, k, v, capacity)
<1>1. /\ b \in Seq(E) /\ OneEach(b) /\ ~IsCached(b, k)
      /\ Len(b) = IF IsCached(c, k) THEN Len(c) - 1 ELSE Len(c)
  BY RemoveProperties
<1>2. Len(c) \in Nat /\ Len(b) \in Nat /\ e.key = k
  BY <1>1 DEF CacheEntry
<1>3. d = IF Len(l) > capacity THEN SubSeq(l, 1, Len(l) - 1) ELSE l
  BY DEF CacheSet, evictOldest
<1> HIDE DEF b, e, d
<1>4. l \in Seq(E) /\ Len(l) = Len(b) + 1 /\ OneEach(l)
  BY <1>1, <1>2, PrependProperties DEF e
<1> HIDE DEF l
<1>5. CASE Len(l) > capacity
  <2>1. /\ 1 \in Int /\ Len(l) - 1 \in Int /\ Len(l) \in Nat
        /\ \A i \in 1..(Len(l) - 1) : l[i] \in E
    BY <1>4, <1>2, ElementOfSeq
  <2>2. /\ d \in Seq(E)
        /\ Len(d) = IF 1 <= Len(l) - 1 THEN (Len(l) - 1) - 1 + 1 ELSE 0
        /\ \A i \in 1..((Len(l) - 1) - 1 + 1) : d[i] = l[1 + i - 1]
    BY <1>3, <1>5, <2>1, SubSeqProperties
  <2>3. Len(d) = Len(l) - 1
    BY <1>2, <1>4, <2>1, <2>2
  <2>4. \A i \in 1..(Len(l) - 1) : d[i] = l[i]
    <3>1. (Len(l) - 1) - 1 + 1 = Len(l) - 1
      BY <2>1
    <3>2. \A i \in 1..(Len(l) - 1) : d[i] = l[1 + i - 1]
      BY <2>2, <3>1
    <3>3. \A i \in 1..(Len(l) - 1) : 1 + i - 1 = i
      BY <2>1
    <3> QED BY <3>2, <3>3
  <2>5. DOMAIN d \subseteq DOMAIN l /\ \A i \in DOMAIN d : d[i] = l[i]
    BY <1>4, <2>1, <2>2, <2>3, <2>4, SMTT(60)
  <2>6. OneEach(d)
    BY <1>4, <2>5 DEF OneEach
  <2>7. Len(d) <= capacity
    BY <1>1, <1>2, <1>4, <2>3
  <2> QED BY <2>2, <2>6, <2>7 DEF d
<1>6. CASE ~(Len(l) > capacity)
  BY <1>2, <1>3, <1>4, <1>6 DEF d
<1> QED BY <1>5, <1>6

-----------------------------------------------------------------------------
(* The handlers.                                                           *)

PipeStages ==
    {"idle", "decode", "policy", "cache", "engine", "forward", "count", "store",
     "answer", "service", "exhausted"}

(* The models that policies choose, and the entries that answer for one.   *)
Replies ==
    {ApplyToRequest(Policies, m, k) :
       m \in PipeModels \cup {"none"}, k \in ApiKeys \cup {"none"}}

Faithful == {[key |-> m, value |-> m, expired |-> e] : m \in Replies, e \in BOOLEAN}

Job ==
    [pc : PipeStages, kind : PipeKinds \cup {"none", "service"},
     key : ApiKeys \cup {"none"}, model : PipeModels \cup {"none"},
     answer : Replies \cup {"none"}, targets : Seq(Chain),
     called : SUBSET Chain, stable : SUBSET Chain]

Admitted(j) ==
    j.kind = "chat" /\ j.pc \in {"cache", "engine", "count", "store", "answer"} =>
      ~Denied(Policies, j.model, j.key)

AnsweredFor(j) ==
    j.kind = "chat" /\ j.pc \in {"count", "store", "answer"} => j.answer = Routed(j)

(* What was registered all the time was called or is still ahead.          *)
Ahead(j) ==
    /\ j.pc = "service" => j.stable \subseteq j.called \cup Elements(j.targets)
    /\ j.pc = "exhausted" => j.stable \subseteq j.called

KindFits(j) ==
    /\ j.pc = "policy" => j.kind \in {"chat", "stream"}
    /\ j.pc \in {"cache", "store"} => j.kind = "chat"
    /\ j.pc = "forward" => j.kind = "stream"
    /\ j.pc \in {"decode", "engine", "count", "answer"} => j.kind \in PipeKinds
    /\ j.pc \in {"service", "exhausted"} => j.kind = "service"

JobSound(j) ==
    /\ j \in Job /\ KindFits(j) /\ Admitted(j) /\ AnsweredFor(j) /\ Ahead(j)

CacheSound ==
    cache \in Seq(Faithful) /\ OneEach(cache) /\ Len(cache) <= CacheSize

PipeKept ==
    /\ metrics \in [total : Nat, success : Nat, error : Nat]
    /\ metrics.total <= MaxCounted
    /\ hits \in Nat /\ unseen \in Nat
    /\ CacheSound
    /\ keys \in KeySets /\ registered \subseteq Chain
    /\ DOMAIN pipe = PipeHandlers
    /\ \A h \in PipeHandlers : JobSound(pipe[h]) /\ pipe[h].stable \subseteq registered

(* A request in flight, and how a step may change the balance.             *)
Flying(j) == j.kind \in Counted /\ j.pc \notin {"idle", "store", "answer"}

Ended == metrics.success + metrics.error + hits + unseen

Accounted(j, r) ==
    \/ Flying(j) = Flying(r) /\ metrics'.total = metrics.total /\ Ended' = Ended
    \/ ~Flying(j) /\ Flying(r) /\ metrics'.total = metrics.total + 1 /\ Ended' = Ended
    \/ Flying(j) /\ ~Flying(r) /\ metrics'.total = metrics.total /\ Ended' = Ended + 1

MetricsKept ==
    /\ metrics' \in [total : Nat, success : Nat, error : Nat]
    /\ metrics'.total <= MaxCounted
    /\ hits' \in Nat /\ unseen' \in Nat

(* A step that leaves configuration and registry alone. *)
Turns(h, r) ==
    /\ pipe' = [pipe EXCEPT ![h] = r]
    /\ JobSound(r) /\ r.stable \subseteq registered
    /\ Accounted(pipe[h], r)
    /\ MetricsKept
    /\ CacheSound'
    /\ UNCHANGED Rest

GoodTurn(h) == \E r : Turns(h, r)

LEMMA RepliesTyped ==
  ASSUME NEW j \in Job PROVE Routed(j) \in Replies
<1>1. j.model \in PipeModels \cup {"none"} /\ j.key \in ApiKeys \cup {"none"}
  BY DEF Job
<1> QED BY <1>1 DEF Routed, Replies

LEMMA EntryFaithful ==
  ASSUME NEW m \in Replies, NEW lapsed \in BOOLEAN
  PROVE  [key |-> m, value |-> m, expired |-> lapsed] \in Faithful
BY DEF Faithful

LEMMA PipeIdleSound == JobSound(PipeIdle) /\ PipeIdle.stable = {} /\ ~Flying(PipeIdle)
<1>1. << >> \in Seq(Chain)
  OBVIOUS
<1>2. PipeIdle \in Job
  BY <1>1 DEF PipeIdle, Job, PipeStages
<1> QED BY <1>2 DEF JobSound, KindFits, Admitted, AnsweredFor, Ahead, PipeIdle, Flying,
       Counted

(* What a step that only moves the handler on, or ends it, has to show.    *)
LEMMA GotoFields ==
  ASSUME NEW j \in Job, NEW pc \in PipeStages
  PROVE  LET r == [j EXCEPT !.pc = pc] IN
         /\ r \in Job /\ r.pc = pc /\ r.kind = j.kind /\ r.key = j.key
         /\ r.model = j.model /\ r.answer = j.answer /\ r.targets = j.targets
         /\ r.called = j.called /\ r.stable = j.stable
         /\ Routed(r) = Routed(j)
BY DEF Job, Routed

LEMMA GotoTurn ==
  ASSUME PipeKept, NEW h \in PipeHandlers, NEW pc \in PipeStages, PipeGoto(h, pc),
         LET r == [pipe[h] EXCEPT !.pc = pc] IN
           /\ KindFits(r) /\ Admitted(r) /\ AnsweredFor(r) /\ Ahead(r)
           /\ Accounted(pipe[h], r),
         MetricsKept, CacheSound', UNCHANGED Rest
  PROVE  GoodTurn(h)
<1> DEFINE r == [pipe[h] EXCEPT !.pc = pc]
<1>1. pipe' = [pipe EXCEPT ![h] = r]
  BY DEF PipeGoto, PipeSet
<1>2. r \in Job /\ r.stable \subseteq registered
  BY GotoFields DEF PipeKept, JobSound
<1> HIDE DEF r
<1>3. JobSound(r)
  BY <1>2 DEF JobSound, r
<1> QED BY <1>1, <1>2, <1>3 DEF GoodTurn, Turns, r

LEMMA IdleTurn ==
  ASSUME PipeKept, NEW h \in PipeHandlers, PipeSet(h, PipeIdle),
         Accounted(pipe[h], PipeIdle), MetricsKept, CacheSound', UNCHANGED Rest
  PROVE  GoodTurn(h)
<1>1. pipe' = [pipe EXCEPT ![h] = PipeIdle]
  BY DEF PipeSet
<1> QED BY <1>1, PipeIdleSound DEF GoodTurn, Turns

(* The counters.                                                           *)
LEMMA ErrorCounted ==
  ASSUME PipeKept, NEW h \in PipeHandlers, CountError(h), UNCHANGED <<hits, unseen>>
  PROVE  /\ MetricsKept /\ metrics'.total = metrics.total
         /\ Ended' = Ended + (IF pipe[h].kind \in Counted THEN 1 ELSE 0)
<1>0. /\ metrics.total \in Nat /\ metrics.success \in Nat /\ metrics.error \in Nat
      /\ hits \in Nat /\ unseen \in Nat
  BY DEF PipeKept
<1>1. PICK n \in Nat : n = metrics.error + (IF pipe[h].kind \in Counted THEN 1 ELSE 0)
  BY <1>0
<1>2. metrics' = [metrics EXCEPT !.error = n]
  BY <1>1 DEF CountError, PipeKept
<1>3. /\ metrics' \in [total : Nat, success : Nat, error : Nat]
      /\ metrics'.total = metrics.total /\ metrics'.success = metrics.success
      /\ metrics'.error = n
  BY <1>2 DEF PipeKept
<1> QED BY <1>0, <1>1, <1>3 DEF MetricsKept, Ended, PipeKept

LEMMA NothingCounted ==
  ASSUME PipeKept, UNCHANGED <<metrics, hits, unseen>>
  PROVE  MetricsKept /\ metrics'.total = metrics.total /\ Ended' = Ended
BY DEF PipeKept, MetricsKept, Ended

LEMMA ArriveTurn ==
  ASSUME PipeKept, NEW h \in PipeHandlers, NEW kind \in PipeKinds, NEW m \in PipeModels,
         NEW k \in ApiKeys, PipeArrive(h, kind, m, k)
  PROVE  GoodTurn(h)
<1> DEFINE r == [Asks(kind, m, k) EXCEPT !.pc = "decode"]
<1>0. /\ metrics.total \in Nat /\ metrics.success \in Nat /\ metrics.error \in Nat
      /\ hits \in Nat /\ unseen \in Nat
  BY DEF PipeKept
<1>1. pipe' = [pipe EXCEPT ![h] = r]
  BY DEF PipeArrive, PipeSet
<1>2. /\ r \in Job /\ r.pc = "decode" /\ r.kind = kind /\ r.stable = {}
  <2>1. CASE kind \in {"chat", "stream"}
    <3>1. r = [PipeIdle EXCEPT !.kind = kind, !.key = k, !.model = m, !.pc = "decode"]
      BY <2>1 DEF Asks
    <3>2. PipeIdle \in Job /\ PipeIdle.stable = {} /\ "decode" \in PipeStages
      BY PipeIdleSound DEF JobSound, PipeStages
    <3> QED BY <3>1, <3>2 DEF Job
  <2>2. CASE kind \notin {"chat", "stream"}
    <3>1. r = [PipeIdle EXCEPT !.kind = kind, !.pc = "decode"]
      BY <2>2 DEF Asks
    <3>2. PipeIdle \in Job /\ PipeIdle.stable = {} /\ "decode" \in PipeStages
      BY PipeIdleSound DEF JobSound, PipeStages
    <3> QED BY <3>1, <3>2 DEF Job
  <2> QED BY <2>1, <2>2
<1> HIDE DEF r
<1>3. JobSound(r)
  BY <1>2 DEF JobSound, KindFits, Admitted, AnsweredFor, Ahead
<1>4. PICK n \in Nat : n = metrics.total + (IF kind \in Counted THEN 1 ELSE 0)
  BY <1>0
<1>5. metrics' = [metrics EXCEPT !.total = n]
  BY <1>4 DEF PipeArrive, PipeKept
<1>6. /\ metrics' \in [total : Nat, success : Nat, error : Nat]
      /\ metrics'.total = n /\ metrics'.success = metrics.success
      /\ metrics'.error = metrics.error
  BY <1>5 DEF PipeKept
<1>7. n <= MaxCounted
  BY <1>0, <1>4, PipeAssumption DEF PipeKept, PipeArrive
<1>8. UNCHANGED <<hits, unseen, cache, keys, registered>>
  BY DEF PipeArrive, Rest
<1>9. MetricsKept /\ Ended' = Ended
  BY <1>0, <1>6, <1>7, <1>8 DEF MetricsKept, Ended
<1>10. Accounted(pipe[h], r)
  <2>1. ~Flying(pipe[h])
    BY DEF PipeArrive, Flying
  <2>2. Flying(r) <=> kind \in Counted
    BY <1>2 DEF Flying
  <2>3. Flying(r) \in BOOLEAN /\ Flying(pipe[h]) \in BOOLEAN
    BY DEF Flying
  <2> QED BY <1>0, <1>4, <1>6, <1>9, <2>1, <2>2, <2>3 DEF Accounted
<1>11. CacheSound'
  BY <1>8 DEF PipeKept, CacheSound
<1> QED BY <1>1, <1>2, <1>3, <1>8, <1>9, <1>10, <1>11 DEF GoodTurn, Turns, Rest

(* The ends that count an error, or nothing. *)
LEMMA ErrorTurn ==
  ASSUME PipeKept, NEW h \in PipeHandlers,
         RejectBody(h) \/ Deny(h) \/ EngineFails(h) \/ handleMessages(h)
  PROVE  GoodTurn(h)
<1> DEFINE j == pipe[h]
<1>1. /\ CountError(h) /\ PipeSet(h, PipeIdle)
      /\ UNCHANGED <<hits, unseen, cache, keys, registered>>
  BY DEF RejectBody, Deny, EngineFails, handleMessages, Rest
<1>2. /\ MetricsKept /\ metrics'.total = metrics.total
      /\ Ended' = Ended + (IF j.kind \in Counted THEN 1 ELSE 0)
  BY <1>1, ErrorCounted
<1>3. j.pc \in {"decode", "policy", "engine", "count"}
  BY DEF RejectBody, Deny, EngineFails, handleMessages
<1>4. Flying(j) <=> j.kind \in Counted
  BY <1>3 DEF Flying
<1>5. Ended \in Nat
  BY DEF Ended, PipeKept
<1>6. Accounted(j, PipeIdle)
  <2>1. CASE j.kind \in Counted
    BY <1>2, <1>4, <2>1, PipeIdleSound DEF Accounted
  <2>2. CASE j.kind \notin Counted
    <3>1. Flying(j) = Flying(PipeIdle)
      BY <1>4, <2>2, PipeIdleSound DEF Flying
    <3> QED BY <1>2, <1>5, <2>2, <3>1 DEF Accounted
  <2> QED BY <2>1, <2>2
<1>7. CacheSound'
  BY <1>1 DEF PipeKept, CacheSound
<1> QED BY <1>1, <1>2, <1>6, <1>7, IdleTurn DEF Rest

LEMMA CutTurn ==
  ASSUME PipeKept, NEW h \in PipeHandlers, StreamCut(h)
  PROVE  GoodTurn(h)
<1> DEFINE j == pipe[h]
<1>0. /\ metrics.total \in Nat /\ metrics.success \in Nat /\ metrics.error \in Nat
      /\ hits \in Nat /\ unseen \in Nat
  BY DEF PipeKept
<1>1. /\ PipeSet(h, PipeIdle) /\ unseen' = unseen + 1
      /\ UNCHANGED <<metrics, hits, cache, keys, registered>>
  BY DEF StreamCut, Rest
<1>2. MetricsKept /\ Ended' = Ended + 1 /\ metrics'.total = metrics.total
  BY <1>0, <1>1 DEF MetricsKept, Ended, PipeKept
<1>3. Flying(j)
  BY DEF PipeKept, JobSound, KindFits, StreamCut, Flying, Counted
<1>4. Accounted(j, PipeIdle)
  BY <1>2, <1>3, PipeIdleSound DEF Accounted
<1>5. CacheSound'
  BY <1>1 DEF PipeKept, CacheSound
<1> QED BY <1>1, <1>2, <1>4, <1>5, IdleTurn DEF Rest

LEMMA QuietEndTurn ==
  ASSUME PipeKept, NEW h \in PipeHandlers, PipeAnswer(h) \/ ServiceAnswers(h)
  PROVE  GoodTurn(h)
<1> DEFINE j == pipe[h]
<1>1. /\ PipeSet(h, PipeIdle)
      /\ UNCHANGED <<metrics, hits, unseen, cache, keys, registered>>
  BY DEF PipeAnswer, ServiceAnswers, Rest
<1>2. MetricsKept /\ Ended' = Ended /\ metrics'.total = metrics.total
  BY <1>1, NothingCounted
<1>3. Flying(j) = Flying(PipeIdle)
  <2>1. ~Flying(j)
    BY DEF PipeKept, JobSound, KindFits, PipeAnswer, ServiceAnswers, Flying, Counted
  <2> QED BY <2>1, PipeIdleSound DEF Flying
<1>4. Accounted(j, PipeIdle)
  BY <1>2, <1>3 DEF Accounted
<1>5. CacheSound'
  BY <1>1 DEF PipeKept, CacheSound
<1> QED BY <1>1, <1>2, <1>4, <1>5, IdleTurn DEF Rest

(* The steps that move the handler on and count nothing.                   *)
LEMMA QuietGoto ==
  ASSUME PipeKept, NEW h \in PipeHandlers, NEW pc \in PipeStages, PipeGoto(h, pc),
         UNCHANGED <<metrics, hits, unseen, Rest>>, CacheSound',
         pc \in {"policy", "engine", "cache", "count", "answer", "exhausted"},
         LET j == pipe[h]
             r == [j EXCEPT !.pc = pc] IN
           /\ KindFits(r) /\ Admitted(r) /\ AnsweredFor(r) /\ Ahead(r)
           /\ Flying(j) = Flying(r)
  PROVE  GoodTurn(h)
<1> DEFINE r == [pipe[h] EXCEPT !.pc = pc]
<1>1. MetricsKept /\ metrics'.total = metrics.total /\ Ended' = Ended
  BY NothingCounted
<1>2. Accounted(pipe[h], r)
  BY <1>1 DEF Accounted
<1> QED BY <1>1, <1>2, GotoTurn

LEMMA DecodedTurn ==
  ASSUME PipeKept, NEW h \in PipeHandlers,
         DecodeChat(h) \/ DecodeMessages(h) \/ DecodeResponses(h) \/ handleOllamaChat(h)
  PROVE  GoodTurn(h)
<1> DEFINE j == pipe[h]
<1>1. PICK pc \in {"policy", "engine"} :
        /\ PipeGoto(h, pc) /\ j.pc = "decode" /\ j.kind \in PipeKinds
        /\ pc = "policy" => j.kind \in {"chat", "stream"}
        /\ pc = "engine" => j.kind # "chat"
        /\ UNCHANGED <<metrics, hits, unseen, Rest, cache>>
  BY DEF DecodeChat, DecodeMessages, DecodeResponses, handleOllamaChat, Decoded,
         PipeKinds, Counted
<1> DEFINE r == [j EXCEPT !.pc = pc]
<1>2. j \in Job /\ pc \in PipeStages
  BY DEF PipeKept, JobSound, PipeStages
<1>3. r.pc = pc /\ r.kind = j.kind
  BY <1>2, GotoFields
<1> HIDE DEF r
<1>4. KindFits(r) /\ Admitted(r) /\ AnsweredFor(r) /\ Ahead(r)
  BY <1>1, <1>3 DEF KindFits, Admitted, AnsweredFor, Ahead
<1>5. Flying(j) = Flying(r)
  BY <1>1, <1>3 DEF Flying
<1>6. CacheSound'
  BY <1>1 DEF PipeKept, CacheSound
<1> QED BY <1>1, <1>2, <1>4, <1>5, <1>6, QuietGoto DEF r

LEMMA AdmitTurn ==
  ASSUME PipeKept, NEW h \in PipeHandlers, Admit(h)
  PROVE  GoodTurn(h)
<1> DEFINE j == pipe[h]
<1>1. PICK pc \in {"engine", "cache"} :
        /\ PipeGoto(h, pc) /\ j.pc = "policy"
        /\ pc = "cache" => j.kind # "stream"
        /\ pc = IF j.kind = "stream" THEN "engine" ELSE "cache"
  BY DEF Admit
<1> DEFINE r == [j EXCEPT !.pc = pc]
<1>2. /\ j \in Job /\ pc \in PipeStages /\ j.kind \in {"chat", "stream"}
      /\ ~Denied(Policies, j.model, j.key)
      /\ UNCHANGED <<metrics, hits, unseen, Rest, cache>>
  BY <1>1 DEF PipeKept, JobSound, PipeStages, KindFits, Admit
<1>3. r.pc = pc /\ r.kind = j.kind /\ r.model = j.model /\ r.key = j.key
  BY <1>2, GotoFields
<1> HIDE DEF r
<1>4. KindFits(r) /\ Admitted(r) /\ AnsweredFor(r) /\ Ahead(r)
  BY <1>1, <1>2, <1>3 DEF KindFits, Admitted, AnsweredFor, Ahead, PipeKinds, Counted
<1>5. Flying(j) = Flying(r)
  BY <1>1, <1>2, <1>3 DEF Flying
<1>6. CacheSound'
  BY <1>2 DEF PipeKept, CacheSound
<1> QED BY <1>1, <1>2, <1>4, <1>5, <1>6, QuietGoto DEF r

LEMMA MissTurn ==
  ASSUME PipeKept, NEW h \in PipeHandlers, MissCache(h)
  PROVE  GoodTurn(h)
<1> DEFINE j == pipe[h]
           r == [j EXCEPT !.pc = "engine"]
<1>1. /\ j \in Job /\ "engine" \in PipeStages /\ j.kind = "chat" /\ j.pc = "cache"
      /\ Admitted(j) /\ UNCHANGED <<metrics, hits, unseen, Rest>>
      /\ PipeGoto(h, "engine")
  BY DEF PipeKept, JobSound, PipeStages, KindFits, MissCache
<1>2. /\ r.pc = "engine" /\ r.kind = j.kind /\ r.model = j.model /\ r.key = j.key
  BY <1>1, GotoFields
<1> HIDE DEF r
<1>3. KindFits(r) /\ Admitted(r) /\ AnsweredFor(r) /\ Ahead(r)
  BY <1>1, <1>2 DEF KindFits, Admitted, AnsweredFor, Ahead, PipeKinds, Counted
<1>4. Flying(j) = Flying(r)
  BY <1>1, <1>2 DEF Flying
<1>5. CacheSound'
  <2>1. cache' = CacheGet(cache, generateCacheKey(j))
    BY DEF MissCache
  <2>2. cache \in Seq(Faithful) /\ OneEach(cache) /\ Len(cache) <= CacheSize
    BY DEF PipeKept, CacheSound
  <2>3. /\ cache' \in Seq(Faithful) /\ OneEach(cache') /\ Len(cache') <= Len(cache)
    BY <2>1, <2>2, GetProperties
  <2>4. Len(cache) \in Nat /\ Len(cache') \in Nat /\ CacheSize \in Nat
    BY <2>2, <2>3, PipeAssumption
  <2> QED BY <2>2, <2>3, <2>4 DEF CacheSound, OneEach
<1> QED BY <1>1, <1>3, <1>4, <1>5, QuietGoto DEF r

(* A hit answers for the model that the policies chose: it is the key.     *)
LEMMA HitTurn ==
  ASSUME PipeKept, NEW h \in PipeHandlers, AnswerFromCache(h)
  PROVE  GoodTurn(h)
<1> DEFINE j == pipe[h]
           k == generateCacheKey(j)
           e == CachedEntry(cache, k)
           r == [j EXCEPT !.pc = "answer", !.answer = e.value]
<1>0. /\ metrics.total \in Nat /\ metrics.success \in Nat /\ metrics.error \in Nat
      /\ hits \in Nat /\ unseen \in Nat
  BY DEF PipeKept
<1>1. /\ j \in Job /\ j.kind = "chat" /\ j.pc = "cache" /\ Admitted(j)
      /\ j.stable \subseteq registered
      /\ cache \in Seq(Faithful) /\ OneEach(cache) /\ Len(cache) <= CacheSize
  BY DEF PipeKept, JobSound, KindFits, AnswerFromCache, CacheSound
<1>2. /\ hits' = hits + 1 /\ UNCHANGED <<metrics, Rest, unseen>>
      /\ pipe' = [pipe EXCEPT ![h] = r] /\ IsCached(cache, k)
      /\ cache' = CacheGet(cache, k)
  BY DEF AnswerFromCache, PipeSet, Hit
<1>3. e \in Faithful /\ e.key = k
  BY <1>1, <1>2, EntryTyped, PlaceOfEntry
<1>4. e.value = k /\ k = Routed(j) /\ k \in Replies
  <2>1. k = Routed(j) /\ k \in Replies
    BY <1>1, RepliesTyped DEF generateCacheKey
  <2> HIDE DEF e, k
  <2>2. PICK m \in Replies, lapsed \in BOOLEAN : e = [key |-> m, value |-> m, expired |-> lapsed]
    BY <1>3 DEF Faithful
  <2>3. e.value = k
    BY <1>3, <2>2
  <2> QED BY <2>1, <2>3
<1>5. CacheSound'
  <2>3. /\ cache' \in Seq(Faithful) /\ OneEach(cache') /\ Len(cache') <= Len(cache)
    BY <1>1, <1>2, GetProperties
  <2>4. Len(cache) \in Nat /\ Len(cache') \in Nat /\ CacheSize \in Nat
    BY <1>1, <2>3, PipeAssumption
  <2> QED BY <1>1, <2>3, <2>4 DEF CacheSound, OneEach
<1> HIDE DEF e, k
<1>6. /\ r \in Job /\ r.pc = "answer" /\ r.kind = "chat" /\ r.model = j.model
      /\ r.key = j.key /\ r.answer = Routed(j) /\ r.stable = j.stable
  BY <1>1, <1>4 DEF Job, PipeStages
<1> HIDE DEF r
<1>7. Routed(r) = Routed(j)
  BY <1>6 DEF Routed
<1>8. JobSound(r)
  BY <1>1, <1>6, <1>7 DEF JobSound, KindFits, Admitted, AnsweredFor, Ahead, PipeKinds,
     Counted
<1>9. MetricsKept /\ Ended' = Ended + 1 /\ metrics'.total = metrics.total
  BY <1>0, <1>2 DEF MetricsKept, Ended, PipeKept
<1>10. Accounted(j, r)
  BY <1>1, <1>6, <1>9 DEF Accounted, Flying, Counted
<1> QED BY <1>1, <1>2, <1>5, <1>6, <1>8, <1>9, <1>10 DEF GoodTurn, Turns

(* The engine has answered: for a chat request, the model it was asked for. *)
LEMMA EngineTurn ==
  ASSUME PipeKept, NEW h \in PipeHandlers, EngineAnswers(h)
  PROVE  GoodTurn(h)
<1> DEFINE j == pipe[h]
           pc == IF j.kind = "stream" THEN "forward" ELSE "count"
           a == IF j.kind = "chat" THEN Routed(j) ELSE "none"
           r == [j EXCEPT !.pc = pc, !.answer = a]
<1>1. /\ j \in Job /\ j.pc = "engine" /\ j.kind \in PipeKinds /\ Admitted(j)
      /\ j.stable \subseteq registered
      /\ UNCHANGED <<metrics, hits, unseen, cache, keys, registered>>
      /\ pipe' = [pipe EXCEPT ![h] = r]
  BY DEF PipeKept, JobSound, KindFits, EngineAnswers, PipeSet, Rest
<1>2. /\ a \in Replies \cup {"none"} /\ (j.kind = "chat" => a = Routed(j))
      /\ pc \in PipeStages /\ pc \in {"forward", "count"}
      /\ pc = "forward" <=> j.kind = "stream"
  BY <1>1, RepliesTyped DEF PipeStages
<1> HIDE DEF pc, a
<1>3. /\ r \in Job /\ r.pc = pc /\ r.kind = j.kind /\ r.model = j.model
      /\ r.key = j.key /\ r.answer = a /\ r.stable = j.stable
  BY <1>1, <1>2 DEF Job
<1> HIDE DEF r
<1>4. Routed(r) = Routed(j)
  BY <1>3 DEF Routed
<1>5. KindFits(r) /\ Admitted(r) /\ AnsweredFor(r) /\ Ahead(r)
  BY <1>1, <1>2, <1>3, <1>4 DEF KindFits, Admitted, AnsweredFor, Ahead
<1>6. JobSound(r)
  BY <1>3, <1>5 DEF JobSound
<1>7. Flying(j) = Flying(r)
  BY <1>1, <1>2, <1>3 DEF Flying
<1>8. MetricsKept /\ metrics'.total = metrics.total /\ Ended' = Ended
  BY <1>1, NothingCounted
<1>9. Accounted(j, r)
  BY <1>7, <1>8 DEF Accounted
<1>10. CacheSound'
  BY <1>1 DEF PipeKept, CacheSound
<1> QED BY <1>1, <1>3, <1>6, <1>8, <1>9, <1>10 DEF GoodTurn, Turns, Rest

LEMMA RelayedTurn ==
  ASSUME PipeKept, NEW h \in PipeHandlers, handleStreamingChatCompletion(h)
  PROVE  GoodTurn(h)
<1> DEFINE j == pipe[h]
           r == [j EXCEPT !.pc = "count"]
<1>1. /\ j \in Job /\ "count" \in PipeStages /\ j.pc = "forward" /\ j.kind = "stream"
      /\ PipeGoto(h, "count") /\ UNCHANGED <<metrics, hits, unseen, Rest, cache>>
  BY DEF PipeKept, JobSound, KindFits, PipeStages, handleStreamingChatCompletion
<1>2. r.pc = "count" /\ r.kind = "stream"
  BY <1>1, GotoFields
<1> HIDE DEF r
<1>3. KindFits(r) /\ Admitted(r) /\ AnsweredFor(r) /\ Ahead(r) /\ Flying(j) = Flying(r)
  BY <1>1, <1>2 DEF KindFits, Admitted, AnsweredFor, Ahead, Flying, PipeKinds, Counted
<1>4. CacheSound'
  BY <1>1 DEF PipeKept, CacheSound
<1> QED BY <1>1, <1>3, <1>4, QuietGoto DEF r

LEMMA SuccessTurn ==
  ASSUME PipeKept, NEW h \in PipeHandlers, CountSuccess(h)
  PROVE  GoodTurn(h)
<1> DEFINE j == pipe[h]
           pc == IF j.kind = "chat" THEN "store" ELSE "answer"
           r == [j EXCEPT !.pc = pc]
<1>0. /\ metrics.total \in Nat /\ metrics.success \in Nat /\ metrics.error \in Nat
      /\ hits \in Nat /\ unseen \in Nat
  BY DEF PipeKept
<1>1. /\ j \in Job /\ j.pc = "count" /\ j.kind \in PipeKinds /\ Admitted(j)
      /\ AnsweredFor(j) /\ PipeGoto(h, pc)
      /\ UNCHANGED <<hits, unseen, cache, keys, registered>>
  BY DEF PipeKept, JobSound, KindFits, CountSuccess, Rest
<1>2. /\ pc \in PipeStages /\ pc \in {"store", "answer"}
      /\ pc = "store" <=> j.kind = "chat"
  BY DEF PipeStages
<1>3. PICK n \in Nat : n = metrics.success + (IF j.kind \in Counted THEN 1 ELSE 0)
  BY <1>0
<1>4. metrics' = [metrics EXCEPT !.success = n]
  BY <1>3 DEF CountSuccess, PipeKept
<1>5. /\ metrics' \in [total : Nat, success : Nat, error : Nat]
      /\ metrics'.total = metrics.total /\ metrics'.error = metrics.error
      /\ metrics'.success = n
  BY <1>4 DEF PipeKept
<1> HIDE DEF pc
<1>6. MetricsKept /\ Ended' = Ended + (IF j.kind \in Counted THEN 1 ELSE 0)
  BY <1>0, <1>1, <1>3, <1>5 DEF MetricsKept, Ended, PipeKept
<1>7. /\ r.pc = pc /\ r.kind = j.kind /\ r.model = j.model /\ r.key = j.key
      /\ r.answer = j.answer /\ Routed(r) = Routed(j)
  BY <1>1, <1>2, GotoFields
<1> HIDE DEF r
<1>8. KindFits(r) /\ Admitted(r) /\ AnsweredFor(r) /\ Ahead(r)
  BY <1>1, <1>2, <1>7 DEF KindFits, Admitted, AnsweredFor, Ahead
<1>9. /\ Flying(j) <=> j.kind \in Counted
      /\ ~Flying(r)
  BY <1>1, <1>2, <1>7 DEF Flying
<1>10. Accounted(j, r)
  <2>1. Ended \in Nat
    BY <1>0 DEF Ended
  <2>2. CASE j.kind \in Counted
    BY <1>5, <1>6, <1>9, <2>2 DEF Accounted
  <2>3. CASE j.kind \notin Counted
    <3>1. Flying(j) = Flying(r)
      BY <1>9, <2>3 DEF Flying
    <3> QED BY <1>5, <1>6, <2>1, <2>3, <3>1 DEF Accounted
  <2> QED BY <2>2, <2>3
<1>11. CacheSound'
  BY <1>1 DEF PipeKept, CacheSound
<1> QED BY <1>1, <1>2, <1>6, <1>8, <1>10, <1>11, GotoTurn DEF r, Rest

(* What is stored is the answer for the model that is the key.             *)
LEMMA StoreTurn ==
  ASSUME PipeKept, NEW h \in PipeHandlers, handleChatCompletions(h)
  PROVE  GoodTurn(h)
<1> DEFINE j == pipe[h]
           k == generateCacheKey(j)
           r == [j EXCEPT !.pc = "answer"]
<1>1. /\ j \in Job /\ "answer" \in PipeStages /\ j.pc = "store" /\ j.kind = "chat"
      /\ Admitted(j) /\ AnsweredFor(j)
      /\ PipeGoto(h, "answer") /\ UNCHANGED <<metrics, hits, unseen, Rest>>
      /\ cache' = CacheSet(cache, k, j.answer, CacheSize)
  BY DEF PipeKept, JobSound, KindFits, PipeStages, handleChatCompletions
<1>2. /\ r.pc = "answer" /\ r.kind = j.kind /\ r.model = j.model /\ r.key = j.key
      /\ r.answer = j.answer /\ Routed(r) = Routed(j)
  BY <1>1, GotoFields
<1> HIDE DEF r
<1>3. KindFits(r) /\ Admitted(r) /\ AnsweredFor(r) /\ Ahead(r) /\ Flying(j) = Flying(r)
  BY <1>1, <1>2 DEF KindFits, Admitted, AnsweredFor, Ahead, Flying, PipeKinds, Counted
<1>4. k = Routed(j) /\ j.answer = k /\ k \in Replies
  BY <1>1, RepliesTyped DEF AnsweredFor, generateCacheKey
<1>5. CacheEntry(k, j.answer) \in Faithful
  <2> HIDE DEF k, j
  <2>1. CacheEntry(k, j.answer) = [key |-> k, value |-> k, expired |-> FALSE]
    BY <1>4 DEF CacheEntry
  <2> QED BY <1>4, <2>1, EntryFaithful
<1>6. CacheSound'
  <2> HIDE DEF k, j
  <2>1. cache \in Seq(Faithful) /\ OneEach(cache) /\ Len(cache) <= CacheSize
    BY DEF PipeKept, CacheSound
  <2>2. CacheSize \in Nat \ {0} /\ CacheSize' = CacheSize
    BY PipeAssumption
  <2>3. /\ cache' \in Seq(Faithful) /\ OneEach(cache') /\ Len(cache') <= CacheSize
    BY <1>1, <1>5, <2>1, <2>2, SetProperties
  <2> QED BY <2>3 DEF CacheSound, OneEach
<1> QED BY <1>1, <1>3, <1>6, QuietGoto DEF r

-----------------------------------------------------------------------------
(* The handlers that call adapters themselves.                             *)

LEMMA BeginTurn ==
  ASSUME PipeKept, NEW h \in PipeHandlers, NEW key, NEW targets \in Seq(Chain),
         BeginService(h, key, targets)
  PROVE  GoodTurn(h)
<1> DEFINE j == pipe[h]
           st == registered \cap Elements(targets)
           r == [PipeIdle EXCEPT !.pc = "service", !.kind = "service",
                                 !.targets = targets, !.stable = st]
<1>1. /\ j.pc = "idle" /\ pipe' = [pipe EXCEPT ![h] = r]
      /\ UNCHANGED <<metrics, hits, unseen, cache, keys, registered>>
  BY DEF BeginService, PipeSet, Rest
<1>2. st \subseteq registered /\ st \subseteq Elements(targets) /\ st \in SUBSET Chain
  BY DEF PipeKept
<1> HIDE DEF st
<1>3. PipeIdle \in Job /\ "service" \in PipeStages
  BY PipeIdleSound DEF JobSound, PipeStages
<1>4. /\ r \in Job /\ r.pc = "service" /\ r.kind = "service" /\ r.targets = targets
      /\ r.stable = st
  BY <1>2, <1>3 DEF Job
<1> HIDE DEF r
<1>5. JobSound(r)
  BY <1>2, <1>4 DEF JobSound, KindFits, Admitted, AnsweredFor, Ahead
<1>6. Flying(j) = Flying(r)
  BY <1>1, <1>4 DEF Flying, Counted
<1>7. MetricsKept /\ metrics'.total = metrics.total /\ Ended' = Ended
  BY <1>1, NothingCounted
<1>8. Accounted(j, r)
  BY <1>6, <1>7 DEF Accounted
<1>9. CacheSound'
  BY <1>1 DEF PipeKept, CacheSound
<1> QED BY <1>1, <1>2, <1>4, <1>5, <1>7, <1>8, <1>9 DEF GoodTurn, Turns, Rest

LEMMA ServiceBeginTurn ==
  ASSUME PipeKept, NEW h \in PipeHandlers, NEW key \in ApiKeys,
         \/ handleEmbeddings(h, key) \/ handleAudioSpeech(h, key)
         \/ handleAudioTranscriptions(h, key) \/ handleImagesGenerations(h, key)
         \/ handleWebSearch(h, key) \/ handleWebFetch(h, key)
  PROVE  GoodTurn(h)
<1>1. CASE BeginService(h, key, ServiceChain)
  BY <1>1, BeginTurn, PipeAssumption
<1>2. CASE serviceAdapter(h, key)
  <2>1. PICK p \in Chain : BeginService(h, key, <<p>>)
    BY <1>2 DEF serviceAdapter
  <2>2. <<p>> \in Seq(Chain)
    OBVIOUS
  <2> QED BY <2>1, <2>2, BeginTurn
<1> QED BY <1>1, <1>2 DEF handleEmbeddings, handleAudioSpeech, handleAudioTranscriptions,
       handleImagesGenerations, handleWebSearch, handleWebFetch

(* What remains of a list once its first element is taken.                *)
LEMMA ElementsOfTail ==
  ASSUME NEW S, NEW s \in Seq(S), s # << >>
  PROVE  /\ Head(s) \in S /\ Tail(s) \in Seq(S)
         /\ Elements(s) = {Head(s)} \cup Elements(Tail(s))
<1>1. Len(s) \in Nat \ {0} /\ DOMAIN s = 1..Len(s) /\ Head(s) = s[1]
  OBVIOUS
<1>2. /\ Tail(s) \in Seq(S) /\ Len(Tail(s)) = Len(s) - 1
      /\ \A i \in 1..(Len(s) - 1) : Tail(s)[i] = s[i + 1]
  OBVIOUS
<1>3. DOMAIN Tail(s) = 1..(Len(s) - 1)
  BY <1>1, <1>2
<1>4. Elements(s) \subseteq {Head(s)} \cup Elements(Tail(s))
  <2> SUFFICES ASSUME NEW i \in 1..Len(s) PROVE s[i] \in {Head(s)} \cup Elements(Tail(s))
    BY <1>1 DEF Elements
  <2>1. CASE i = 1
    BY <1>1, <2>1
  <2>2. CASE i # 1
    <3>1. i - 1 \in DOMAIN Tail(s) /\ Tail(s)[i - 1] = s[i]
      BY <1>1, <1>2, <1>3, <2>2
    <3> QED BY <3>1 DEF Elements
  <2> QED BY <2>1, <2>2
<1>5. {Head(s)} \cup Elements(Tail(s)) \subseteq Elements(s)
  <2>1. 1 \in DOMAIN s /\ \A i \in DOMAIN Tail(s) :
          i + 1 \in DOMAIN s /\ Tail(s)[i] = s[i + 1]
    BY <1>1, <1>2, <1>3
  <2> QED BY <1>1, <2>1 DEF Elements
<1>6. Head(s) \in S
  BY <1>1, ElementOfSeq
<1> QED BY <1>2, <1>4, <1>5, <1>6

(* A target is passed over when it is not registered, so that it was not   *)
(* there all the time, or when it was called.                              *)
LEMMA TargetTurn ==
  ASSUME PipeKept, NEW h \in PipeHandlers, SkipMissing(h) \/ RetryableFailure(h)
  PROVE  GoodTurn(h)
<1> DEFINE j == pipe[h]
           t == PipeTarget(h)
           c == IF t \in registered THEN j.called \cup {t} ELSE j.called
           r == [j EXCEPT !.targets = Tail(@), !.called = c]
<1>1. /\ j \in Job /\ j.pc = "service" /\ j.targets # << >> /\ Ahead(j)
      /\ j.kind = "service" /\ j.stable \subseteq registered
      /\ UNCHANGED <<metrics, hits, unseen, cache, keys, registered>>
  BY DEF PipeKept, JobSound, KindFits, SkipMissing, RetryableFailure, Rest
<1>2. pipe' = [pipe EXCEPT ![h] = r]
  <2>1. CASE SkipMissing(h)
    <3>1. /\ pipe' = [pipe EXCEPT ![h] = [j EXCEPT !.targets = Tail(@)]]
          /\ t \notin registered
      BY <2>1 DEF SkipMissing, PipeSet
    <3>2. [j EXCEPT !.targets = Tail(@)] = [j EXCEPT !.targets = Tail(@), !.called = c]
      BY <1>1, <3>1 DEF Job
    <3> QED BY <3>1, <3>2
  <2>2. CASE RetryableFailure(h)
    BY <2>2 DEF RetryableFailure, PipeSet
  <2> QED BY <2>1, <2>2
<1>3. /\ j.targets \in Seq(Chain) /\ t = Head(j.targets) /\ t \in Chain
      /\ Tail(j.targets) \in Seq(Chain)
      /\ Elements(j.targets) = {t} \cup Elements(Tail(j.targets))
  BY <1>1, ElementsOfTail DEF Job, PipeTarget
<1>4. c \in SUBSET Chain /\ j.called \subseteq c /\ (t \in registered => t \in c)
  BY <1>1, <1>3 DEF Job
<1> HIDE DEF c, t
<1>5. /\ r \in Job /\ r.pc = "service" /\ r.kind = "service"
      /\ r.targets = Tail(j.targets) /\ r.called = c /\ r.stable = j.stable
  BY <1>1, <1>3, <1>4 DEF Job
<1> HIDE DEF r
<1>6. Ahead(r)
  <2>1. j.stable \subseteq j.called \cup Elements(j.targets)
    BY <1>1 DEF Ahead
  <2>2. r.stable \subseteq r.called \cup Elements(r.targets)
    BY <1>1, <1>3, <1>4, <1>5, <2>1
  <2> QED BY <1>5, <2>2 DEF Ahead
<1>7. JobSound(r)
  BY <1>5, <1>6 DEF JobSound, KindFits, Admitted, AnsweredFor
<1>8. Flying(j) = Flying(r)
  BY <1>1, <1>5 DEF Flying
<1>9. MetricsKept /\ metrics'.total = metrics.total /\ Ended' = Ended
  BY <1>1, NothingCounted
<1>10. Accounted(j, r)
  BY <1>8, <1>9 DEF Accounted
<1>11. CacheSound'
  BY <1>1 DEF PipeKept, CacheSound
<1> QED BY <1>1, <1>2, <1>5, <1>7, <1>9, <1>10, <1>11 DEF GoodTurn, Turns, Rest

LEMMA ExhaustedTurn ==
  ASSUME PipeKept, NEW h \in PipeHandlers, ServiceExhausted(h)
  PROVE  GoodTurn(h)
<1> DEFINE j == pipe[h]
           r == [j EXCEPT !.pc = "exhausted"]
<1>1. /\ j \in Job /\ "exhausted" \in PipeStages /\ j.pc = "service"
      /\ j.kind = "service" /\ j.targets = << >> /\ Ahead(j)
      /\ PipeGoto(h, "exhausted") /\ UNCHANGED <<metrics, hits, unseen, Rest, cache>>
  BY DEF PipeKept, JobSound, KindFits, PipeStages, ServiceExhausted
<1>2. /\ r.pc = "exhausted" /\ r.kind = "service" /\ r.stable = j.stable
      /\ r.called = j.called
  BY <1>1, GotoFields
<1> HIDE DEF r
<1>3. j.stable \subseteq j.called
  BY <1>1 DEF Ahead, Elements
<1>4. KindFits(r) /\ Admitted(r) /\ AnsweredFor(r) /\ Ahead(r) /\ Flying(j) = Flying(r)
  BY <1>1, <1>2, <1>3 DEF KindFits, Admitted, AnsweredFor, Ahead, Flying, Counted
<1>5. CacheSound'
  BY <1>1 DEF PipeKept, CacheSound
<1> QED BY <1>1, <1>4, <1>5, QuietGoto DEF r

-----------------------------------------------------------------------------
(* Every step of a handler is such a turn, ...                             *)

PipeHandles(h) ==
    \/ \E kind \in PipeKinds, model \in PipeModels, key \in ApiKeys :
         PipeArrive(h, kind, model, key)
    \/ RejectBody(h) \/ DecodeChat(h) \/ DecodeMessages(h)
    \/ DecodeResponses(h) \/ handleOllamaChat(h) \/ Deny(h) \/ Admit(h)
    \/ AnswerFromCache(h) \/ MissCache(h) \/ EngineAnswers(h) \/ EngineFails(h)
    \/ handleStreamingChatCompletion(h) \/ StreamCut(h) \/ handleMessages(h)
    \/ CountSuccess(h) \/ handleChatCompletions(h) \/ PipeAnswer(h)
    \/ \E key \in ApiKeys :
         \/ handleEmbeddings(h, key) \/ handleAudioSpeech(h, key)
         \/ handleAudioTranscriptions(h, key) \/ handleImagesGenerations(h, key)
         \/ handleWebSearch(h, key) \/ handleWebFetch(h, key)
    \/ SkipMissing(h) \/ RetryableFailure(h) \/ ServiceAnswers(h)
    \/ ServiceExhausted(h)

LEMMA HandlerTurn ==
  ASSUME PipeKept, NEW h \in PipeHandlers, PipeHandles(h)
  PROVE  GoodTurn(h)
<1>1. CASE \E kind \in PipeKinds, model \in PipeModels, key \in ApiKeys :
             PipeArrive(h, kind, model, key)
  BY <1>1, ArriveTurn
<1>2. CASE RejectBody(h) \/ Deny(h) \/ EngineFails(h) \/ handleMessages(h)
  BY <1>2, ErrorTurn
<1>3. CASE DecodeChat(h) \/ DecodeMessages(h) \/ DecodeResponses(h) \/ handleOllamaChat(h)
  BY <1>3, DecodedTurn
<1>4. CASE Admit(h) \/ AnswerFromCache(h) \/ MissCache(h)
  BY <1>4, AdmitTurn, HitTurn, MissTurn
<1>5. CASE EngineAnswers(h) \/ handleStreamingChatCompletion(h) \/ StreamCut(h)
  BY <1>5, EngineTurn, RelayedTurn, CutTurn
<1>6. CASE CountSuccess(h) \/ handleChatCompletions(h)
  BY <1>6, SuccessTurn, StoreTurn
<1>7. CASE PipeAnswer(h) \/ ServiceAnswers(h)
  BY <1>7, QuietEndTurn
<1>8. CASE \E key \in ApiKeys :
             \/ handleEmbeddings(h, key) \/ handleAudioSpeech(h, key)
             \/ handleAudioTranscriptions(h, key) \/ handleImagesGenerations(h, key)
             \/ handleWebSearch(h, key) \/ handleWebFetch(h, key)
  BY <1>8, ServiceBeginTurn
<1>9. CASE SkipMissing(h) \/ RetryableFailure(h) \/ ServiceExhausted(h)
  BY <1>9, TargetTurn, ExhaustedTurn
<1> QED BY <1>1, <1>2, <1>3, <1>4, <1>5, <1>6, <1>7, <1>8, <1>9 DEF PipeHandles

(* ... and the world around keeps what the handlers rely on.               *)
Surroundings ==
    \/ \E model \in PipeModels : CacheExpires(model)
    \/ \E new \in KeySets : SetKeys(new)
    \/ \E new \in SUBSET Chain : ReconfigureRegistry(new)

LEMMA ExpiredEntry ==
  ASSUME NEW e \in [key : Replies, value : Replies, expired : BOOLEAN], e.key = e.value
  PROVE  LET f == [e EXCEPT !.expired = TRUE] IN f \in Faithful /\ f.key = e.key
<1> DEFINE f == [e EXCEPT !.expired = TRUE]
<1>1. /\ f \in [key : Replies, value : Replies, expired : BOOLEAN]
      /\ f.key = e.key /\ f.value = e.value /\ f.expired = TRUE
  OBVIOUS
<1> HIDE DEF f
<1>2. f = [key |-> f.key, value |-> f.key, expired |-> TRUE] /\ f.key \in Replies
  BY <1>1
<1> QED BY <1>1, <1>2, EntryFaithful DEF f

LEMMA ExpireKeeps ==
  ASSUME NEW c \in Seq(Faithful), NEW k, OneEach(c)
  PROVE  LET d == CacheExpire(c, k) IN
         d \in Seq(Faithful) /\ OneEach(d) /\ Len(d) = Len(c)
<1> DEFINE d == CacheExpire(c, k)
<1>1. Len(c) \in Nat /\ DOMAIN c = 1..Len(c)
  OBVIOUS
<1>2. ASSUME NEW i \in 1..Len(c)
      PROVE  /\ (IF c[i].key = k THEN [c[i] EXCEPT !.expired = TRUE] ELSE c[i]) \in Faithful
             /\ (IF c[i].key = k THEN [c[i] EXCEPT !.expired = TRUE] ELSE c[i]).key = c[i].key
  <2>1. c[i] \in Faithful
    BY ElementOfSeq
  <2> DEFINE e == c[i]
  <2> HIDE DEF e
  <2>2. PICK m \in Replies, lapsed \in BOOLEAN : e = [key |-> m, value |-> m, expired |-> lapsed]
    BY <2>1 DEF Faithful, e
  <2>3. e \in [key : Replies, value : Replies, expired : BOOLEAN] /\ e.key = e.value
    BY <2>2
  <2>4. [e EXCEPT !.expired = TRUE] \in Faithful /\ [e EXCEPT !.expired = TRUE].key = e.key
    BY <2>3, ExpiredEntry
  <2> QED BY <2>1, <2>4 DEF e
<1>3. d = [i \in 1..Len(c) |->
             IF c[i].key = k THEN [c[i] EXCEPT !.expired = TRUE] ELSE c[i]]
  BY <1>1 DEF CacheExpire
<1>4. /\ DOMAIN d = 1..Len(c)
      /\ \A i \in 1..Len(c) : d[i] \in Faithful /\ d[i].key = c[i].key
  BY <1>2, <1>3
<1>5. d \in [1..Len(c) -> Faithful]
  BY <1>2, <1>3
<1> HIDE DEF d
<1>6. d \in Seq(Faithful) /\ Len(d) = Len(c)
  BY <1>1, <1>4, <1>5
<1> QED BY <1>1, <1>4, <1>6 DEF OneEach, d

LEMMA SurroundingsKeep ==
  ASSUME PipeKept, Surroundings
  PROVE  /\ PipeKept' /\ metrics'.total = metrics.total /\ Ended' = Ended
         /\ \A h \in PipeHandlers : Flying(pipe'[h]) = Flying(pipe[h])
<1>1. UNCHANGED <<metrics, hits, unseen>>
  BY DEF Surroundings, CacheExpires, SetKeys, ReconfigureRegistry
<1>2. metrics'.total = metrics.total /\ Ended' = Ended
  BY <1>1 DEF Ended
<1>3. CacheSound' /\ keys' \in KeySets
  <2>1. CASE \E model \in PipeModels : CacheExpires(model)
    <3>1. PICK k \in PipeModels : cache' = CacheExpire(cache, k) /\ keys' = keys
      BY <2>1 DEF CacheExpires, Rest
    <3>2. cache \in Seq(Faithful) /\ OneEach(cache) /\ Len(cache) <= CacheSize
      BY DEF PipeKept, CacheSound
    <3>3. cache' \in Seq(Faithful) /\ OneEach(cache') /\ Len(cache') = Len(cache)
      BY <3>1, <3>2, ExpireKeeps
    <3> QED BY <3>1, <3>2, <3>3 DEF CacheSound, OneEach, PipeKept
  <2>2. CASE ~ \E model \in PipeModels : CacheExpires(model)
    <3>1. UNCHANGED cache /\ keys' \in KeySets
      BY <2>2 DEF Surroundings, SetKeys, ReconfigureRegistry, PipeKept
    <3> QED BY <3>1 DEF PipeKept, CacheSound
  <2> QED BY <2>1, <2>2
<1>4. /\ registered' \subseteq Chain /\ DOMAIN pipe' = PipeHandlers
      /\ \A h \in PipeHandlers :
           /\ JobSound(pipe'[h]) /\ pipe'[h].stable \subseteq registered'
           /\ Flying(pipe'[h]) = Flying(pipe[h])
  <2>1. CASE UNCHANGED <<registered, pipe>>
    BY <2>1 DEF PipeKept
  <2>2. ASSUME NEW new \in SUBSET Chain, ReconfigureRegistry(new)
        PROVE  <1>4
    <3>1. /\ registered' = new
          /\ pipe' = [h \in PipeHandlers |-> [pipe[h] EXCEPT !.stable = @ \cap new]]
      BY <2>2 DEF ReconfigureRegistry
    <3>2. ASSUME NEW h \in PipeHandlers
          PROVE  /\ JobSound(pipe'[h]) /\ pipe'[h].stable \subseteq new
                 /\ Flying(pipe'[h]) = Flying(pipe[h])
      <4> DEFINE j == pipe[h]
                 st == j.stable \cap new
                 r == [j EXCEPT !.stable = st]
      <4>1. pipe'[h] = r
        BY <3>1
      <4>2. JobSound(j) /\ j \in Job
        BY DEF PipeKept, JobSound
      <4>3. st \in SUBSET Chain /\ st \subseteq j.stable /\ st \subseteq new
        OBVIOUS
      <4> HIDE DEF st
      <4>4. /\ r \in Job /\ r.pc = j.pc /\ r.kind = j.kind /\ r.model = j.model
            /\ r.key = j.key /\ r.answer = j.answer /\ r.targets = j.targets
            /\ r.called = j.called /\ r.stable = st
        BY <4>2, <4>3 DEF Job
      <4> HIDE DEF r
      <4>5. Routed(r) = Routed(j)
        BY <4>4 DEF Routed
      <4>6. KindFits(r) /\ Admitted(r) /\ AnsweredFor(r)
        BY <4>2, <4>4, <4>5 DEF JobSound, KindFits, Admitted, AnsweredFor
      <4>7. Ahead(r)
        BY <4>2, <4>3, <4>4 DEF JobSound, Ahead
      <4>8. Flying(r) = Flying(j)
        BY <4>4 DEF Flying
      <4> QED BY <4>1, <4>3, <4>4, <4>6, <4>7, <4>8 DEF JobSound
    <3>3. DOMAIN pipe' = PipeHandlers
      BY <3>1
    <3> QED BY <3>1, <3>2, <3>3
  <2> QED BY <2>1, <2>2 DEF Surroundings, CacheExpires, SetKeys, Rest
<1> QED BY <1>1, <1>2, <1>3, <1>4 DEF PipeKept

-----------------------------------------------------------------------------
(* The balance: a turn moves at most one request in or out of flight.      *)

Balanced ==
    /\ PipeKept
    /\ MetricsBalance

LEMMA TurnKeeps ==
  ASSUME PipeKept, NEW h \in PipeHandlers, GoodTurn(h)
  PROVE  PipeKept'
<1>1. PICK r : Turns(h, r)
  BY DEF GoodTurn
<1>2. /\ pipe' = [pipe EXCEPT ![h] = r] /\ JobSound(r) /\ r.stable \subseteq registered
      /\ MetricsKept /\ CacheSound' /\ UNCHANGED <<keys, registered>>
  BY <1>1 DEF Turns, Rest
<1>3. DOMAIN pipe' = PipeHandlers
  BY <1>2 DEF PipeKept
<1>4. ASSUME NEW o \in PipeHandlers
      PROVE  JobSound(pipe'[o]) /\ pipe'[o].stable \subseteq registered
  <2>1. CASE o = h
    BY <1>2, <2>1 DEF PipeKept
  <2>2. CASE o # h
    BY <1>2, <2>2 DEF PipeKept
  <2> QED BY <2>1, <2>2
<1> QED BY <1>2, <1>3, <1>4 DEF PipeKept, MetricsKept

LEMMA BalanceKept ==
  ASSUME Balanced, NEW h \in PipeHandlers, GoodTurn(h)
  PROVE  MetricsBalance'
<1> DEFINE F == {o \in PipeHandlers : Flying(pipe[o])}
           G == {o \in PipeHandlers : Flying(pipe'[o])}
<1>1. PICK r : Turns(h, r)
  BY DEF GoodTurn
<1>2. PipeKept /\ PipeKept'
  BY TurnKeeps DEF Balanced
<1>3. InFlight = F /\ InFlight' = G
  BY <1>2 DEF InFlight, Flying
<1>4. IsFiniteSet(F) /\ IsFiniteSet(G)
  BY PipeAssumption, FS_Subset
<1>5. Cardinality(F) \in Nat /\ Cardinality(G) \in Nat
  BY <1>4, FS_CardinalityType
<1>6. /\ pipe' = [pipe EXCEPT ![h] = r] /\ Accounted(pipe[h], r)
      /\ DOMAIN pipe = PipeHandlers
  BY <1>1, <1>2 DEF Turns, PipeKept
<1>7. /\ pipe'[h] = r /\ \A o \in PipeHandlers \ {h} : pipe'[o] = pipe[o]
  BY <1>6
<1>8. /\ metrics.total = Ended + Cardinality(F)
      /\ MetricsBalance' <=> metrics'.total = Ended' + Cardinality(G)
  BY <1>3 DEF Balanced, MetricsBalance, Ended
<1>9. Ended \in Nat /\ metrics.total \in Nat
  BY <1>2 DEF PipeKept, Ended
<1> HIDE DEF F, G
<1>10. metrics'.total = Ended' + Cardinality(G)
  <2>1. CASE Flying(pipe[h]) = Flying(r) /\ metrics'.total = metrics.total /\ Ended' = Ended
    <3>1. \A o \in PipeHandlers : Flying(pipe'[o]) = Flying(pipe[o])
      BY <1>7, <2>1
    <3>2. G = F
      BY <3>1 DEF F, G
    <3> QED BY <1>8, <2>1, <3>2
  <2>2. CASE /\ ~Flying(pipe[h]) /\ Flying(r)
             /\ metrics'.total = metrics.total + 1 /\ Ended' = Ended
    <3>1. h \notin F /\ G = F \cup {h}
      BY <1>7, <2>2 DEF F, G
    <3>2. Cardinality(G) = Cardinality(F) + 1
      BY <1>4, <3>1, FS_AddElement
    <3> QED BY <1>5, <1>8, <1>9, <2>2, <3>2
  <2>3. CASE /\ Flying(pipe[h]) /\ ~Flying(r)
             /\ metrics'.total = metrics.total /\ Ended' = Ended + 1
    <3>1. h \in F /\ G = F \ {h}
      BY <1>7, <2>3 DEF F, G
    <3>2. Cardinality(G) = Cardinality(F) - 1
      BY <1>4, <3>1, FS_RemoveElement
    <3> QED BY <1>5, <1>8, <1>9, <2>3, <3>2
  <2> QED BY <1>6, <2>1, <2>2, <2>3 DEF Accounted
<1> QED BY <1>8, <1>10

LEMMA PipeInitial == PipeInit => Balanced
<1> SUFFICES ASSUME PipeInit PROVE Balanced
  OBVIOUS
<1>1. /\ metrics = [total |-> 0, success |-> 0, error |-> 0] /\ hits = 0 /\ unseen = 0
      /\ cache = << >> /\ keys \in KeySets /\ registered = Chain
      /\ pipe = [h \in PipeHandlers |-> PipeIdle]
  BY DEF PipeInit
<1>2. CacheSound
  <2>1. << >> \in Seq(Faithful) /\ Len(<< >>) = 0 /\ DOMAIN << >> = {}
    OBVIOUS
  <2> QED BY <1>1, <2>1, PipeAssumption DEF CacheSound, OneEach
<1>3. PipeKept
  BY <1>1, <1>2, PipeIdleSound, PipeAssumption DEF PipeKept
<1>4. InFlight = {}
  BY <1>1 DEF InFlight, PipeIdle, Counted
<1>5. Cardinality(InFlight) = 0
  BY <1>4, FS_EmptySet
<1> QED BY <1>1, <1>3, <1>5 DEF Balanced, MetricsBalance

LEMMA PipeStep == Balanced /\ [PipeNext]_pipeVars => Balanced'
<1> SUFFICES ASSUME Balanced, [PipeNext]_pipeVars PROVE Balanced'
  OBVIOUS
<1>0. PipeKept
  BY DEF Balanced
<1>1. ASSUME NEW h \in PipeHandlers, PipeHandles(h) PROVE Balanced'
  <2>1. GoodTurn(h)
    BY <1>0, <1>1, HandlerTurn
  <2> QED BY <1>0, <2>1, TurnKeeps, BalanceKept DEF Balanced
<1>2. CASE Surroundings
  <2>1. /\ PipeKept' /\ metrics'.total = metrics.total /\ Ended' = Ended
        /\ \A h \in PipeHandlers : Flying(pipe'[h]) = Flying(pipe[h])
    BY <1>0, <1>2, SurroundingsKeep
  <2>2. InFlight' = InFlight
    BY <2>1 DEF InFlight, Flying
  <2> QED BY <2>1, <2>2 DEF Balanced, MetricsBalance, Ended
<1>3. CASE UNCHANGED pipeVars
  <2>1. PipeKept'
    BY <1>0, <1>3 DEF pipeVars, PipeKept, CacheSound
  <2>2. MetricsBalance'
    BY <1>3 DEF Balanced, MetricsBalance, InFlight, pipeVars
  <2> QED BY <2>1, <2>2 DEF Balanced
<1>4. PipeNext => (\E h \in PipeHandlers : PipeHandles(h)) \/ Surroundings
  BY DEF PipeNext, PipeHandles, Surroundings
<1> QED BY <1>1, <1>2, <1>3, <1>4

LEMMA PipeInvariant == PipeSpec => []Balanced
BY PipeInitial, PipeStep, PTL DEF PipeSpec

(* Every request that was counted is in flight, a success, an error, a hit *)
(* of the cache or a stream that was cut: no return of the four handlers   *)
(* counts twice or not at all.                                             *)
THEOREM EveryRequestIsAccounted == PipeSpec => []MetricsBalance
<1>1. Balanced => MetricsBalance
  BY DEF Balanced
<1> QED BY <1>1, PipeInvariant, PTL

(* An answer to a chat request, cached or not, is for the model that the   *)
(* policies choose for this caller, and a caller that they deny gets none. *)
THEOREM CachedAnswersObeyPolicy == PipeSpec => []AnswersObeyPolicy
<1>1. Balanced => AnswersObeyPolicy
  BY DEF Balanced, PipeKept, JobSound, Admitted, AnsweredFor, AnswersObeyPolicy
<1> QED BY <1>1, PipeInvariant, PTL

(* A service request gives up only when every provider that was registered *)
(* all the time has been called.                                           *)
THEOREM GivesUpAfterAll == PipeSpec => []ServiceTriesAll
<1>1. Balanced => ServiceTriesAll
  BY DEF Balanced, PipeKept, JobSound, Ahead, ServiceTriesAll
<1> QED BY <1>1, PipeInvariant, PTL

(* No key has two entries, and there are never more than the cache holds.  *)
THEOREM CacheStaysSound == PipeSpec => [](OneEach(cache) /\ Len(cache) <= CacheSize)
<1>1. Balanced => OneEach(cache) /\ Len(cache) <= CacheSize
  BY DEF Balanced, PipeKept, CacheSound
<1> QED BY <1>1, PipeInvariant, PTL

-----------------------------------------------------------------------------
(* The types of the handlers: no more has ended than was counted, and no   *)
(* list of targets outgrows the chain.                                     *)

Listed(r, j) ==
    \/ r.targets = << >> \/ r.targets = j.targets \/ r.targets = ServiceChain
    \/ \E p \in Chain : r.targets = <<p>>
    \/ j.targets # << >> /\ r.targets = Tail(j.targets)

LEMMA TurnLists ==
  ASSUME PipeKept, NEW h \in PipeHandlers, PipeHandles(h)
  PROVE  \E r : pipe' = [pipe EXCEPT ![h] = r] /\ Listed(r, pipe[h])
<1> DEFINE j == pipe[h]
<1>0. j \in Job /\ PipeIdle \in Job /\ PipeIdle.targets = << >>
  BY PipeIdleSound DEF PipeKept, JobSound, PipeIdle
<1>1. ASSUME NEW pc, PipeGoto(h, pc) PROVE \E r : PipeSet(h, r) /\ Listed(r, j)
  <2>1. [j EXCEPT !.pc = pc].targets = j.targets
    BY <1>0 DEF Job
  <2> QED BY <1>1, <2>1 DEF PipeGoto, Listed
<1>2. CASE PipeSet(h, PipeIdle)
  BY <1>0, <1>2 DEF PipeSet, Listed
<1>3. CASE \E pc : PipeGoto(h, pc)
  BY <1>1, <1>3 DEF PipeSet
<1>4. ASSUME NEW kind \in PipeKinds, NEW m \in PipeModels, NEW k \in ApiKeys,
             PipeArrive(h, kind, m, k)
      PROVE  \E r : PipeSet(h, r) /\ Listed(r, j)
  <2> DEFINE r == [Asks(kind, m, k) EXCEPT !.pc = "decode"]
  <2>1. r.targets = << >>
    BY <1>0 DEF Asks, Job
  <2> QED BY <1>4, <2>1 DEF PipeArrive, Listed
<1>5. CASE AnswerFromCache(h) \/ EngineAnswers(h)
  <2>1. \A pc, answer : [j EXCEPT !.pc = pc, !.answer = answer].targets = j.targets
    BY <1>0 DEF Job
  <2>2. PICK pc, answer : PipeSet(h, [j EXCEPT !.pc = pc, !.answer = answer])
    BY <1>5 DEF AnswerFromCache, EngineAnswers
  <2> QED BY <2>1, <2>2 DEF PipeSet, Listed
<1>6. ASSUME NEW key, NEW targets, BeginService(h, key, targets)
      PROVE  \E r : PipeSet(h, r) /\ r.targets = targets
  <2> DEFINE r == [PipeIdle EXCEPT !.pc = "service", !.kind = "service",
                      !.targets = targets,
                      !.stable = registered \cap Elements(targets)]
  <2>1. r.targets = targets
    BY <1>0 DEF Job
  <2> QED BY <1>6, <2>1 DEF BeginService
<1>7. ASSUME NEW key \in ApiKeys,
             \/ handleEmbeddings(h, key) \/ handleAudioSpeech(h, key)
             \/ handleAudioTranscriptions(h, key) \/ handleImagesGenerations(h, key)
             \/ handleWebSearch(h, key) \/ handleWebFetch(h, key)
      PROVE  \E r : PipeSet(h, r) /\ Listed(r, j)
  <2>1. CASE BeginService(h, key, ServiceChain)
    BY <1>6, <2>1 DEF Listed
  <2>2. ASSUME NEW p \in Chain, BeginService(h, key, <<p>>)
        PROVE  \E r : PipeSet(h, r) /\ Listed(r, j)
    BY <1>6, <2>2 DEF Listed
  <2> QED BY <1>7, <2>1, <2>2 DEF handleEmbeddings, handleAudioSpeech,
         handleAudioTranscriptions, handleImagesGenerations, handleWebSearch,
         handleWebFetch, serviceAdapter
<1>8. CASE SkipMissing(h)
  <2>1. [j EXCEPT !.targets = Tail(@)].targets = Tail(j.targets)
    BY <1>0 DEF Job
  <2> QED BY <1>8, <2>1 DEF SkipMissing, PipeSet, Listed
<1>9. CASE RetryableFailure(h)
  <2>1. [j EXCEPT !.targets = Tail(@), !.called = @ \cup {PipeTarget(h)}].targets
          = Tail(j.targets)
    BY <1>0 DEF Job
  <2> QED BY <1>9, <2>1 DEF RetryableFailure, PipeSet, Listed
<1>10. \/ PipeSet(h, PipeIdle) \/ \E pc : PipeGoto(h, pc)
       \/ \E kind \in PipeKinds, m \in PipeModels, k \in ApiKeys : PipeArrive(h, kind, m, k)
       \/ AnswerFromCache(h) \/ EngineAnswers(h)
       \/ \E key \in ApiKeys :
            \/ handleEmbeddings(h, key) \/ handleAudioSpeech(h, key)
            \/ handleAudioTranscriptions(h, key) \/ handleImagesGenerations(h, key)
            \/ handleWebSearch(h, key) \/ handleWebFetch(h, key)
       \/ SkipMissing(h) \/ RetryableFailure(h)
  BY DEF PipeHandles, RejectBody, DecodeChat, DecodeMessages, DecodeResponses,
         handleOllamaChat, Decoded, Deny, Admit, MissCache, EngineFails,
         handleStreamingChatCompletion, StreamCut, handleMessages, CountSuccess,
         handleChatCompletions, PipeAnswer, ServiceAnswers, ServiceExhausted
<1> QED BY <1>2, <1>3, <1>4, <1>5, <1>7, <1>8, <1>9, <1>10 DEF PipeSet

Short == \A h \in PipeHandlers : Len(pipe[h].targets) <= Len(ServiceChain)

LEMMA ListedShort ==
  ASSUME NEW r, NEW j \in Job, Len(j.targets) <= Len(ServiceChain), Listed(r, j)
  PROVE  Len(r.targets) <= Len(ServiceChain)
<1>1. /\ j.targets \in Seq(Chain) /\ Len(j.targets) \in Nat
      /\ ServiceChain \in Seq(Chain) /\ Len(ServiceChain) \in Nat
      /\ DOMAIN ServiceChain = 1..Len(ServiceChain)
  BY PipeAssumption DEF Job
<1>2. CASE r.targets \in {<< >>, j.targets, ServiceChain}
  BY <1>1, <1>2
<1>3. ASSUME NEW p \in Chain, r.targets = <<p>> PROVE Len(r.targets) <= Len(ServiceChain)
  <2>1. PICK i \in 1..Len(ServiceChain) : p = ServiceChain[i]
    BY <1>1 DEF Chain, Elements
  <2> QED BY <1>1, <1>3, <2>1
<1>4. CASE j.targets # << >> /\ r.targets = Tail(j.targets)
  <2>1. Len(Tail(j.targets)) = Len(j.targets) - 1
    BY <1>1, <1>4
  <2> QED BY <1>1, <1>4, <2>1
<1> QED BY <1>2, <1>3, <1>4 DEF Listed

LEMMA ShortStep == Short /\ PipeKept /\ [PipeNext]_pipeVars => Short'
<1> SUFFICES ASSUME Short, PipeKept, [PipeNext]_pipeVars PROVE Short'
  OBVIOUS
<1>1. ASSUME NEW h \in PipeHandlers, PipeHandles(h) PROVE Short'
  <2>1. PICK r : pipe' = [pipe EXCEPT ![h] = r] /\ Listed(r, pipe[h])
    BY <1>1, TurnLists
  <2>2. Len(r.targets) <= Len(ServiceChain)
    BY <2>1, ListedShort DEF Short, PipeKept, JobSound
  <2>3. ASSUME NEW o \in PipeHandlers PROVE Len(pipe'[o].targets) <= Len(ServiceChain)
    <3>1. pipe'[o] = IF o = h THEN r ELSE pipe[o]
      BY <2>1 DEF PipeKept
    <3> QED BY <2>2, <3>1 DEF Short
  <2> QED BY <2>3 DEF Short
<1>2. ASSUME NEW new \in SUBSET Chain, ReconfigureRegistry(new) PROVE Short'
  <2>1. ASSUME NEW h \in PipeHandlers PROVE pipe'[h].targets = pipe[h].targets
    <3>1. pipe[h] \in Job
      BY DEF PipeKept, JobSound
    <3> QED BY <1>2, <3>1 DEF ReconfigureRegistry, Job
  <2> QED BY <2>1 DEF Short
<1>3. CASE UNCHANGED pipe
  BY <1>3 DEF Short
<1> QED BY <1>1, <1>2, <1>3
        DEF PipeNext, PipeHandles, CacheExpires, SetKeys, pipeVars

LEMMA PipeKeptTyped == Balanced /\ Short => PipeTypeOK
<1> SUFFICES ASSUME Balanced, Short PROVE PipeTypeOK
  OBVIOUS
<1>1. Cardinality(InFlight) \in Nat
  <2>1. IsFiniteSet(InFlight)
    BY PipeAssumption, FS_Subset DEF InFlight
  <2> QED BY <2>1, FS_CardinalityType
<1>2. /\ metrics \in [total : Nat, success : Nat, error : Nat]
      /\ metrics.total \in Nat /\ metrics.success \in Nat /\ metrics.error \in Nat
      /\ metrics.total <= MaxCounted /\ MaxCounted \in Nat /\ hits \in Nat /\ unseen \in Nat
  BY PipeAssumption DEF Balanced, PipeKept
<1>3. hits \in 0..MaxCounted /\ unseen \in 0..MaxCounted /\ metrics.total \in 0..MaxCounted
  BY <1>1, <1>2 DEF Balanced, MetricsBalance
<1>4. metrics \in [total : 0..MaxCounted, success : Nat, error : Nat]
  BY <1>2, <1>3
<1>5. ASSUME NEW h \in PipeHandlers
      PROVE  pipe[h].pc \in PipeStages /\ pipe[h].kind \in PipeKinds \cup {"none", "service"}
  BY DEF Balanced, PipeKept, JobSound, Job
<1>6. /\ Len(cache) <= CacheSize /\ OneEach(cache)
      /\ keys \in KeySets /\ registered \subseteq Chain
  BY DEF Balanced, PipeKept, CacheSound
<1> QED BY <1>3, <1>4, <1>5, <1>6 DEF PipeTypeOK, Short, PipeStages, OneEach

(* The counters, the cache, the configuration and the handlers keep their  *)
(* types, for any number of handlers, models, keys and policies.           *)
THEOREM PipeTypeCorrect == PipeSpec => []PipeTypeOK
<1>1. PipeInit => Short
  BY PipeAssumption DEF PipeInit, PipeIdle, Short
<1>2. Balanced => PipeKept
  BY DEF Balanced
<1> QED BY <1>1, <1>2, PipeInitial, PipeStep, ShortStep, PipeKeptTyped, PTL DEF PipeSpec

-----------------------------------------------------------------------------
(* The calls of the Google adapters.                                       *)

Token == [account : AccountSet \cup {"none"}, left : 0..Lifetime, live : BOOLEAN]

Numbers == 0..MaxTokens
URLs == 1..2
Ages == 0..1

Call ==
    [pc : {"idle", "resolve", "lookup", "mint", "store", "send", "refused"},
     stream : BOOLEAN, asked : AccountSet \cup {"none"},
     used : AccountSet \cup {"none"}, token : Numbers, known : BOOLEAN,
     url : URLs, again : BOOLEAN, refused : Numbers, failed : BOOLEAN,
     age : Ages]

(* A token that Google has issued, whose number is never used again.       *)
Real(t, tokens) == t \in 1..MaxTokens /\ tokens[t].account \in AccountSet

(* What a token has left when a request carries it that knows its expiry:  *)
(* enough for the URLs that are still to be tried.                         *)
Needed(j) == (IF j.url = 1 THEN 3 ELSE 2) - j.age

CallSure(j, tokens, refreshes) ==
    /\ j.pc \in {"lookup", "mint", "store"} => j.used \in AccountSet
    /\ j.pc \in {"resolve", "lookup"} => j.age = 0
    /\ j.pc = "resolve" => ~j.again
    /\ j.pc = "store" =>
         Real(j.token, tokens) /\ tokens[j.token].left >= Lifetime - j.age
    /\ j.pc = "send" =>
         /\ Real(j.token, tokens)
         /\ j.known => tokens[j.token].left >= Needed(j)
         /\ ~refreshes \/ j.again => j.known
         /\ j.used \in AccountSet
    /\ j.pc = "refused" /\ ~j.stream /\ ~j.failed =>
         Real(j.token, tokens) /\ ~tokens[j.token].live

(* The router's idea of an expiry is at most one tick too late.            *)
CacheSure(entries, tokens) ==
    \A a \in AccountSet :
      entries[a].token # 0 =>
        /\ Real(entries[a].token, tokens)
        /\ entries[a].left <= tokens[entries[a].token].left + 1

GoogleKept ==
    /\ GoogleTypeOK
    /\ Refreshes => \A a \in AccountSet : Real(configToken[a].token, issued)
    /\ CacheSure(tokenCache, issued)
    /\ \A c \in GoogleRequests : CallSure(googleCall[c], issued, Refreshes)

LEMMA GoogleConstants ==
  /\ Lead \in Nat /\ Lead >= 3 /\ Lifetime \in Nat /\ Lifetime > Lead
  /\ MaxTokens \in Nat /\ Len(GoogleAccounts) \in Nat \ {0}
  /\ DOMAIN GoogleAccounts = 1..Len(GoogleAccounts)
  /\ \A i \in 1..Len(GoogleAccounts) : GoogleAccounts[i] \in AccountSet
<1>1. GoogleAccounts \in Seq(AccountSet) /\ GoogleAccounts # << >>
  BY GoogleAssumption
<1>2. Len(GoogleAccounts) \in Nat \ {0} /\ DOMAIN GoogleAccounts = 1..Len(GoogleAccounts)
  BY <1>1
<1> QED BY <1>2, GoogleAssumption DEF AccountSet

(* Tokens only become more, and only cease to live.                        *)
Holds(tokens, later) ==
    \A t \in 1..MaxTokens :
      Real(t, tokens) =>
        /\ Real(t, later) /\ later[t].left = tokens[t].left
        /\ later[t].live => tokens[t].live

LEMMA CallStaysSure ==
  ASSUME NEW tokens, NEW later, Holds(tokens, later), NEW j \in Call, NEW refreshes,
         CallSure(j, tokens, refreshes)
  PROVE  CallSure(j, later, refreshes)
BY DEF CallSure, Holds, Real, Needed

LEMMA CacheStaysSure ==
  ASSUME NEW tokens, NEW later, Holds(tokens, later), NEW entries,
         CacheSure(entries, tokens)
  PROVE  CacheSure(entries, later)
BY DEF CacheSure, Holds, Real

(* The step of a call, apart from what it does to the cache of tokens.     *)
LEMMA CallTurn ==
  ASSUME GoogleKept, NEW c \in GoogleRequests, NEW r \in Call, SetCall(c, r),
         UNCHANGED <<googleAdapter, configToken>>,
         issued' \in [1..MaxTokens -> Token], Holds(issued, issued'),
         tokenCache' \in [AccountSet -> [token : 0..MaxTokens, left : 0..Lifetime]],
         CacheSure(tokenCache', issued'),
         accountIdx' \in 0..Len(GoogleAccounts) - 1,
         CallSure(r, issued', Refreshes)
  PROVE  GoogleKept'
<1>1. /\ googleCall \in [GoogleRequests -> Call]
      /\ googleCall' = [googleCall EXCEPT ![c] = r]
  BY DEF GoogleKept, GoogleTypeOK, SetCall, Call, Numbers, URLs, Ages
<1>2. Refreshes' = Refreshes
  BY DEF Refreshes
<1>3. GoogleTypeOK'
  BY <1>1 DEF GoogleKept, GoogleTypeOK, Token, Call, Numbers, URLs, Ages
<1>4. ASSUME Refreshes, NEW a \in AccountSet PROVE Real(configToken'[a].token, issued')
  BY <1>4 DEF GoogleKept, Holds, Real
<1>5. ASSUME NEW d \in GoogleRequests
      PROVE  CallSure(googleCall'[d], issued', Refreshes)
  <2>1. CASE d = c
    BY <1>1, <2>1
  <2>2. CASE d # c
    <3>1. googleCall'[d] = googleCall[d] /\ googleCall[d] \in Call
      BY <1>1, <2>2
    <3>2. CallSure(googleCall[d], issued, Refreshes)
      BY DEF GoogleKept
    <3> QED BY <3>1, <3>2, CallStaysSure
  <2> QED BY <2>1, <2>2
<1> QED BY <1>2, <1>3, <1>4, <1>5 DEF GoogleKept

(* One that leaves everything but the call alone. *)
LEMMA QuietCall ==
  ASSUME GoogleKept, NEW c \in GoogleRequests, NEW r \in Call, SetCall(c, r),
         UNCHANGED <<googleAdapter, issued, configToken, tokenCache>>,
         accountIdx' \in 0..Len(GoogleAccounts) - 1,
         CallSure(r, issued, Refreshes)
  PROVE  GoogleKept'
<1>1. /\ issued \in [1..MaxTokens -> Token]
      /\ tokenCache \in [AccountSet -> [token : 0..MaxTokens, left : 0..Lifetime]]
      /\ CacheSure(tokenCache, issued)
  BY DEF GoogleKept, GoogleTypeOK, Token
<1>2. Holds(issued, issued)
  BY DEF Holds
<1> QED BY <1>1, <1>2, CallTurn

LEMMA CallState ==
  ASSUME GoogleKept, NEW c \in GoogleRequests
  PROVE  /\ googleCall[c] \in Call /\ CallSure(googleCall[c], issued, Refreshes)
         /\ accountIdx \in 0..Len(GoogleAccounts) - 1
         /\ googleAdapter.urls \in 1..2 /\ Refreshes \in BOOLEAN
         /\ \A a \in AccountSet :
              /\ configToken[a].token \in Numbers /\ configToken[a].known \in BOOLEAN
              /\ tokenCache[a].token \in Numbers /\ tokenCache[a].left \in 0..Lifetime
         /\ \A t \in 1..MaxTokens :
              /\ issued[t] \in Token /\ issued[t].left \in 0..Lifetime
              /\ issued[t].live \in BOOLEAN
BY DEF GoogleKept, GoogleTypeOK, Call, Refreshes, Token, Numbers, URLs, Ages

LEMMA SmallNumbers ==
  /\ 0 \in Numbers /\ 1 \in URLs /\ 2 \in URLs /\ 0 \in Ages /\ 1 \in Ages
  /\ \A t \in 1..MaxTokens : t \in Numbers
BY GoogleConstants DEF Numbers, URLs, Ages

LEMMA NumbersOfCall ==
  ASSUME NEW j \in Call
  PROVE  /\ j.url \in 1..2 /\ j.age \in 0..1 /\ j.token \in Numbers
         /\ Needed(j) \in Int /\ Needed(j) > 0
BY DEF Call, URLs, Ages, Needed

LEMMA CallIdleSure ==
  /\ CallIdle \in Call
  /\ \A tokens, refreshes : CallSure(CallIdle, tokens, refreshes)
BY SmallNumbers DEF CallIdle, Call, CallSure

LEMMA AttemptKeeps ==
  ASSUME GoogleKept, NEW c \in GoogleRequests, NEW a \in AccountSet, NEW stream \in BOOLEAN,
         GoogleAttempt(c, a, stream)
  PROVE  GoogleKept'
<1> DEFINE r == [CallIdle EXCEPT !.pc = "resolve", !.asked = a, !.stream = stream]
<1>1. r \in Call /\ r.pc = "resolve" /\ r.age = 0 /\ ~r.again
  BY SmallNumbers DEF CallIdle, Call
<1> HIDE DEF r
<1>2. CallSure(r, issued, Refreshes)
  BY <1>1 DEF CallSure
<1> QED BY <1>1, <1>2, CallState, QuietCall DEF GoogleAttempt, GoogleShared, r

LEMMA EndKeeps ==
  ASSUME GoogleKept, NEW c \in GoogleRequests, SendSucceeds(c) \/ FailUnauthorized(c)
  PROVE  GoogleKept'
BY CallIdleSure, CallState, QuietCall DEF SendSucceeds, FailUnauthorized, GoogleShared

LEMMA TurnOfAccount ==
  ASSUME GoogleKept, GetGoogleAccount
  PROVE  /\ accountIdx' \in 0..Len(GoogleAccounts) - 1
         /\ GoogleAccounts[accountIdx + 1] \in AccountSet
         /\ MatchedAccount \in AccountSet
BY GoogleConstants DEF GoogleKept, GoogleTypeOK, GetGoogleAccount, MatchedAccount

LEMMA ResolveKeeps ==
  ASSUME GoogleKept, NEW c \in GoogleRequests, resolveGoogleCredentials(c)
  PROVE  GoogleKept'
<1> DEFINE j == googleCall[c]
           a == MatchedAccount
           own == configToken[a]
           pc == IF ShouldRefreshGoogleToken(own) THEN "lookup" ELSE "send"
           r == [j EXCEPT !.used = a, !.token = own.token, !.known = own.known, !.pc = pc]
<1>1. /\ j.pc = "resolve" /\ Refreshes /\ GetGoogleAccount /\ SetCall(c, r)
  BY DEF resolveGoogleCredentials, CallAt
<1>2. /\ a \in AccountSet /\ accountIdx' \in 0..Len(GoogleAccounts) - 1
  BY <1>1, TurnOfAccount
<1> HIDE DEF a
<1>3. /\ j \in Call /\ j.age = 0 /\ ~j.again /\ own.token \in Numbers /\ own.known \in BOOLEAN
      /\ Real(own.token, issued)
  BY <1>1, <1>2, CallState DEF CallSure, GoogleKept
<1>4. \/ pc = "lookup"
      \/ pc = "send" /\ (own.known => issued[own.token].left >= 3)
  <2>1. issued[own.token].left \in 0..Lifetime
    BY <1>3, CallState DEF Real
  <2> QED BY <2>1, GoogleConstants DEF ShouldRefreshGoogleToken
<1> HIDE DEF own, pc
<1>5. /\ r \in Call /\ r.pc = pc /\ r.used = a /\ r.token = own.token
      /\ r.known = own.known /\ r.age = j.age /\ r.again = j.again
      /\ r.url = j.url
  BY <1>2, <1>3, <1>4 DEF Call
<1> HIDE DEF r
<1>6. CallSure(r, issued, Refreshes)
  <2>1. r.pc = "send" /\ r.known => issued[r.token].left >= Needed(r)
    <3>1. j.url \in 1..2 /\ issued[own.token].left \in 0..Lifetime
      BY <1>3, CallState, NumbersOfCall DEF Real
    <3> QED BY <1>3, <1>4, <1>5, <3>1, GoogleConstants DEF Needed
  <2> QED BY <1>1, <1>2, <1>3, <1>4, <1>5, <2>1 DEF CallSure
<1>7. UNCHANGED <<googleAdapter, issued, configToken, tokenCache>>
  BY <1>1 DEF GetGoogleAccount
<1> QED BY <1>1, <1>2, <1>5, <1>6, <1>7, QuietCall DEF r

LEMMA VertexKeeps ==
  ASSUME GoogleKept, NEW c \in GoogleRequests, resolveVertexCredentials(c)
  PROVE  GoogleKept'
<1> DEFINE j == googleCall[c]
           a == GoogleAccounts[accountIdx + 1]
           r == [j EXCEPT !.used = a, !.pc = "lookup"]
<1>1. /\ j.pc = "resolve" /\ GetGoogleAccount /\ SetCall(c, r)
  BY DEF resolveVertexCredentials, CallAt
<1>2. /\ a \in AccountSet /\ accountIdx' \in 0..Len(GoogleAccounts) - 1
  BY <1>1, TurnOfAccount
<1> HIDE DEF a
<1>3. j \in Call /\ j.age = 0
  BY <1>1, CallState DEF CallSure
<1>4. r \in Call /\ r.pc = "lookup" /\ r.used = a /\ r.age = 0
  BY <1>2, <1>3 DEF Call
<1> HIDE DEF r
<1>5. CallSure(r, issued, Refreshes)
  BY <1>2, <1>4 DEF CallSure
<1>6. UNCHANGED <<googleAdapter, issued, configToken, tokenCache>>
  BY <1>1 DEF GetGoogleAccount
<1> QED BY <1>1, <1>2, <1>4, <1>5, <1>6, QuietCall DEF r

(* What the cache still offers has more than two ticks to live, whatever   *)
(* it lost on its way from Google.                                         *)
LEMMA LookupKeeps ==
  ASSUME GoogleKept, NEW c \in GoogleRequests, LookupToken(c)
  PROVE  GoogleKept'
<1> DEFINE j == googleCall[c]
           entry == tokenCache[j.used]
           s == [j EXCEPT !.pc = "send", !.token = entry.token, !.known = TRUE]
           f == [j EXCEPT !.pc = "mint", !.age = 0]
<1>1. /\ j.pc = "lookup" /\ j \in Call /\ j.used \in AccountSet /\ j.age = 0
      /\ UNCHANGED <<googleAdapter, issued, configToken, tokenCache>>
      /\ accountIdx' \in 0..Len(GoogleAccounts) - 1
  BY CallState DEF LookupToken, CallAt, CallSure, GoogleShared
<1>2. CASE TokenIsCached(j.used)
  <2>1. SetCall(c, s)
    BY <1>2 DEF LookupToken
  <2>2. /\ entry.token \in Numbers /\ entry.left \in 0..Lifetime
        /\ Real(entry.token, issued) /\ entry.left <= issued[entry.token].left + 1
        /\ entry.left > Lead
    BY <1>1, <1>2, CallState DEF GoogleKept, CacheSure, TokenIsCached
  <2>3. issued[entry.token].left \in Nat
    BY <2>2, CallState DEF Real
  <2>4. issued[entry.token].left >= 3
    <3> DEFINE left == issued[entry.token].left
    <3>1. left \in Int /\ entry.left \in Int /\ entry.left <= left + 1 /\ entry.left > Lead
      BY <2>2, <2>3
    <3> HIDE DEF left, entry
    <3> QED BY <3>1, GoogleConstants DEF left
  <2> HIDE DEF entry
  <2>5. /\ s \in Call /\ s.pc = "send" /\ s.token = entry.token /\ s.known = TRUE
        /\ s.age = 0 /\ s.url = j.url /\ s.used = j.used
    BY <1>1, <2>2 DEF Call
  <2> HIDE DEF s
  <2>6. CallSure(s, issued, Refreshes)
    <3>1. Needed(s) <= 3 /\ Needed(s) \in Int
      BY <2>5 DEF Needed
    <3> QED BY <1>1, <2>2, <2>3, <2>4, <2>5, <3>1 DEF CallSure
  <2> QED BY <1>1, <2>1, <2>5, <2>6, QuietCall
<1>3. CASE ~TokenIsCached(j.used)
  <2>1. SetCall(c, f)
    BY <1>3 DEF LookupToken
  <2>2. f \in Call /\ f.pc = "mint" /\ f.used = j.used
    BY <1>1, SmallNumbers DEF Call
  <2> HIDE DEF f
  <2>3. CallSure(f, issued, Refreshes)
    BY <1>1, <2>2 DEF CallSure
  <2> QED BY <1>1, <2>1, <2>2, <2>3, QuietCall
<1> QED BY <1>2, <1>3

LEMMA IssueKeeps ==
  ASSUME GoogleKept, NEW c \in GoogleRequests, IssueToken(c)
  PROVE  GoogleKept'
<1> DEFINE j == googleCall[c]
           n == [account |-> j.used, left |-> Lifetime, live |-> TRUE]
<1>1. PICK t \in Unissued :
        /\ j.pc = "mint" /\ issued' = [issued EXCEPT ![t] = n]
        /\ SetCall(c, [j EXCEPT !.pc = "store", !.token = t])
        /\ UNCHANGED <<googleAdapter, configToken, tokenCache, accountIdx>>
  BY DEF IssueToken, CallAt
<1> DEFINE r == [j EXCEPT !.pc = "store", !.token = t]
<1>2. /\ j \in Call /\ j.used \in AccountSet /\ j.age \in 0..1
  BY <1>1, CallState, NumbersOfCall DEF CallSure
<1>3. t \in 1..MaxTokens /\ issued[t] = NoGoogleToken /\ ~Real(t, issued)
  BY GoogleAssumption DEF Unissued, NoGoogleToken, Real
<1>4. n \in Token /\ n.account \in AccountSet /\ n.left = Lifetime
  BY <1>2, GoogleConstants DEF Token
<1> HIDE DEF n
<1>5. /\ issued' \in [1..MaxTokens -> Token] /\ issued'[t] = n
      /\ \A s \in 1..MaxTokens : s # t => issued'[s] = issued[s]
  BY <1>1, <1>3, <1>4 DEF GoogleKept, GoogleTypeOK, Token
<1>6. Holds(issued, issued')
  BY <1>3, <1>5 DEF Holds, Real
<1>7. /\ r \in Call /\ r.pc = "store" /\ r.token = t /\ r.used = j.used
      /\ r.age = j.age
  BY <1>2, <1>3, SmallNumbers DEF Call
<1> HIDE DEF r
<1>8. CallSure(r, issued', Refreshes)
  <2>1. Real(t, issued')
    BY <1>3, <1>4, <1>5 DEF Real
  <2>2. issued'[t].left >= Lifetime - r.age
    BY <1>2, <1>4, <1>5, <1>7, GoogleConstants
  <2> QED BY <1>2, <1>7, <2>1, <2>2 DEF CallSure
<1>9. /\ tokenCache' \in [AccountSet -> [token : 0..MaxTokens, left : 0..Lifetime]]
      /\ accountIdx' \in 0..Len(GoogleAccounts) - 1
  BY <1>1 DEF GoogleKept, GoogleTypeOK
<1>10. CacheSure(tokenCache', issued')
  BY <1>1, <1>6, CacheStaysSure DEF GoogleKept
<1> QED BY <1>1, <1>5, <1>6, <1>7, <1>8, <1>9, <1>10, CallTurn DEF r

LEMMA StoreKeeps ==
  ASSUME GoogleKept, NEW c \in GoogleRequests, StoreToken(c)
  PROVE  GoogleKept'
<1> DEFINE j == googleCall[c]
           left == IF Refreshes THEN Lifetime ELSE Lifetime - j.age
           e == [token |-> j.token, left |-> left]
           r == [j EXCEPT !.pc = "send", !.known = TRUE, !.age = 0]
<1>1. /\ j.pc = "store" /\ tokenCache' = [tokenCache EXCEPT ![j.used] = e]
      /\ SetCall(c, r)
      /\ UNCHANGED <<googleAdapter, issued, configToken, accountIdx>>
  BY DEF StoreToken, CallAt
<1>2. /\ j \in Call /\ j.used \in AccountSet /\ j.age \in 0..1 /\ j.url \in 1..2
      /\ Real(j.token, issued) /\ issued[j.token].left >= Lifetime - j.age
      /\ j.token \in Numbers /\ issued[j.token].left \in 0..Lifetime
  <2>1. /\ j \in Call /\ j.used \in AccountSet
        /\ Real(j.token, issued) /\ issued[j.token].left >= Lifetime - j.age
    BY <1>1, CallState DEF CallSure
  <2>2. j.token \in 1..MaxTokens
    BY <2>1 DEF Real
  <2> QED BY <2>1, <2>2, CallState, NumbersOfCall
<1>3. /\ left \in 0..Lifetime /\ left <= issued[j.token].left + 1
      /\ issued[j.token].left >= 3
  BY <1>2, GoogleConstants
<1> HIDE DEF left
<1>4. /\ e \in [token : 0..MaxTokens, left : 0..Lifetime] /\ e.token = j.token
      /\ e.left = left
  BY <1>2, <1>3 DEF Numbers
<1> HIDE DEF e
<1>5. /\ tokenCache' \in [AccountSet -> [token : 0..MaxTokens, left : 0..Lifetime]]
      /\ tokenCache'[j.used] = e
      /\ \A a \in AccountSet : a # j.used => tokenCache'[a] = tokenCache[a]
  BY <1>1, <1>2, <1>4 DEF GoogleKept, GoogleTypeOK
<1>6. CacheSure(tokenCache', issued')
  BY <1>1, <1>2, <1>3, <1>4, <1>5 DEF CacheSure, GoogleKept
<1>7. /\ r \in Call /\ r.pc = "send" /\ r.token = j.token /\ r.known = TRUE
      /\ r.age = 0 /\ r.url = j.url /\ r.used = j.used
  BY <1>2, SmallNumbers DEF Call
<1> HIDE DEF r
<1>8. CallSure(r, issued, Refreshes)
  <2>1. Needed(r) <= 3 /\ Needed(r) \in Int /\ issued[j.token].left \in Int
    BY <1>2, <1>7 DEF Needed
  <2> QED BY <1>2, <1>3, <1>7, <2>1 DEF CallSure
<1>9. /\ issued' \in [1..MaxTokens -> Token] /\ Holds(issued, issued')
      /\ accountIdx' \in 0..Len(GoogleAccounts) - 1 /\ issued' = issued
  BY <1>1 DEF GoogleKept, GoogleTypeOK, Token, Holds
<1> QED BY <1>1, <1>5, <1>6, <1>7, <1>8, <1>9, CallTurn DEF r

LEMMA RefreshFailsKeeps ==
  ASSUME GoogleKept, NEW c \in GoogleRequests, RefreshFails(c)
  PROVE  GoogleKept'
<1> DEFINE j == googleCall[c]
           r == [j EXCEPT !.pc = "refused", !.failed = TRUE, !.age = 0]
<1>1. /\ j \in Call /\ UNCHANGED <<googleAdapter, issued, configToken, tokenCache>>
      /\ accountIdx' \in 0..Len(GoogleAccounts) - 1
      /\ SetCall(c, IF j.again THEN r ELSE CallIdle)
  BY CallState DEF RefreshFails, GoogleShared
<1>2. r \in Call /\ r.pc = "refused" /\ r.failed = TRUE
  BY <1>1, SmallNumbers DEF Call
<1> HIDE DEF r
<1>3. CallSure(r, issued, Refreshes)
  BY <1>2 DEF CallSure
<1>4. CASE j.again
  BY <1>1, <1>2, <1>3, <1>4, QuietCall
<1>5. CASE ~j.again
  BY <1>1, <1>5, CallIdleSure, QuietCall
<1> QED BY <1>4, <1>5

LEMMA NextURLKeeps ==
  ASSUME GoogleKept, NEW c \in GoogleRequests, TryNextURL(c)
  PROVE  GoogleKept'
<1> DEFINE j == googleCall[c]
           r == [j EXCEPT !.url = @ + 1, !.again = FALSE, !.age = 0]
<1>1. /\ j \in Call /\ UNCHANGED <<googleAdapter, issued, configToken, tokenCache>>
      /\ accountIdx' \in 0..Len(GoogleAccounts) - 1
      /\ SetCall(c, IF HasNextURL(c) THEN r ELSE CallIdle)
      /\ j.pc = "send" /\ CallSure(j, issued, Refreshes)
  BY CallState DEF TryNextURL, GoogleShared, CallAt
<1>2. CASE HasNextURL(c)
  <2>1. j.url = 1 /\ j.age \in 0..1
    BY <1>1, <1>2, CallState, NumbersOfCall DEF HasNextURL
  <2>2. /\ r \in Call /\ r.pc = "send" /\ r.url = 2 /\ r.again = FALSE /\ r.age = 0
        /\ r.token = j.token /\ r.known = j.known /\ r.used = j.used
    <3>1. r = [j EXCEPT !.url = 2, !.again = FALSE, !.age = 0]
      BY <1>1, <2>1 DEF Call
    <3> QED BY <1>1, <3>1, SmallNumbers DEF Call
  <2> HIDE DEF r
  <2>3. issued[j.token].left \in Nat
    BY <1>1, CallState DEF CallSure, Real
  <2>4. CallSure(r, issued, Refreshes)
    <3>1. Needed(r) <= Needed(j) /\ Needed(r) \in Int /\ Needed(j) \in Int
      BY <2>1, <2>2 DEF Needed
    <3>2. /\ Real(j.token, issued) /\ (j.known => issued[j.token].left >= Needed(j))
          /\ (~Refreshes => j.known) /\ j.used \in AccountSet
      BY <1>1 DEF CallSure
    <3>3. j.known => issued[j.token].left >= Needed(r)
      BY <2>3, <3>1, <3>2
    <3> QED BY <2>2, <3>2, <3>3 DEF CallSure
  <2> QED BY <1>1, <1>2, <2>2, <2>4, QuietCall
<1>3. CASE ~HasNextURL(c)
  BY <1>1, <1>3, CallIdleSure, QuietCall
<1> QED BY <1>2, <1>3

(* After a 401 the call asks for another token, or fails; without a stream *)
(* it fails only with a token that was no longer alive.                    *)
LEMMA UnauthorizedKeeps ==
  ASSUME GoogleKept, NEW c \in GoogleRequests, RefreshOn401(c)
  PROVE  GoogleKept'
<1> DEFINE j == googleCall[c]
           retries == Refreshes /\ ~j.stream /\ ~j.again
           pc == IF retries THEN "lookup" ELSE "refused"
           r == [j EXCEPT !.pc = pc, !.again = TRUE, !.refused = j.token, !.age = 0]
<1>1. /\ j \in Call /\ UNCHANGED <<googleAdapter, issued, configToken, tokenCache>>
      /\ accountIdx' \in 0..Len(GoogleAccounts) - 1 /\ SetCall(c, r)
      /\ j.pc = "send" /\ CallSure(j, issued, Refreshes)
      /\ ~GoogleAccepts(j.token)
  BY CallState DEF RefreshOn401, GoogleShared, CallAt
<1>2. /\ pc \in {"lookup", "refused"}
      /\ pc = "refused" /\ ~j.stream => ~Refreshes \/ j.again
      /\ pc = "lookup" => Refreshes
  BY CallState
<1> HIDE DEF pc
<1>3. /\ r \in Call /\ r.pc = pc /\ r.token = j.token /\ r.stream = j.stream
      /\ r.used = j.used /\ r.age = 0
  BY <1>1, <1>2, SmallNumbers DEF Call
<1> HIDE DEF r
<1>4. ASSUME pc = "refused", ~j.stream
      PROVE  Real(j.token, issued) /\ ~issued[j.token].live
  <2>1. /\ Real(j.token, issued) /\ issued[j.token].left >= Needed(j)
    BY <1>1, <1>2, <1>4 DEF CallSure
  <2>2. Needed(j) > 0 /\ Needed(j) \in Int
    BY <1>1, NumbersOfCall
  <2>3. issued[j.token].left \in Nat
    BY <2>1, CallState DEF Real
  <2> QED BY <1>1, <2>1, <2>2, <2>3 DEF GoogleAccepts
<1>5. pc = "lookup" => r.used \in AccountSet
  BY <1>1, <1>2, <1>3 DEF CallSure
<1>6. CallSure(r, issued, Refreshes)
  BY <1>2, <1>3, <1>4, <1>5 DEF CallSure
<1> QED BY <1>1, <1>3, <1>6, QuietCall DEF r

(* A tick: a call that goes on has waited for less than one until now.     *)
LEMMA TickKeeps ==
  ASSUME GoogleKept, ClockTick PROVE GoogleKept'
<1> DEFINE It(t) == [issued[t] EXCEPT !.left = Sooner(@)]
           Tt(a) == [tokenCache[a] EXCEPT !.left = Sooner(@)]
           Ct(c) == IF CallAt(c, "idle") THEN CallIdle ELSE [googleCall[c] EXCEPT !.age = 1]
<1>1. /\ issued' = [t \in 1..MaxTokens |-> It(t)]
      /\ tokenCache' = [a \in AccountSet |-> Tt(a)]
      /\ googleCall' = [c \in GoogleRequests |-> Ct(c)]
      /\ UNCHANGED <<googleAdapter, configToken, accountIdx>>
  BY DEF ClockTick
<1>2. ASSUME NEW t \in 1..MaxTokens
      PROVE  /\ It(t) \in Token /\ It(t).account = issued[t].account
             /\ It(t).live = issued[t].live
             /\ It(t).left = Sooner(issued[t].left)
  <2>1. issued[t] \in Token /\ Sooner(issued[t].left) \in 0..Lifetime
    <3>1. issued[t] \in Token /\ issued[t].left \in 0..Lifetime
      BY DEF GoogleKept, GoogleTypeOK, Token
    <3> QED BY <3>1, GoogleConstants DEF Sooner
  <2> QED BY <2>1 DEF Token
<1>3. ASSUME NEW a \in AccountSet
      PROVE  /\ Tt(a) \in [token : 0..MaxTokens, left : 0..Lifetime]
             /\ Tt(a).token = tokenCache[a].token
             /\ Tt(a).left = Sooner(tokenCache[a].left)
  <2>1. /\ tokenCache[a] \in [token : 0..MaxTokens, left : 0..Lifetime]
        /\ Sooner(tokenCache[a].left) \in 0..Lifetime
    BY GoogleConstants DEF Sooner, GoogleKept, GoogleTypeOK
  <2> QED BY <2>1
<1> HIDE DEF It, Tt
<1>4. /\ issued' \in [1..MaxTokens -> Token]
      /\ tokenCache' \in [AccountSet -> [token : 0..MaxTokens, left : 0..Lifetime]]
      /\ \A t \in 1..MaxTokens :
           /\ issued'[t].account = issued[t].account
           /\ issued'[t].live = issued[t].live
           /\ issued'[t].left = Sooner(issued[t].left)
      /\ \A a \in AccountSet :
           /\ tokenCache'[a].token = tokenCache[a].token
           /\ tokenCache'[a].left = Sooner(tokenCache[a].left)
  BY <1>1, <1>2, <1>3
<1>5. \A t : Real(t, issued) => Real(t, issued')
  BY <1>4 DEF Real
<1>6. CacheSure(tokenCache', issued')
  <2> SUFFICES ASSUME NEW a \in AccountSet, tokenCache'[a].token # 0
               PROVE  /\ Real(tokenCache'[a].token, issued')
                      /\ tokenCache'[a].left <= issued'[tokenCache'[a].token].left + 1
    BY DEF CacheSure
  <2> DEFINE t == tokenCache[a].token
  <2>1. /\ Real(t, issued) /\ tokenCache[a].left <= issued[t].left + 1
        /\ tokenCache'[a].token = t
    BY <1>4 DEF GoogleKept, CacheSure
  <2>2. t \in 1..MaxTokens
    BY <2>1 DEF Real
  <2> HIDE DEF t
  <2>3. issued[t].left \in 0..Lifetime /\ tokenCache[a].left \in 0..Lifetime
    BY <2>2 DEF GoogleKept, GoogleTypeOK
  <2>4. /\ issued'[t].left = Sooner(issued[t].left)
        /\ tokenCache'[a].left = Sooner(tokenCache[a].left)
    BY <1>4, <2>2
  <2>5. Sooner(tokenCache[a].left) <= Sooner(issued[t].left) + 1
    <3> DEFINE earlier == tokenCache[a].left
               y == issued[t].left
    <3>1. earlier \in Nat /\ y \in Nat /\ earlier <= y + 1
      BY <2>1, <2>3, GoogleConstants
    <3> HIDE DEF earlier, y
    <3>2. Sooner(earlier) <= Sooner(y) + 1
      BY <3>1 DEF Sooner
    <3> QED BY <3>2 DEF earlier, y
  <2> QED BY <1>5, <2>1, <2>4, <2>5
<1>7. Refreshes' = Refreshes
  BY <1>1 DEF Refreshes
<1>8. ASSUME NEW c \in GoogleRequests
      PROVE  Ct(c) \in Call /\ CallSure(Ct(c), issued', Refreshes)
  <2> DEFINE j == googleCall[c]
             r == [j EXCEPT !.age = 1]
  <2>1. j \in Call /\ CallSure(j, issued, Refreshes)
    BY <1>8, CallState
  <2>2. CASE CallAt(c, "idle")
    BY <2>2, CallIdleSure
  <2>3. CASE ~CallAt(c, "idle")
    <3>1. j.pc \in {"mint", "store", "send"} /\ j.age = 0
      BY <1>8, <2>3 DEF ClockTick
    <3>2. /\ r \in Call /\ r.pc = j.pc /\ r.used = j.used /\ r.token = j.token
          /\ r.known = j.known /\ r.url = j.url /\ r.again = j.again /\ r.age = 1
      BY <2>1, SmallNumbers DEF Call
    <3>7. Ct(c) = r
      BY <2>3
    <3> HIDE DEF r, Ct
    <3> SUFFICES CallSure(r, issued', Refreshes)
      BY <3>2, <3>7
    <3>3. ASSUME Real(j.token, issued), NEW n \in Int, issued[j.token].left >= n
          PROVE  issued'[j.token].left >= n - 1
      <4>1. j.token \in 1..MaxTokens
        BY <3>3 DEF Real
      <4>2. issued[j.token].left \in 0..Lifetime
        BY <4>1 DEF GoogleKept, GoogleTypeOK
      <4>3. issued'[j.token].left = Sooner(issued[j.token].left)
        BY <1>4, <4>1
      <4> QED BY <3>3, <4>2, <4>3, GoogleConstants DEF Sooner
    <3>4. CASE j.pc = "mint"
      BY <2>1, <3>2, <3>4 DEF CallSure
    <3>5. CASE j.pc = "store"
      <4>1. /\ Real(j.token, issued) /\ issued[j.token].left >= Lifetime - 0
            /\ j.used \in AccountSet
        BY <2>1, <3>1, <3>5 DEF CallSure
      <4>2. Lifetime - 0 = Lifetime /\ Lifetime \in Int
        BY GoogleConstants
      <4>3. issued'[j.token].left >= Lifetime - 1
        BY <3>3, <4>1, <4>2
      <4> QED BY <1>5, <3>2, <3>5, <4>1, <4>3 DEF CallSure
    <3>6. CASE j.pc = "send"
      <4>1. /\ Real(j.token, issued) /\ (j.known => issued[j.token].left >= Needed(j))
            /\ (~Refreshes \/ j.again => j.known) /\ j.used \in AccountSet
        BY <2>1, <3>6 DEF CallSure
      <4>2. Needed(j) \in Int /\ Needed(r) = Needed(j) - 1
        BY <3>1, <3>2 DEF Needed
      <4>3. j.known => issued'[j.token].left >= Needed(r)
        BY <3>3, <4>1, <4>2
      <4> QED BY <1>5, <3>2, <3>6, <4>1, <4>3 DEF CallSure
    <3> QED BY <3>1, <3>4, <3>5, <3>6
  <2> QED BY <2>2, <2>3
<1> HIDE DEF Ct
<1>9. /\ googleCall' \in [GoogleRequests -> Call]
      /\ \A c \in GoogleRequests : CallSure(googleCall'[c], issued', Refreshes)
  BY <1>1, <1>8
<1>10. GoogleTypeOK'
  BY <1>1, <1>4, <1>9 DEF GoogleKept, GoogleTypeOK, Token, Call, Numbers, URLs, Ages
<1>11. Refreshes => \A a \in AccountSet : Real(configToken'[a].token, issued')
  BY <1>1, <1>5 DEF GoogleKept
<1> QED BY <1>6, <1>7, <1>9, <1>10, <1>11 DEF GoogleKept

LEMMA RevokeKeeps ==
  ASSUME GoogleKept, NEW t \in 1..MaxTokens, Revoke(t) PROVE GoogleKept'
<1> DEFINE n == [issued[t] EXCEPT !.live = FALSE]
<1>1. /\ issued' = [issued EXCEPT ![t] = n]
      /\ UNCHANGED <<googleAdapter, configToken, tokenCache, accountIdx, googleCall>>
      /\ issued \in [1..MaxTokens -> Token]
  BY DEF Revoke, GoogleKept, GoogleTypeOK, Token
<1>2. /\ n \in Token /\ n.account = issued[t].account /\ n.left = issued[t].left
      /\ n.live = FALSE
  BY <1>1 DEF Token
<1> HIDE DEF n
<1>3. /\ issued' \in [1..MaxTokens -> Token] /\ issued'[t] = n
      /\ \A s \in 1..MaxTokens : s # t => issued'[s] = issued[s]
  BY <1>1, <1>2
<1>4. Holds(issued, issued')
  BY <1>2, <1>3 DEF Holds, Real
<1>5. GoogleTypeOK'
  BY <1>1, <1>3 DEF GoogleKept, GoogleTypeOK, Token
<1>6. CacheSure(tokenCache', issued')
  BY <1>1, <1>4, CacheStaysSure DEF GoogleKept
<1>7. Refreshes' = Refreshes
  BY <1>1 DEF Refreshes
<1>8. ASSUME NEW c \in GoogleRequests PROVE CallSure(googleCall'[c], issued', Refreshes)
  BY <1>1, <1>4, CallState, CallStaysSure
<1>9. Refreshes => \A a \in AccountSet : Real(configToken'[a].token, issued')
  BY <1>1, <1>4 DEF GoogleKept, Holds, Real
<1> QED BY <1>5, <1>6, <1>7, <1>8, <1>9 DEF GoogleKept

LEMMA GoogleStart == GoogleInit => GoogleKept
<1> SUFFICES ASSUME GoogleInit PROVE GoogleKept
  OBVIOUS
<1> DEFINE n == Len(GoogleAccounts)
           Spot(a) == CHOOSE t \in DOMAIN GoogleAccounts : GoogleAccounts[t] = a
<1>1. /\ googleAdapter \in NewGoogleAdapters
      /\ tokenCache = [a \in AccountSet |-> NotCached] /\ accountIdx = 0
      /\ googleCall = [c \in GoogleRequests |-> CallIdle]
      /\ issued = [t \in 1..MaxTokens |->
           IF t <= n /\ Refreshes
           THEN [account |-> GoogleAccounts[t], left |-> Lifetime, live |-> TRUE]
           ELSE NoGoogleToken]
  BY DEF GoogleInit, Refreshes
<1>2. PICK known \in BOOLEAN :
        configToken = [a \in AccountSet |->
           IF ~Refreshes THEN [token |-> 0, known |-> FALSE]
           ELSE [token |-> Spot(a), known |-> known]]
  BY DEF GoogleInit, Refreshes
<1>3. n \in Nat \ {0} /\ n <= MaxTokens /\ MaxTokens \in Nat /\ DOMAIN GoogleAccounts = 1..n
      /\ \A i \in 1..n : GoogleAccounts[i] \in AccountSet
  BY GoogleConstants, GoogleAssumption
<1>4. ASSUME NEW a \in AccountSet PROVE Spot(a) \in 1..n
  <2>1. \E t \in DOMAIN GoogleAccounts : GoogleAccounts[t] = a
    BY DEF AccountSet
  <2>2. Spot(a) \in DOMAIN GoogleAccounts
    BY <2>1
  <2> QED BY <1>3, <2>2
<1> HIDE DEF n, Spot
<1>5. /\ issued \in [1..MaxTokens -> Token]
      /\ Refreshes => \A t \in 1..n : Real(t, issued)
  <2>1. ASSUME NEW t \in 1..MaxTokens
        PROVE  /\ issued[t] \in Token
               /\ Refreshes /\ t \in 1..n => issued[t].account \in AccountSet
    <3>1. CASE t <= n /\ Refreshes
      <4>1. /\ issued[t] = [account |-> GoogleAccounts[t], left |-> Lifetime, live |-> TRUE]
            /\ GoogleAccounts[t] \in AccountSet
        BY <1>1, <1>3, <3>1
      <4> QED BY <4>1, GoogleConstants DEF Token
    <3>2. CASE ~(t <= n /\ Refreshes)
      BY <1>1, <3>2, GoogleConstants DEF Token, NoGoogleToken
    <3> QED BY <3>1, <3>2
  <2>2. 1..n \subseteq 1..MaxTokens
    BY <1>3
  <2>3. issued \in [1..MaxTokens -> Token]
    BY <1>1, <2>1
  <2> QED BY <2>1, <2>2, <2>3 DEF Real
<1>6. /\ configToken \in [AccountSet -> [token : 0..MaxTokens, known : BOOLEAN]]
      /\ Refreshes => \A a \in AccountSet : configToken[a].token \in 1..n
  <2>1. ASSUME NEW a \in AccountSet
        PROVE  /\ configToken[a] \in [token : 0..MaxTokens, known : BOOLEAN]
               /\ Refreshes => configToken[a].token \in 1..n
    <3>1. Spot(a) \in 1..n /\ Spot(a) \in 0..MaxTokens /\ 0 \in 0..MaxTokens
      BY <1>3, <1>4
    <3> QED BY <1>2, <3>1
  <2> QED BY <1>2, <2>1
<1>7. GoogleTypeOK
  <2>1. /\ googleCall \in [GoogleRequests -> Call] /\ accountIdx \in 0..Len(GoogleAccounts) - 1
        /\ tokenCache \in [AccountSet -> [token : 0..MaxTokens, left : 0..Lifetime]]
    BY <1>1, CallIdleSure, GoogleConstants DEF NotCached
  <2>2. googleAdapter \in [name : {"gemini-cli", "antigravity", "vertex"}, urls : 1..2]
    BY <1>1 DEF NewGoogleAdapters
  <2> QED BY <1>5, <1>6, <2>1, <2>2 DEF GoogleTypeOK, Token, Call, Numbers, URLs, Ages
<1>8. CacheSure(tokenCache, issued)
  BY <1>1 DEF CacheSure, NotCached
<1> QED BY <1>1, <1>5, <1>6, <1>7, <1>8, CallIdleSure DEF GoogleKept

LEMMA GoogleStepKeeps == GoogleKept /\ [GoogleNext]_googleVars => GoogleKept'
<1> SUFFICES ASSUME GoogleKept, [GoogleNext]_googleVars PROVE GoogleKept'
  OBVIOUS
<1>1. ASSUME NEW c \in GoogleRequests, GoogleStep(c) PROVE GoogleKept'
  BY <1>1, AttemptKeeps, ResolveKeeps, VertexKeeps, LookupKeeps, IssueKeeps, StoreKeeps,
     RefreshFailsKeeps, EndKeeps, NextURLKeeps, UnauthorizedKeeps DEF GoogleStep
<1>2. CASE ClockTick
  BY <1>2, TickKeeps
<1>3. ASSUME NEW t \in 1..MaxTokens, Revoke(t) PROVE GoogleKept'
  BY <1>3, RevokeKeeps
<1>4. CASE UNCHANGED googleVars
  BY <1>4 DEF googleVars, GoogleKept, GoogleTypeOK, Refreshes
<1> QED BY <1>1, <1>2, <1>3, <1>4 DEF GoogleNext

LEMMA GoogleInvariant == GoogleSpec => []GoogleKept
BY GoogleStart, GoogleStepKeeps, PTL DEF GoogleSpec

(* Every reachable state of the adapters' tokens and calls is well typed.  *)
THEOREM GoogleTypeCorrect == GoogleSpec => []GoogleTypeOK
<1>1. GoogleKept => GoogleTypeOK
  BY DEF GoogleKept
<1> QED BY <1>1, GoogleInvariant, PTL

(* A request never carries a token after an expiry that the router knew of,*)
(* however long tokens live and whatever the lead beyond three ticks.      *)
THEOREM RequestsCarryLiveTokens == GoogleSpec => []KnownTokensAreLive
<1>1. ASSUME GoogleKept, NEW c \in GoogleRequests, CallAt(c, "send"), googleCall[c].known
      PROVE  issued[googleCall[c].token].left > 0
  <2> DEFINE j == googleCall[c]
  <2>1. /\ j \in Call /\ Real(j.token, issued) /\ issued[j.token].left >= Needed(j)
    BY <1>1, CallState DEF CallSure, CallAt
  <2>2. Needed(j) > 0 /\ Needed(j) \in Int
    BY <2>1, NumbersOfCall
  <2>3. issued[j.token].left \in Int
    BY <1>1, <2>1, CallState DEF Real
  <2> QED BY <2>1, <2>2, <2>3
<1>2. GoogleKept => KnownTokensAreLive
  BY <1>1 DEF KnownTokensAreLive
<1> QED BY <1>2, GoogleInvariant, PTL

(* A call that is not a stream fails as unauthorized only when its token   *)
(* was withdrawn or no new one was to be had, never because it had run out.*)
THEOREM CallsOutliveTokens == GoogleSpec => []ExpiryIsNotSeen
<1>1. GoogleKept => ExpiryIsNotSeen
  BY DEF GoogleKept, CallSure, CallAt, ExpiryIsNotSeen
<1> QED BY <1>1, GoogleInvariant, PTL

-----------------------------------------------------------------------------
(* The cloud server's table, for any uploads, accounts and handlers.       *)

LEMMA InsertedAccount ==
  ASSUME NEW s \in Seq(CloudAccounts), NEW a \in CloudAccounts
  PROVE  LET t == SelectInOrder(s, a) IN
         t \in Seq(CloudAccounts) /\ Elements(t) \subseteq Elements(s) \cup {a}
<1> DEFINE n == Cardinality(NotAfter(s, a)) + 1
           u == SubSeq(s, 1, n - 1)
           v == SubSeq(s, n, Len(s))
           E == Elements(s) \cup {a}
<1>1. Len(s) \in Nat /\ DOMAIN s = 1..Len(s)
  OBVIOUS
<1>2. n \in 1..(Len(s) + 1)
  <2>1. IsFiniteSet(1..Len(s)) /\ Cardinality(1..Len(s)) = Len(s)
    BY <1>1, FS_Interval
  <2>2. NotAfter(s, a) \subseteq 1..Len(s)
    BY <1>1 DEF NotAfter
  <2>3. IsFiniteSet(NotAfter(s, a)) /\ Cardinality(NotAfter(s, a)) <= Len(s)
    BY <2>1, <2>2, FS_Subset
  <2>4. Cardinality(NotAfter(s, a)) \in Nat
    BY <2>3, FS_CardinalityType
  <2> QED BY <1>1, <2>3, <2>4
<1> HIDE DEF n
<1>3. \A i \in 1..Len(s) : s[i] \in Elements(s) /\ s[i] \in CloudAccounts
  BY <1>1, ElementOfSeq DEF Elements
<1>4. E \subseteq CloudAccounts
  BY <1>1, <1>3 DEF Elements
<1>5. u \in Seq(E)
  <2>1. 1 \in Int /\ n - 1 \in Int /\ \A i \in 1..(n - 1) : s[i] \in E
    BY <1>1, <1>2, <1>3
  <2> QED BY <2>1, SubSeqProperties
<1>6. v \in Seq(E)
  <2>1. n \in Int /\ Len(s) \in Int /\ \A i \in n..Len(s) : s[i] \in E
    BY <1>1, <1>2, <1>3
  <2> QED BY <2>1, SubSeqProperties
<1>7. SelectInOrder(s, a) = u \o <<a>> \o v
  BY DEF SelectInOrder, InsertAt, n
<1> HIDE DEF u, v, E
<1>8. <<a>> \in Seq(E)
  BY DEF E
<1>9. u \o <<a>> \in Seq(E)
  BY <1>5, <1>8, ConcatProperties
<1>10. SelectInOrder(s, a) \in Seq(E)
  BY <1>6, <1>7, <1>9, ConcatProperties
<1> DEFINE t == SelectInOrder(s, a)
<1> HIDE DEF t
<1>11. t \in Seq(E)
  BY <1>10 DEF t
<1>12. Elements(t) \subseteq E
  BY <1>11, ElementOfSeq DEF Elements
<1>13. t \in Seq(CloudAccounts)
  BY <1>4, <1>11, SeqMonotonic
<1> QED BY <1>12, <1>13 DEF t, E

(* What a handler reads is in the map that it took when it began, and was  *)
(* an account when it was selected; the map it saves is one of the server's.*)
ReadsOn(j) ==
    \/ j.pc \in {"select", "try", "refresh", "apply", "send"}
    \/ j.pc \in {"save", "write"} /\ j.next \in {"send", "try"}

ReadsHead(j) ==
    \/ j.pc \in {"refresh", "apply", "send"}
    \/ j.pc \in {"save", "write"} /\ j.next = "send"

JobFits(j, maps) ==
    /\ ReadsOn(j) =>
         /\ j.object \in DOMAIN maps
         /\ \A a \in Elements(j.list) : maps[j.object].accounts[a] \in CloudAccount
    /\ ReadsHead(j) => j.list # << >>
    /\ j.pc = "apply" => j.fresh \in CloudAccount
    /\ j.pc = "save" => j.saves \in DOMAIN maps
    /\ j.pc = "write" => j.image \in CloudData

(* The saves that are pending are of the current map, ... *)
SavesOfCurrent ==
    \A h \in CloudHandlers :
      /\ cloudJob[h].pc \in {"save", "write"} => synced # 0
      /\ cloudJob[h].pc = "save" => cloudJob[h].saves = synced
      /\ cloudJob[h].pc = "delete" => synced = 0

(* ... the newest text is what memory is, unless a newer one will follow,  *)
(* and so is the table once there is nothing to follow.                    *)
NewestIsCurrent ==
    (Encoded # {} /\ \A h \in CloudHandlers : cloudJob[h].pc # "save") =>
      \E h \in latest : /\ cloudJob[h].pc = "write"
                         /\ Timeless(cloudJob[h].image) = Timeless(objects[synced])

SavesAgree == ~lapse => SavesOfCurrent /\ NewestIsCurrent /\ TableAgrees

CloudKept ==
    /\ plan \in Seq(CloudUpload)
    /\ objects \in Seq(CloudData)
    /\ synced \in {0} \cup DOMAIN objects
    /\ stored # NoData => stored \in CloudData
    /\ cloudJob \in [CloudHandlers -> CloudJob]
    /\ latest \in SUBSET CloudHandlers
    /\ lapse \in BOOLEAN
    /\ \A h \in CloudHandlers : JobFits(cloudJob[h], objects)
    /\ SavesAgree

(* Maps are added, and accounts in them change but stay.                   *)
Grown(maps, later) ==
    /\ DOMAIN maps \subseteq DOMAIN later
    /\ \A i \in DOMAIN maps, a \in CloudAccounts :
         maps[i].accounts[a] \in CloudAccount => later[i].accounts[a] \in CloudAccount

LEMMA FitsGrown ==
  ASSUME NEW maps, NEW later, Grown(maps, later), NEW j \in CloudJob, JobFits(j, maps)
  PROVE  JobFits(j, later)
<1>1. Elements(j.list) \subseteq CloudAccounts
  <2>1. j.list \in Seq(CloudAccounts)
    BY DEF CloudJob
  <2> QED BY <2>1, ElementOfSeq DEF Elements
<1> QED BY <1>1 DEF JobFits, Grown

LEMMA CloudIdleFits == CloudIdle \in CloudJob /\ \A maps : JobFits(CloudIdle, maps)
<1>1. << >> \in Seq(CloudAccounts) /\ 0 \in Nat
  OBVIOUS
<1>2. CloudIdle \in CloudJob
  BY <1>1 DEF CloudIdle, CloudJob
<1> QED BY <1>2 DEF CloudIdle, JobFits, ReadsOn, ReadsHead

LEMMA CloudState ==
  ASSUME CloudKept
  PROVE  /\ Len(objects) \in Nat /\ DOMAIN objects = 1..Len(objects)
         /\ \A i \in DOMAIN objects : objects[i] \in CloudData
         /\ \A h \in CloudHandlers : cloudJob[h] \in CloudJob /\ JobFits(cloudJob[h], objects)
<1>1. objects \in Seq(CloudData)
  BY DEF CloudKept
<1>2. Len(objects) \in Nat /\ DOMAIN objects = 1..Len(objects)
  BY <1>1
<1>3. \A i \in DOMAIN objects : objects[i] \in CloudData
  BY <1>1, <1>2, ElementOfSeq
<1> QED BY <1>2, <1>3 DEF CloudKept

(* A step of a handler that saves and writes nothing. *)
LEMMA QuietCloud ==
  ASSUME CloudKept, NEW h \in CloudHandlers, NEW r \in CloudJob,
         cloudJob' = [cloudJob EXCEPT ![h] = r], JobFits(r, objects),
         UNCHANGED <<objects, synced, stored, latest, lapse, plan>>,
         r.pc \notin {"save", "write", "delete"}, cloudJob[h].pc \notin {"save", "write", "delete"}
  PROVE  CloudKept'
<1>1. /\ cloudJob' \in [CloudHandlers -> CloudJob] /\ cloudJob'[h] = r
      /\ \A o \in CloudHandlers \ {h} : cloudJob'[o] = cloudJob[o]
  BY DEF CloudKept
<1>2. \A o \in CloudHandlers : JobFits(cloudJob'[o], objects)
  BY <1>1 DEF CloudKept
<1>3. PendingSaves' = PendingSaves /\ Encoded' = Encoded
  BY <1>1 DEF PendingSaves, Encoded
<1>4. ASSUME ~lapse' PROVE SavesOfCurrent' /\ NewestIsCurrent' /\ TableAgrees'
  <2>1. SavesOfCurrent /\ NewestIsCurrent /\ TableAgrees
    BY <1>4 DEF CloudKept, SavesAgree
  <2>2. SavesOfCurrent'
    BY <1>1, <2>1 DEF SavesOfCurrent
  <2>3. NewestIsCurrent'
    <3>1. SUFFICES ASSUME Encoded' # {}, \A o \in CloudHandlers : cloudJob'[o].pc # "save"
          PROVE  \E o \in latest' : /\ cloudJob'[o].pc = "write"
                                     /\ Timeless(cloudJob[o].image)' = Timeless(objects[synced])'
      BY DEF NewestIsCurrent
    <3>2. \A o \in CloudHandlers : cloudJob[o].pc # "save"
      BY <1>1, <3>1
    <3>3. PICK o \in latest : /\ cloudJob[o].pc = "write"
                              /\ Timeless(cloudJob[o].image) = Timeless(objects[synced])
      BY <1>3, <2>1, <3>1, <3>2 DEF NewestIsCurrent
    <3>4. o \in CloudHandlers /\ cloudJob'[o] = cloudJob[o]
      BY <1>1, <3>3 DEF CloudKept
    <3>5. Timeless(cloudJob[o].image)' = Timeless(cloudJob[o].image)
      BY <3>4 DEF Timeless
    <3>6. Timeless(objects[synced])' = Timeless(objects[synced])
      BY DEF Timeless
    <3> QED BY <3>3, <3>4, <3>5, <3>6
  <2>4. TableAgrees'
    BY <1>3, <2>1 DEF TableAgrees, Timeless
  <2> QED BY <2>2, <2>3, <2>4
<1> QED BY <1>1, <1>2, <1>4 DEF CloudKept, SavesAgree

LEMMA MoveFields ==
  ASSUME NEW j \in CloudJob,
         NEW pc \in {"idle", "select", "try", "refresh", "apply", "send", "save", "write", "delete"}
  PROVE  LET r == [j EXCEPT !.pc = pc] IN
         /\ r \in CloudJob /\ r.pc = pc /\ r.list = j.list /\ r.object = j.object
         /\ r.saves = j.saves /\ r.fresh = j.fresh /\ r.next = j.next
BY DEF CloudJob

LEMMA BeginKeeps ==
  ASSUME CloudKept, NEW h \in CloudHandlers, NEW named, handleCloudInference(h, named)
  PROVE  CloudKept'
<1> DEFINE r == [CloudIdle EXCEPT !.pc = "select", !.object = synced,
                                  !.unread = CloudAccounts]
<1>1. /\ cloudJob[h].pc = "idle" /\ synced # 0 /\ cloudJob' = [cloudJob EXCEPT ![h] = r]
      /\ UNCHANGED <<objects, synced, stored, latest, lapse, plan>>
  BY DEF handleCloudInference, cloudAPIKeyValid
<1>2. synced \in DOMAIN objects /\ synced \in Nat
  BY <1>1, CloudState DEF CloudKept
<1>3. r \in CloudJob /\ r.pc = "select" /\ r.object = synced /\ r.list = << >>
  <2>1. CloudIdle \in CloudJob /\ CloudIdle.list = << >>
    BY CloudIdleFits DEF CloudIdle
  <2> QED BY <1>2, <2>1 DEF CloudJob
<1> HIDE DEF r
<1>4. Elements(r.list) = {}
  BY <1>3 DEF Elements
<1>5. JobFits(r, objects)
  BY <1>2, <1>3, <1>4 DEF JobFits, ReadsOn, ReadsHead
<1> QED BY <1>1, <1>3, <1>5, QuietCloud

LEMMA SelectKeeps ==
  ASSUME CloudKept, NEW h \in CloudHandlers, NEW a \in CloudAccounts,
         selectCloudProviders(h, a)
  PROVE  CloudKept'
<1> DEFINE j == cloudJob[h]
           l == IF Selectable(SeenAccount(h, a)) THEN SelectInOrder(j.list, a) ELSE j.list
           u == j.unread \ {a}
           r == [j EXCEPT !.unread = u, !.list = l]
<1>1. /\ j.pc = "select" /\ j \in CloudJob /\ JobFits(j, objects)
      /\ UNCHANGED <<objects, synced, stored, latest, lapse, plan>>
  BY CloudState DEF selectCloudProviders
<1>2. cloudJob' = [cloudJob EXCEPT ![h] = r]
  <2>1. cloudJob \in [CloudHandlers -> CloudJob]
    BY DEF CloudKept
  <2> QED BY <2>1 DEF selectCloudProviders
<1>3. j.object \in DOMAIN objects /\ \A b \in Elements(j.list) :
         objects[j.object].accounts[b] \in CloudAccount
  BY <1>1 DEF JobFits, ReadsOn
<1>4. j.list \in Seq(CloudAccounts) /\ u \in SUBSET CloudAccounts
  BY <1>1 DEF CloudJob
<1>5. l \in Seq(CloudAccounts) /\ \A b \in Elements(l) :
         objects[j.object].accounts[b] \in CloudAccount
  <2>1. CASE Selectable(SeenAccount(h, a))
    <3>1. l \in Seq(CloudAccounts) /\ Elements(l) \subseteq Elements(j.list) \cup {a}
      BY <1>4, <2>1, InsertedAccount
    <3>2. objects[j.object].accounts[a] \in CloudAccount
      BY <1>3, <2>1, CloudState DEF Selectable, SeenAccount, CloudData
    <3> QED BY <1>3, <3>1, <3>2
  <2>2. CASE ~Selectable(SeenAccount(h, a))
    BY <1>3, <1>4, <2>2
  <2> QED BY <2>1, <2>2
<1> HIDE DEF l, u
<1>6. r \in CloudJob /\ r.pc = "select" /\ r.list = l /\ r.object = j.object
  BY <1>1, <1>4, <1>5 DEF CloudJob
<1> HIDE DEF r
<1>7. JobFits(r, objects)
  BY <1>3, <1>5, <1>6 DEF JobFits, ReadsHead
<1> QED BY <1>1, <1>2, <1>6, <1>7, QuietCloud

LEMMA GotoOfJob ==
  ASSUME CloudKept, NEW h \in CloudHandlers, NEW pc, CloudGoto(h, pc)
  PROVE  cloudJob' = [cloudJob EXCEPT ![h] = [cloudJob[h] EXCEPT !.pc = pc]]
BY DEF CloudGoto, CloudKept

(* The handler goes on to the next account, or to the request with it.     *)
LEMMA MoveKeeps ==
  ASSUME CloudKept, NEW h \in CloudHandlers,
         \/ AccountsSelected(h) \/ refreshCloudProviderIfNeeded(h) \/ TokenKept(h)
  PROVE  CloudKept'
<1> DEFINE j == cloudJob[h]
<1>1. PICK pc \in {"try", "refresh", "send"} :
        /\ CloudGoto(h, pc) /\ ReadsOn(j) /\ j.pc \notin {"save", "write", "delete"}
        /\ pc # "try" => j.list # << >>
        /\ UNCHANGED <<objects, synced, stored, latest, lapse, plan>>
  <2>1. j \in CloudJob /\ JobFits(j, objects)
    BY CloudState
  <2>2. CASE AccountsSelected(h)
    BY <2>1, <2>2 DEF AccountsSelected, ReadsOn
  <2>3. CASE refreshCloudProviderIfNeeded(h)
    BY <2>1, <2>3 DEF refreshCloudProviderIfNeeded, ReadsOn
  <2>4. CASE TokenKept(h)
    BY <2>1, <2>4 DEF TokenKept, ReadsOn, JobFits, ReadsHead
  <2> QED BY <2>2, <2>3, <2>4
<1> DEFINE r == [j EXCEPT !.pc = pc]
<1>2. cloudJob' = [cloudJob EXCEPT ![h] = r]
  BY <1>1, GotoOfJob
<1>3. j \in CloudJob /\ JobFits(j, objects)
  BY CloudState
<1> HIDE DEF j
<1>4. r \in CloudJob /\ r.pc = pc /\ r.list = j.list /\ r.object = j.object
  <2>1. pc \in {"idle", "select", "try", "refresh", "apply", "send", "save", "write", "delete"}
    OBVIOUS
  <2> QED BY <1>3, <2>1, MoveFields, ZenonT(60)
<1> HIDE DEF r
<1>5. JobFits(r, objects)
  BY <1>1, <1>3, <1>4 DEF JobFits, ReadsOn, ReadsHead
<1> USE DEF j
<1> QED BY <1>1, <1>2, <1>4, <1>5, QuietCloud

LEMMA RefreshedKeeps ==
  ASSUME CloudKept, NEW h \in CloudHandlers, TokenRefreshed(h)
  PROVE  CloudKept'
<1> DEFINE j == cloudJob[h]
           s == SeenAccount(h, TriedAccount(h))
           f == [s EXCEPT !.expiring = FALSE]
           r == [j EXCEPT !.pc = "apply", !.fresh = f]
<1>1. /\ j.pc = "refresh" /\ j \in CloudJob /\ JobFits(j, objects)
      /\ UNCHANGED <<objects, synced, stored, latest, lapse, plan>>
  BY CloudState DEF TokenRefreshed
<1>2. cloudJob' = [cloudJob EXCEPT ![h] = r]
  <2>1. cloudJob \in [CloudHandlers -> CloudJob]
    BY DEF CloudKept
  <2> QED BY <2>1 DEF TokenRefreshed
<1>3. /\ j.object \in DOMAIN objects /\ j.list # << >>
      /\ \A b \in Elements(j.list) : objects[j.object].accounts[b] \in CloudAccount
  BY <1>1 DEF JobFits, ReadsOn, ReadsHead
<1>4. s \in CloudAccount
  <2>1. j.list \in Seq(CloudAccounts)
    BY <1>1 DEF CloudJob
  <2>2. TriedAccount(h) \in Elements(j.list)
    BY <1>3, <2>1, ElementsOfTail DEF TriedAccount
  <2> QED BY <1>3, <2>2 DEF SeenAccount
<1> HIDE DEF s
<1>5. f \in CloudAccount
  BY <1>4 DEF CloudAccount
<1> HIDE DEF f
<1>6. /\ r \in CloudJob /\ r.pc = "apply" /\ r.list = j.list /\ r.object = j.object
      /\ r.fresh = f
  BY <1>1, <1>5 DEF CloudJob
<1> HIDE DEF r
<1>7. JobFits(r, objects)
  BY <1>3, <1>5, <1>6 DEF JobFits
<1> QED BY <1>1, <1>2, <1>6, <1>7, QuietCloud

LEMMA AnswerKeeps ==
  ASSUME CloudKept, NEW h \in CloudHandlers,
         AccountsExhausted(h) \/ cloudProviderURL(h) \/ AccountRefuses(h)
  PROVE  CloudKept'
<1>1. /\ cloudJob' = [cloudJob EXCEPT ![h] = CloudIdle]
      /\ cloudJob[h].pc \notin {"save", "write", "delete"}
      /\ UNCHANGED <<objects, synced, stored, latest, lapse, plan>>
  BY DEF AccountsExhausted, cloudProviderURL, AccountRefuses, CanForward, CloudAnswer
<1>2. CloudIdle.pc = "idle"
  BY DEF CloudIdle
<1> QED BY <1>1, <1>2, CloudIdleFits, QuietCloud

(* Replacing an account of the current map by another one.                 *)
LEMMA PutAccount ==
  ASSUME CloudKept, synced # 0, NEW a \in CloudAccounts, NEW new \in CloudAccount,
         objects' = [objects EXCEPT ![synced].accounts[a] = new]
  PROVE  /\ objects' \in Seq(CloudData) /\ Grown(objects, objects')
         /\ DOMAIN objects' = DOMAIN objects
         /\ objects'[synced] = [objects[synced] EXCEPT !.accounts[a] = new]
<1> DEFINE d == objects[synced]
           F == [d.accounts EXCEPT ![a] = new]
           e == [d EXCEPT !.accounts = F]
<1>1. /\ synced \in DOMAIN objects /\ Len(objects) \in Nat
      /\ DOMAIN objects = 1..Len(objects)
      /\ \A i \in DOMAIN objects : objects[i] \in CloudData
  BY CloudState DEF CloudKept
<1>2. d \in CloudData /\ d.accounts \in [CloudAccounts -> CloudAccount \cup {NoAccount}]
  BY <1>1 DEF CloudData
<1>3. objects' = [objects EXCEPT ![synced] = e]
  BY <1>1
<1> HIDE DEF d
<1>4. /\ F \in [CloudAccounts -> CloudAccount \cup {NoAccount}] /\ F[a] = new
      /\ \A b \in CloudAccounts : b # a => F[b] = d.accounts[b]
  BY <1>2
<1> HIDE DEF F
<1>5. e \in CloudData /\ e.accounts = F
  BY <1>2, <1>4 DEF CloudData
<1>6. e = [d EXCEPT !.accounts[a] = new]
  BY DEF F
<1> HIDE DEF e
<1>7. /\ DOMAIN objects' = DOMAIN objects /\ objects'[synced] = e
      /\ \A i \in DOMAIN objects : i # synced => objects'[i] = objects[i]
  BY <1>1, <1>3
<1>8. objects' \in Seq(CloudData)
  BY <1>1, <1>3, <1>5, <1>7, ExceptSeq, SMTT(60) DEF CloudKept
<1>9. Grown(objects, objects')
  BY <1>4, <1>5, <1>7 DEF Grown, d
<1> QED BY <1>6, <1>7, <1>8, <1>9 DEF d

(* A save begins: the handler is the one that the table waits for.         *)
LEMMA SaveBegins ==
  ASSUME CloudKept, NEW h \in CloudHandlers, NEW r \in CloudJob,
         cloudJob' = [cloudJob EXCEPT ![h] = r],
         r.pc = "save" /\ r.saves = synced' /\ synced' # 0 /\ synced' \in DOMAIN objects',
         objects' \in Seq(CloudData), Grown(objects, objects'), JobFits(r, objects'),
         plan' \in Seq(CloudUpload), stored' = stored, latest' = latest, lapse' \in BOOLEAN,
         lapse' \/ (~lapse /\ (synced' = synced \/ PendingSaves = {}))
  PROVE  CloudKept'
<1>1. /\ cloudJob' \in [CloudHandlers -> CloudJob] /\ cloudJob'[h] = r
      /\ \A o \in CloudHandlers \ {h} : cloudJob'[o] = cloudJob[o]
  BY DEF CloudKept
<1>2. \A o \in CloudHandlers : JobFits(cloudJob'[o], objects')
  <2> SUFFICES ASSUME NEW o \in CloudHandlers PROVE JobFits(cloudJob'[o], objects')
    OBVIOUS
  <2>1. CASE o = h
    BY <1>1, <2>1
  <2>2. CASE o # h
    BY <1>1, <2>2, CloudState, FitsGrown
  <2> QED BY <2>1, <2>2
<1>3. h \in PendingSaves' /\ cloudJob'[h].pc = "save"
  BY <1>1 DEF PendingSaves
<1>4. TableAgrees' /\ NewestIsCurrent'
  BY <1>3 DEF TableAgrees, NewestIsCurrent
<1>5. ASSUME ~lapse', NEW o \in CloudHandlers
      PROVE  /\ cloudJob'[o].pc \in {"save", "write"} => synced' # 0
             /\ cloudJob'[o].pc = "save" => cloudJob'[o].saves = synced'
             /\ cloudJob'[o].pc = "delete" => synced' = 0
  <2>1. CASE o = h
    BY <1>1, <2>1
  <2>2. CASE o # h /\ synced' = synced
    BY <1>1, <1>5, <2>2 DEF CloudKept, SavesAgree, SavesOfCurrent
  <2>3. CASE o # h /\ PendingSaves = {}
    BY <1>1, <2>3 DEF PendingSaves
  <2> QED BY <1>5, <2>1, <2>2, <2>3
<1>6. SavesAgree'
  BY <1>4, <1>5 DEF SavesAgree, SavesOfCurrent
<1> QED BY <1>1, <1>2, <1>6 DEF CloudKept

(* A handler that has done what j says can go on as j.next says.           *)
CanContinue(j, maps) ==
    j.next \in {"send", "try"} =>
      /\ j.object \in DOMAIN maps
      /\ \A a \in Elements(j.list) : maps[j.object].accounts[a] \in CloudAccount
      /\ j.next = "send" => j.list # << >>

LEMMA SavingFits ==
  ASSUME NEW maps, NEW j \in CloudJob, CanContinue(j, maps), NEW n \in Nat, n \in DOMAIN maps
  PROVE  LET r == [j EXCEPT !.pc = "save", !.saves = n] IN
         /\ r \in CloudJob /\ r.pc = "save" /\ r.saves = n /\ JobFits(r, maps)
<1> DEFINE r == [j EXCEPT !.pc = "save", !.saves = n]
<1>1. /\ r \in CloudJob /\ r.pc = "save" /\ r.saves = n /\ r.list = j.list
      /\ r.object = j.object /\ r.next = j.next
  BY DEF CloudJob
<1> HIDE DEF r
<1>2. JobFits(r, maps)
  BY <1>1 DEF JobFits, ReadsOn, ReadsHead, CanContinue
<1> QED BY <1>1, <1>2 DEF r

LEMMA ResumedFits ==
  ASSUME NEW maps, NEW j \in CloudJob, CanContinue(j, maps)
  PROVE  /\ Resumed(j) \in CloudJob /\ JobFits(Resumed(j), maps)
         /\ Resumed(j).pc \notin {"save", "write", "delete"}
<1>1. CASE j.next = "idle"
  BY <1>1, CloudIdleFits DEF Resumed, CloudIdle
<1>2. CASE j.next # "idle"
  <2> DEFINE r == [j EXCEPT !.pc = j.next, !.image = NoData]
  <2>1. j.next \in {"send", "try"}
    BY <1>2 DEF CloudJob
  <2>2. /\ r \in CloudJob /\ r.pc = j.next /\ r.list = j.list /\ r.object = j.object
    BY <2>1 DEF CloudJob
  <2>3. Resumed(j) = r
    BY <1>2 DEF Resumed
  <2> HIDE DEF r
  <2>4. JobFits(r, maps)
    BY <2>1, <2>2 DEF JobFits, ReadsOn, ReadsHead, CanContinue
  <2> QED BY <2>1, <2>2, <2>3, <2>4
<1> QED BY <1>1, <1>2

LEMMA UpdateKeeps ==
  ASSUME CloudKept, NEW h \in CloudHandlers, NEW a \in CloudAccounts, NEW new,
         NEW j \in CloudJob, updateCloudProvider(h, a, new, j),
         cloudJob[h].pc \notin {"save", "write", "delete"}, CanContinue(j, objects),
         synced # 0 /\ objects[synced].accounts[a] # NoAccount => new \in CloudAccount
  PROVE  CloudKept'
<1>1. UNCHANGED <<synced, stored, latest, lapse, plan>>
  BY DEF updateCloudProvider
<1>2. CASE synced # 0 /\ objects[synced].accounts[a] # NoAccount
  <2> DEFINE r == [j EXCEPT !.pc = "save", !.saves = synced]
  <2>1. /\ objects' = [objects EXCEPT ![synced].accounts[a] = new]
        /\ cloudJob' = [cloudJob EXCEPT ![h] = r]
    BY <1>2 DEF updateCloudProvider
  <2>2. synced \in Nat /\ synced \in DOMAIN objects
    BY <1>2, CloudState DEF CloudKept
  <2>3. r \in CloudJob /\ r.pc = "save" /\ r.saves = synced /\ JobFits(r, objects)
    BY <2>2, SavingFits
  <2> HIDE DEF r
  <2>4. /\ objects' \in Seq(CloudData) /\ Grown(objects, objects')
        /\ DOMAIN objects' = DOMAIN objects
    BY <1>2, <2>1, PutAccount
  <2>5. JobFits(r, objects')
    BY <2>3, <2>4, FitsGrown
  <2>6. plan' \in Seq(CloudUpload) /\ lapse' \in BOOLEAN
        /\ (lapse' \/ (~lapse /\ (synced' = synced \/ PendingSaves = {})))
    BY <1>1 DEF CloudKept
  <2> QED BY <1>1, <1>2, <2>1, <2>2, <2>3, <2>4, <2>5, <2>6, SaveBegins
<1>3. CASE ~(synced # 0 /\ objects[synced].accounts[a] # NoAccount)
  <2> DEFINE r == Resumed(j)
  <2>1. objects' = objects /\ cloudJob' = [cloudJob EXCEPT ![h] = r]
    BY <1>3 DEF updateCloudProvider
  <2>2. r \in CloudJob /\ JobFits(r, objects) /\ r.pc \notin {"save", "write", "delete"}
    BY ResumedFits
  <2> HIDE DEF r
  <2> QED BY <1>1, <2>1, <2>2, QuietCloud
<1> QED BY <1>2, <1>3

(* What is read of a current account.                                      *)
LEMMA CurrentIs ==
  ASSUME CloudKept, NEW a \in CloudAccounts, synced # 0,
         objects[synced].accounts[a] # NoAccount
  PROVE  CurrentAccount(a) \in CloudAccount
<1>1. synced \in DOMAIN objects
  BY DEF CloudKept
<1>2. objects[synced].accounts \in [CloudAccounts -> CloudAccount \cup {NoAccount}]
  BY <1>1, CloudState DEF CloudData
<1> QED BY <1>2 DEF CurrentAccount

LEMMA ChangedAccounts ==
  /\ \A acc \in CloudAccount : ClearedAccount(acc) \in CloudAccount
  /\ \A acc \in CloudAccount : MarkedAccount(acc) \in CloudAccount
  /\ ClearedAccount(NoAccount) = NoAccount
<1>1. ASSUME NEW acc \in CloudAccount PROVE ClearedAccount(acc) \in CloudAccount
  <2> DEFINE s == IF acc.status = "unavailable" THEN "active" ELSE acc.status
             r == [acc EXCEPT !.cooling = FALSE, !.status = s]
  <2>1. s \in {"active", "disabled", "unavailable"}
    BY DEF CloudAccount
  <2>2. ClearedAccount(acc) = r
    BY CloudAssumption DEF ClearedAccount
  <2> HIDE DEF s
  <2>3. r \in CloudAccount
    BY <2>1 DEF CloudAccount
  <2> QED BY <2>2, <2>3
<1>2. \A acc \in CloudAccount : MarkedAccount(acc) \in CloudAccount
  BY DEF MarkedAccount, CloudAccount
<1> QED BY <1>1, <1>2 DEF ClearedAccount

(* A handler with an account at hand has it at the head of its list. *)
LEMMA TriedIs ==
  ASSUME CloudKept, NEW h \in CloudHandlers, cloudJob[h].pc \in {"apply", "send"}
  PROVE  LET j == cloudJob[h] IN
         /\ j \in CloudJob /\ JobFits(j, objects) /\ j.object \in DOMAIN objects
         /\ j.list \in Seq(CloudAccounts) /\ j.list # << >>
         /\ \A a \in Elements(j.list) : objects[j.object].accounts[a] \in CloudAccount
         /\ TriedAccount(h) \in CloudAccounts
         /\ Tail(j.list) \in Seq(CloudAccounts) /\ Elements(Tail(j.list)) \subseteq Elements(j.list)
<1> DEFINE j == cloudJob[h]
<1>1. j \in CloudJob /\ JobFits(j, objects)
  BY CloudState
<1>2. /\ j.object \in DOMAIN objects /\ j.list # << >>
      /\ \A a \in Elements(j.list) : objects[j.object].accounts[a] \in CloudAccount
  BY <1>1 DEF JobFits, ReadsOn, ReadsHead
<1>3. j.list \in Seq(CloudAccounts)
  BY <1>1 DEF CloudJob
<1> QED BY <1>1, <1>2, <1>3, ElementsOfTail DEF TriedAccount

LEMMA ApplyKeeps ==
  ASSUME CloudKept, NEW h \in CloudHandlers, ApplyRefresh(h)
  PROVE  CloudKept'
<1> DEFINE i == cloudJob[h]
           j == [i EXCEPT !.next = "send", !.fresh = NoAccount]
           a == TriedAccount(h)
<1>1. i.pc = "apply" /\ updateCloudProvider(h, a, i.fresh, j)
  BY DEF ApplyRefresh
<1>2. /\ i \in CloudJob /\ i.object \in DOMAIN objects /\ i.list # << >>
      /\ \A b \in Elements(i.list) : objects[i.object].accounts[b] \in CloudAccount
      /\ a \in CloudAccounts
  BY <1>1, TriedIs
<1>3. i.fresh \in CloudAccount
  BY <1>1, CloudState DEF JobFits
<1>4. j \in CloudJob /\ j.next = "send" /\ j.list = i.list /\ j.object = i.object
  BY <1>2 DEF CloudJob
<1> HIDE DEF j, a
<1>5. CanContinue(j, objects)
  BY <1>2, <1>4 DEF CanContinue
<1> QED BY <1>1, <1>2, <1>3, <1>4, <1>5, UpdateKeeps

LEMMA ServesKeeps ==
  ASSUME CloudKept, NEW h \in CloudHandlers, AccountServes(h)
  PROVE  CloudKept'
<1> DEFINE a == TriedAccount(h)
           new == ClearedAccount(CurrentAccount(a))
<1>1. cloudJob[h].pc = "send" /\ updateCloudProvider(h, a, new, CloudIdle)
  BY DEF AccountServes, CanForward
<1>2. a \in CloudAccounts
  BY <1>1, TriedIs
<1>3. CloudIdle \in CloudJob /\ CanContinue(CloudIdle, objects)
  BY CloudIdleFits DEF CanContinue, CloudIdle
<1> HIDE DEF a
<1>4. synced # 0 /\ objects[synced].accounts[a] # NoAccount => new \in CloudAccount
  BY <1>2, CurrentIs, ChangedAccounts
<1> HIDE DEF new
<1> QED BY <1>1, <1>2, <1>3, <1>4, UpdateKeeps

LEMMA CooldownKeeps ==
  ASSUME CloudKept, NEW h \in CloudHandlers, markCloudProviderCooldown(h)
  PROVE  CloudKept'
<1> DEFINE a == TriedAccount(h)
           i == cloudJob[h]
           l == Tail(i.list)
           j == [i EXCEPT !.next = "try", !.list = l]
           new == MarkedAccount(CurrentAccount(a))
<1>1. i.pc = "send" /\ updateCloudProvider(h, a, new, j)
  BY DEF markCloudProviderCooldown, CanForward, AfterFailure
<1>2. /\ a \in CloudAccounts /\ i \in CloudJob /\ i.object \in DOMAIN objects
      /\ \A b \in Elements(i.list) : objects[i.object].accounts[b] \in CloudAccount
      /\ l \in Seq(CloudAccounts) /\ Elements(l) \subseteq Elements(i.list)
  BY <1>1, TriedIs
<1> HIDE DEF a, l
<1>3. j \in CloudJob /\ j.next = "try" /\ j.list = l /\ j.object = i.object
  BY <1>2 DEF CloudJob
<1>4. synced # 0 /\ objects[synced].accounts[a] # NoAccount => new \in CloudAccount
  BY <1>2, CurrentIs, ChangedAccounts
<1> HIDE DEF new, j
<1>5. CanContinue(j, objects)
  BY <1>2, <1>3 DEF CanContinue
<1> QED BY <1>1, <1>2, <1>3, <1>4, <1>5, UpdateKeeps

LEMMA EncodeKeeps ==
  ASSUME CloudKept, NEW h \in CloudHandlers, EncodeData(h)
  PROVE  CloudKept'
<1> DEFINE j == cloudJob[h]
           d == objects[j.saves]
           r == [j EXCEPT !.pc = "write", !.image = d]
<1>1. j.pc = "save" /\ j \in CloudJob /\ JobFits(j, objects) /\ j.saves \in DOMAIN objects
  BY CloudState DEF EncodeData, JobFits
<1>2. /\ cloudJob' = [cloudJob EXCEPT ![h] = r] /\ latest' = {h}
      /\ UNCHANGED <<objects, synced, stored, lapse, plan>>
  <2>1. cloudJob \in [CloudHandlers -> CloudJob]
    BY DEF CloudKept
  <2> QED BY <2>1 DEF EncodeData
<1>3. d \in CloudData
  BY <1>1, CloudState
<1>4. /\ r \in CloudJob /\ r.pc = "write" /\ r.image = d /\ r.list = j.list
      /\ r.object = j.object /\ r.next = j.next
  <2> HIDE DEF d
  <2> QED BY <1>1, <1>3 DEF CloudJob
<1> HIDE DEF r
<1>5. JobFits(r, objects)
  BY <1>1, <1>3, <1>4 DEF JobFits, ReadsOn, ReadsHead
<1>6. /\ cloudJob' \in [CloudHandlers -> CloudJob] /\ cloudJob'[h] = r
      /\ \A o \in CloudHandlers \ {h} : cloudJob'[o] = cloudJob[o]
  BY <1>2, <1>4 DEF CloudKept
<1>7. \A o \in CloudHandlers : JobFits(cloudJob'[o], objects')
  BY <1>2, <1>5, <1>6 DEF CloudKept
<1>8. ASSUME ~lapse' PROVE SavesOfCurrent' /\ NewestIsCurrent' /\ TableAgrees'
  <2>1. SavesOfCurrent
    BY <1>2, <1>8 DEF CloudKept, SavesAgree
  <2>2. SavesOfCurrent'
    BY <1>1, <1>2, <1>4, <1>6, <2>1 DEF SavesOfCurrent
  <2>3. d = objects[synced]
    BY <1>1, <2>1 DEF SavesOfCurrent
  <2>4. h \in latest' /\ cloudJob'[h].pc = "write"
    BY <1>2, <1>4, <1>6
  <2>5. Timeless(cloudJob[h].image)' = Timeless(objects[synced])'
    BY <1>2, <1>4, <1>6, <2>3 DEF Timeless
  <2>6. NewestIsCurrent'
    BY <2>4, <2>5 DEF NewestIsCurrent
  <2>7. TableAgrees'
    BY <2>4 DEF TableAgrees, PendingSaves
  <2> QED BY <2>2, <2>6, <2>7
<1> QED BY <1>2, <1>6, <1>7, <1>8 DEF CloudKept, SavesAgree

LEMMA SaveKeeps ==
  ASSUME CloudKept, NEW h \in CloudHandlers, SaveData(h)
  PROVE  CloudKept'
<1> DEFINE j == cloudJob[h]
           r == Resumed(j)
<1>1. j.pc = "write" /\ j \in CloudJob /\ JobFits(j, objects) /\ j.image \in CloudData
  BY CloudState DEF SaveData, JobFits
<1>2. /\ cloudJob' = [cloudJob EXCEPT ![h] = r] /\ latest' = latest \ {h}
      /\ UNCHANGED <<objects, synced, plan>>
  <2>1. cloudJob \in [CloudHandlers -> CloudJob]
    BY DEF CloudKept
  <2> QED BY <2>1 DEF SaveData
<1>3. r \in CloudJob /\ JobFits(r, objects) /\ r.pc \notin {"save", "write", "delete"}
  <2>1. CanContinue(j, objects)
    BY <1>1 DEF CanContinue, JobFits, ReadsOn, ReadsHead
  <2> QED BY <1>1, <2>1, ResumedFits
<1>4. \/ stored' = j.image /\ lapse' = (lapse \/ (h \in latest /\ Encoded # {h}))
      \/ stored' = stored /\ lapse' = TRUE
  BY DEF SaveData
<1> HIDE DEF r
<1>5. /\ cloudJob' \in [CloudHandlers -> CloudJob] /\ cloudJob'[h] = r
      /\ \A o \in CloudHandlers \ {h} : cloudJob'[o] = cloudJob[o]
  BY <1>2, <1>3 DEF CloudKept
<1>6. \A o \in CloudHandlers : JobFits(cloudJob'[o], objects')
  BY <1>2, <1>3, <1>5 DEF CloudKept
<1>7. /\ stored' # NoData => stored' \in CloudData
      /\ latest' \in SUBSET CloudHandlers
  BY <1>1, <1>2, <1>4 DEF CloudKept
<1>8. lapse' \in BOOLEAN
  BY <1>4 DEF CloudKept
<1>9. ASSUME ~lapse' PROVE SavesOfCurrent' /\ NewestIsCurrent' /\ TableAgrees'
  <2>1. ~lapse /\ stored' = j.image /\ ~(h \in latest /\ Encoded # {h})
    BY <1>4, <1>9
  <2>2. SavesOfCurrent /\ NewestIsCurrent
    BY <2>1 DEF CloudKept, SavesAgree
  <2>3. SavesOfCurrent'
    BY <1>2, <1>3, <1>5, <2>2 DEF SavesOfCurrent
  <2>4. h \in Encoded /\ synced # 0
    BY <1>1, <2>2 DEF Encoded, SavesOfCurrent
  <2>5. ASSUME \A o \in CloudHandlers : cloudJob[o].pc # "save"
        PROVE  NewestIsCurrent' /\ TableAgrees'
    <3>1. PICK top \in latest : /\ cloudJob[top].pc = "write"
                              /\ Timeless(cloudJob[top].image) = Timeless(objects[synced])
      BY <2>2, <2>4, <2>5 DEF NewestIsCurrent
    <3>2. top \in CloudHandlers /\ top \in Encoded
      BY <3>1 DEF CloudKept, Encoded
    <3>3. CASE top = h
      <4>1. Encoded = {h}
        BY <2>1, <3>1, <3>3
      <4>2. Encoded' = {}
        BY <1>3, <1>5, <4>1 DEF Encoded
      <4>3. NewestIsCurrent'
        BY <4>2 DEF NewestIsCurrent
      <4>4. stored' # NoData
        BY <1>1, <2>1, CloudAssumption
      <4>5. Timeless(stored)' = Timeless(objects[synced])'
        BY <1>2, <2>1, <3>1, <3>3 DEF Timeless
      <4> QED BY <1>2, <2>4, <4>3, <4>4, <4>5 DEF TableAgrees
    <3>4. CASE top # h
      <4>1. top \in latest' /\ cloudJob'[top] = cloudJob[top]
        BY <1>2, <1>5, <3>1, <3>2, <3>4
      <4>2. Timeless(cloudJob[top].image)' = Timeless(objects[synced])'
        BY <1>2, <3>1, <4>1 DEF Timeless
      <4>3. NewestIsCurrent'
        BY <3>1, <4>1, <4>2 DEF NewestIsCurrent
      <4>4. TableAgrees'
        BY <3>1, <3>2, <4>1 DEF TableAgrees, PendingSaves
      <4> QED BY <4>3, <4>4
    <3> QED BY <3>3, <3>4
  <2>6. ASSUME NEW o \in CloudHandlers, cloudJob[o].pc = "save"
        PROVE  NewestIsCurrent' /\ TableAgrees'
    <3>1. cloudJob'[o].pc = "save"
      BY <1>1, <1>5, <2>6
    <3> QED BY <3>1 DEF NewestIsCurrent, TableAgrees, PendingSaves
  <2> QED BY <2>3, <2>5, <2>6
<1> QED BY <1>2, <1>5, <1>6, <1>7, <1>8, <1>9 DEF CloudKept, SavesAgree

LEMMA DeleteKeeps ==
  ASSUME CloudKept, NEW h \in CloudHandlers, DeleteData(h)
  PROVE  CloudKept'
<1>1. /\ cloudJob[h].pc = "delete" /\ cloudJob' = [cloudJob EXCEPT ![h] = CloudIdle]
      /\ UNCHANGED <<objects, synced, latest, plan>>
      /\ \/ stored' = NoData /\ lapse' = lapse
         \/ stored' = stored /\ lapse' = TRUE
  BY DEF DeleteData, CloudAnswer
<1>2. CloudIdle \in CloudJob /\ JobFits(CloudIdle, objects) /\ CloudIdle.pc = "idle"
  BY CloudIdleFits DEF CloudIdle
<1>3. /\ cloudJob' \in [CloudHandlers -> CloudJob] /\ cloudJob'[h] = CloudIdle
      /\ \A o \in CloudHandlers \ {h} : cloudJob'[o] = cloudJob[o]
  BY <1>1, <1>2 DEF CloudKept
<1>4. \A o \in CloudHandlers : JobFits(cloudJob'[o], objects')
  BY <1>1, <1>2, <1>3 DEF CloudKept
<1>5. ASSUME ~lapse' PROVE SavesOfCurrent' /\ NewestIsCurrent' /\ TableAgrees'
  <2>1. ~lapse /\ stored' = NoData
    BY <1>1, <1>5
  <2>2. SavesOfCurrent
    BY <2>1 DEF CloudKept, SavesAgree
  <2>3. synced = 0 /\ \A o \in CloudHandlers : cloudJob[o].pc \notin {"save", "write"}
    BY <1>1, <2>2 DEF SavesOfCurrent
  <2>4. SavesOfCurrent'
    BY <1>1, <1>2, <1>3, <2>2 DEF SavesOfCurrent
  <2>5. Encoded' = {}
    BY <1>2, <1>3, <2>3 DEF Encoded
  <2> QED BY <1>1, <2>1, <2>3, <2>4, <2>5 DEF NewestIsCurrent, TableAgrees
<1> QED BY <1>1, <1>3, <1>4, <1>5 DEF CloudKept, SavesAgree

(* An upload is merged into a map of its own, and this one becomes current.*)
LEMMA MergedData ==
  ASSUME NEW body \in CloudUpload, NEW newer, NEW existing \in CloudData
  PROVE  mergeCloudSyncData(body, newer, existing) \in CloudData
<1> DEFINE m(a) == IF body.accounts[a] = NoAccount THEN NoAccount
                   ELSE IF isCloudObjectNewer(a, newer, existing.accounts[a])
                        THEN existing.accounts[a] ELSE body.accounts[a]
           M == [a \in CloudAccounts |-> m(a)]
           k == valueOrExisting(body.keys, existing.keys)
           l == valueOrExisting(body.alias, existing.alias)
<1>1. \A a \in CloudAccounts : m(a) \in CloudAccount \cup {NoAccount}
  BY DEF CloudData, CloudUpload
<1>2. k \in BOOLEAN /\ l \in BOOLEAN
  BY DEF valueOrExisting, CloudData
<1> HIDE DEF m
<1>3. M \in [CloudAccounts -> CloudAccount \cup {NoAccount}]
  BY <1>1
<1> HIDE DEF M, k, l
<1>4. [accounts |-> M, keys |-> k, alias |-> l] \in CloudData
  BY <1>2, <1>3 DEF CloudData
<1> QED BY <1>4 DEF mergeCloudSyncData, M, m, k, l

LEMMA AppendedMap ==
  ASSUME CloudKept, NEW d \in CloudData, objects' = Append(objects, d)
  PROVE  /\ objects' \in Seq(CloudData) /\ Grown(objects, objects')
         /\ Len(objects') \in DOMAIN objects' /\ Len(objects') \in Nat \ {0}
<1>1. objects \in Seq(CloudData) /\ Len(objects) \in Nat /\ DOMAIN objects = 1..Len(objects)
  BY CloudState DEF CloudKept
<1>2. /\ objects' \in Seq(CloudData) /\ Len(objects') = Len(objects) + 1
      /\ \A i \in 1..Len(objects) : objects'[i] = objects[i]
  BY <1>1, AppendProperties
<1>3. DOMAIN objects' = 1..(Len(objects) + 1)
  BY <1>2
<1>4. DOMAIN objects \subseteq DOMAIN objects'
  BY <1>1, <1>3
<1>5. Grown(objects, objects')
  BY <1>1, <1>2, <1>4 DEF Grown
<1> QED BY <1>1, <1>2, <1>3, <1>5

LEMMA PostKeeps ==
  ASSUME CloudKept, NEW h \in CloudHandlers, NEW newer, handleSyncPost(h, newer)
  PROVE  CloudKept'
<1> DEFINE e == IF synced = 0 THEN NoUpload ELSE objects[synced]
           d == mergeCloudSyncData(Head(plan), newer, e)
           r == [CloudIdle EXCEPT !.pc = "save", !.saves = synced']
<1>1. /\ cloudJob[h].pc = "idle" /\ plan # << >> /\ objects' = Append(objects, d)
      /\ synced' = Len(objects') /\ cloudJob' = [cloudJob EXCEPT ![h] = r]
      /\ lapse' = (lapse \/ PendingSaves # {}) /\ plan' = Tail(plan)
      /\ stored' = stored /\ latest' = latest
  BY DEF handleSyncPost
<1>2. Head(plan) \in CloudUpload /\ plan' \in Seq(CloudUpload)
  BY <1>1, ElementsOfTail DEF CloudKept
<1>3. NoUpload \in CloudData
  BY DEF NoUpload, CloudData
<1>4. e \in CloudData
  BY <1>3, CloudState DEF CloudKept
<1> HIDE DEF e
<1>5. d \in CloudData
  BY <1>2, <1>4, MergedData
<1> HIDE DEF d
<1>6. /\ objects' \in Seq(CloudData) /\ Grown(objects, objects')
      /\ synced' \in DOMAIN objects' /\ synced' \in Nat \ {0}
  BY <1>1, <1>5, AppendedMap
<1>7. r \in CloudJob /\ r.pc = "save" /\ r.saves = synced' /\ JobFits(r, objects')
  <2>1. CloudIdle \in CloudJob /\ CanContinue(CloudIdle, objects')
    BY CloudIdleFits DEF CanContinue, CloudIdle
  <2>2. synced' \in Nat
    BY <1>6
  <2> QED BY <1>6, <2>1, <2>2, SavingFits
<1> HIDE DEF r
<1>8. lapse' \in BOOLEAN /\ (lapse' \/ (~lapse /\ (synced' = synced \/ PendingSaves = {})))
  BY <1>1 DEF CloudKept
<1>9. synced' # 0
  BY <1>6
<1> QED BY <1>1, <1>2, <1>6, <1>7, <1>8, <1>9, SaveBegins

LEMMA SyncDeleteKeeps ==
  ASSUME CloudKept, NEW h \in CloudHandlers, handleSyncDelete(h)
  PROVE  CloudKept'
<1> DEFINE j == cloudJob[h]
           r == [j EXCEPT !.pc = "delete"]
<1>1. /\ j.pc = "idle" /\ synced' = 0 /\ CloudGoto(h, "delete")
      /\ lapse' = (lapse \/ PendingSaves # {}) /\ UNCHANGED <<objects, stored, latest, plan>>
  BY DEF handleSyncDelete
<1>2. cloudJob' = [cloudJob EXCEPT ![h] = r]
  BY <1>1, GotoOfJob
<1>3. r \in CloudJob /\ r.pc = "delete"
  <2>1. j \in CloudJob
    BY CloudState
  <2> QED BY <2>1, MoveFields
<1> HIDE DEF r
<1>4. JobFits(r, objects)
  BY <1>3 DEF JobFits, ReadsOn, ReadsHead
<1>5. /\ cloudJob' \in [CloudHandlers -> CloudJob] /\ cloudJob'[h] = r
      /\ \A o \in CloudHandlers \ {h} : cloudJob'[o] = cloudJob[o]
  BY <1>2, <1>3 DEF CloudKept
<1>6. \A o \in CloudHandlers : JobFits(cloudJob'[o], objects')
  BY <1>1, <1>4, <1>5 DEF CloudKept
<1>7. h \in PendingSaves'
  BY <1>3, <1>5 DEF PendingSaves
<1>8. ASSUME ~lapse' PROVE SavesOfCurrent' /\ NewestIsCurrent'
  <2>1. \A o \in CloudHandlers : cloudJob'[o].pc \notin {"save", "write"}
    BY <1>1, <1>3, <1>5, <1>8 DEF PendingSaves
  <2> QED BY <1>1, <2>1 DEF SavesOfCurrent, NewestIsCurrent, Encoded
<1>9. SavesAgree'
  BY <1>7, <1>8 DEF SavesAgree, TableAgrees
<1>10. synced' \in {0} \cup DOMAIN objects' /\ lapse' \in BOOLEAN
  BY <1>1 DEF CloudKept
<1> QED BY <1>1, <1>5, <1>6, <1>9, <1>10 DEF CloudKept

(* A change of the current map under the lock, with no handler taking part.*)
LEMMA InPlace ==
  ASSUME CloudKept, synced # 0, NEW new \in CloudData,
         objects' = [objects EXCEPT ![synced] = new],
         \A a \in CloudAccounts : objects[synced].accounts[a] \in CloudAccount =>
           new.accounts[a] \in CloudAccount,
         UNCHANGED <<synced, cloudJob, latest, plan>>,
         \/ stored' = new /\ lapse' = (lapse \/ Encoded # {})
         \/ stored' = stored /\ lapse' = TRUE
         \/ UNCHANGED <<stored, lapse>> /\ Timeless(new) = Timeless(objects[synced])
  PROVE  CloudKept'
<1>1. /\ synced \in DOMAIN objects /\ objects \in Seq(CloudData)
      /\ DOMAIN objects' = DOMAIN objects /\ objects'[synced] = new
      /\ \A i \in DOMAIN objects : i # synced => objects'[i] = objects[i]
  BY CloudState DEF CloudKept
<1>2. objects' \in Seq(CloudData)
  BY <1>1, ExceptSeq
<1>3. Grown(objects, objects')
  BY <1>1 DEF Grown
<1>4. \A h \in CloudHandlers : JobFits(cloudJob'[h], objects')
  BY <1>3, CloudState, FitsGrown
<1>5. (stored' # NoData => stored' \in CloudData) /\ lapse' \in BOOLEAN
  BY DEF CloudKept
<1>6. PendingSaves' = PendingSaves /\ Encoded' = Encoded
  BY DEF PendingSaves, Encoded
<1>7. ASSUME ~lapse' PROVE TableAgrees'
  <2>1. CASE stored' = new
    <3>1. stored' # NoData
      BY <2>1, CloudAssumption
    <3> QED BY <1>1, <2>1, <3>1 DEF TableAgrees, Timeless
  <2>2. CASE UNCHANGED <<stored, lapse>> /\ Timeless(new) = Timeless(objects[synced])
    <3>1. TableAgrees
      BY <1>7, <2>2 DEF CloudKept, SavesAgree
    <3>2. PendingSaves = {} => stored # NoData /\ Timeless(stored) = Timeless(objects[synced])
      BY <1>7, <2>2, <3>1 DEF TableAgrees
    <3>3. Timeless(stored)' = Timeless(stored)
      BY <2>2 DEF Timeless
    <3>4. Timeless(objects[synced])' = Timeless(new)
      BY <1>1 DEF Timeless
    <3> QED BY <1>6, <2>2, <3>2, <3>3, <3>4 DEF TableAgrees
  <2> QED BY <1>7, <2>1, <2>2
<1>8. ASSUME ~lapse' PROVE SavesOfCurrent' /\ NewestIsCurrent'
  <2>1. ~lapse
    BY <1>8
  <2>2. SavesOfCurrent /\ NewestIsCurrent
    BY <2>1 DEF CloudKept, SavesAgree
  <2>3. SavesOfCurrent'
    BY <2>2 DEF SavesOfCurrent
  <2>4. CASE Encoded = {}
    BY <1>6, <2>3, <2>4 DEF NewestIsCurrent
  <2>5. CASE Encoded # {}
    <3>1. Timeless(new) = Timeless(objects[synced])
      BY <1>8, <2>5
    <3>2. Timeless(objects[synced])' = Timeless(objects[synced])
      BY <1>1, <3>1 DEF Timeless
    <3>3. \A h \in latest : Timeless(cloudJob[h].image)' = Timeless(cloudJob[h].image)
      BY DEF Timeless
    <3>4. NewestIsCurrent'
      BY <1>6, <2>2, <3>2, <3>3 DEF NewestIsCurrent
    <3> QED BY <2>3, <3>4
  <2> QED BY <2>4, <2>5
<1> QED BY <1>1, <1>2, <1>4, <1>5, <1>7, <1>8 DEF CloudKept, SavesAgree

LEMMA CacheClearKeeps ==
  ASSUME CloudKept, handleCacheClear
  PROVE  CloudKept'
<1> DEFINE d == objects[synced]
           F == [a \in CloudAccounts |-> ClearedAccount(d.accounts[a])]
           new == [d EXCEPT !.accounts = F]
<1>1. /\ synced # 0 /\ objects' = [objects EXCEPT ![synced] = new]
      /\ \/ stored' = new /\ lapse' = (lapse \/ Encoded # {})
         \/ stored' = stored /\ lapse' = TRUE
      /\ UNCHANGED <<synced, cloudJob, latest, plan>>
  BY DEF handleCacheClear
<1>2. d \in CloudData /\ d.accounts \in [CloudAccounts -> CloudAccount \cup {NoAccount}]
  BY <1>1, CloudState DEF CloudKept, CloudData
<1> HIDE DEF d
<1>3. F \in [CloudAccounts -> CloudAccount \cup {NoAccount}]
      /\ \A a \in CloudAccounts : d.accounts[a] \in CloudAccount => F[a] \in CloudAccount
  BY <1>2, ChangedAccounts
<1> HIDE DEF F
<1>4. new \in CloudData /\ new.accounts = F
  BY <1>2, <1>3 DEF CloudData
<1> HIDE DEF new
<1> QED BY <1>1, <1>3, <1>4, InPlace DEF d

LEMMA CooldownEndKeeps ==
  ASSUME CloudKept, NEW a \in CloudAccounts, CloudCooldownEnds(a)
  PROVE  CloudKept'
<1> DEFINE d == objects[synced]
           acc == [d.accounts[a] EXCEPT !.cooling = FALSE]
           F == [d.accounts EXCEPT ![a] = acc]
           new == [d EXCEPT !.accounts = F]
<1>1. /\ synced # 0 /\ d.accounts[a] # NoAccount
      /\ UNCHANGED <<synced, stored, cloudJob, latest, lapse, plan>>
  BY DEF CloudCooldownEnds, CurrentAccount
<1>2. synced \in DOMAIN objects /\ d \in CloudData
      /\ d.accounts \in [CloudAccounts -> CloudAccount \cup {NoAccount}]
  BY <1>1, CloudState DEF CloudKept, CloudData
<1>3. objects' = [objects EXCEPT ![synced] = new]
  BY DEF CloudCooldownEnds
<1> HIDE DEF d
<1>4. d.accounts[a] \in CloudAccount
  BY <1>1, <1>2
<1>5. acc \in CloudAccount /\ [acc EXCEPT !.cooling = FALSE] = [d.accounts[a] EXCEPT !.cooling = FALSE]
  BY <1>4 DEF CloudAccount
<1>6. acc # NoAccount
  BY <1>5, CloudAssumption
<1>7. WithoutLimit(acc) = WithoutLimit(d.accounts[a])
  BY <1>1, <1>5, <1>6 DEF WithoutLimit
<1> HIDE DEF acc
<1>8. /\ F \in [CloudAccounts -> CloudAccount \cup {NoAccount}] /\ F[a] = acc
      /\ \A b \in CloudAccounts : b # a => F[b] = d.accounts[b]
  BY <1>2, <1>5
<1> HIDE DEF F
<1>9. new \in CloudData /\ new.accounts = F
      /\ \A G : [new EXCEPT !.accounts = G] = [d EXCEPT !.accounts = G]
  BY <1>2, <1>8 DEF CloudData
<1> HIDE DEF new
<1>10. \A b \in CloudAccounts : d.accounts[b] \in CloudAccount => new.accounts[b] \in CloudAccount
  BY <1>5, <1>8, <1>9
<1>11. Timeless(new) = Timeless(d)
  <2>1. \A b \in CloudAccounts : WithoutLimit(new.accounts[b]) = WithoutLimit(d.accounts[b])
    BY <1>7, <1>8, <1>9
  <2> DEFINE G == [b \in CloudAccounts |-> WithoutLimit(new.accounts[b])]
             H == [b \in CloudAccounts |-> WithoutLimit(d.accounts[b])]
  <2>2. G = H
    BY <2>1
  <2> QED BY <1>9, <2>2 DEF Timeless
<1> QED BY <1>1, <1>3, <1>9, <1>10, <1>11, InPlace DEF d

LEMMA RestartKeeps ==
  ASSUME CloudKept, NewServerWithStorage
  PROVE  CloudKept'
<1>1. /\ cloudJob' = [h \in CloudHandlers |-> CloudIdle] /\ UNCHANGED <<stored, plan>>
      /\ latest' = {}
      /\ \/ stored # NoData /\ objects' = <<stored>> /\ synced' = 1 /\ lapse' = lapse
         \/ stored = NoData /\ objects' = << >> /\ synced' = 0 /\ lapse' = lapse
         \/ objects' = << >> /\ synced' = 0 /\ lapse' = TRUE
  BY DEF NewServerWithStorage
<1>2. /\ objects' \in Seq(CloudData) /\ synced' \in {0} \cup DOMAIN objects'
      /\ synced' # 0 => synced' = 1 /\ objects'[1] = stored /\ stored # NoData
  <2>1. CASE stored # NoData /\ objects' = <<stored>> /\ synced' = 1
    <3>1. stored \in CloudData
      BY <2>1 DEF CloudKept
    <3>2. <<stored>> \in Seq(CloudData) /\ 1 \in DOMAIN <<stored>> /\ <<stored>>[1] = stored
      BY <3>1
    <3> QED BY <2>1, <3>2
  <2>2. CASE objects' = << >> /\ synced' = 0
    BY <2>2
  <2> QED BY <1>1, <2>1, <2>2
<1>3. \A h \in CloudHandlers : cloudJob'[h] \in CloudJob /\ JobFits(cloudJob'[h], objects')
                               /\ cloudJob'[h].pc = "idle"
  BY <1>1, CloudIdleFits DEF CloudIdle
<1>4. cloudJob' \in [CloudHandlers -> CloudJob]
  BY <1>1, CloudIdleFits
<1>5. lapse' \in BOOLEAN
  <2>1. lapse' = lapse \/ lapse' = TRUE
    BY <1>1
  <2> QED BY <2>1 DEF CloudKept
<1>6. ~lapse' => TableAgrees'
  <2>1. CASE synced' # 0
    BY <1>1, <1>2, <2>1 DEF TableAgrees, Timeless
  <2>2. CASE synced' = 0
    BY <1>1, <2>2 DEF TableAgrees
  <2> QED BY <2>1, <2>2
<1>7. SavesAgree'
  BY <1>3, <1>6 DEF SavesAgree, SavesOfCurrent, NewestIsCurrent, Encoded
<1> QED BY <1>1, <1>2, <1>3, <1>4, <1>5, <1>7 DEF CloudKept

LEMMA CloudStarts == CloudInit => CloudKept
<1> SUFFICES ASSUME CloudInit PROVE CloudKept
  OBVIOUS
<1>1. plan \in Seq(CloudUpload)
  BY CloudAssumption DEF CloudInit
<1>2. /\ objects = << >> /\ synced = 0 /\ stored = NoData /\ lapse = FALSE /\ latest = {}
      /\ cloudJob = [h \in CloudHandlers |-> CloudIdle]
  BY DEF CloudInit
<1>3. objects \in Seq(CloudData)
  BY <1>2
<1>4. cloudJob \in [CloudHandlers -> CloudJob]
      /\ \A h \in CloudHandlers : JobFits(cloudJob[h], objects) /\ cloudJob[h].pc = "idle"
  BY <1>2, CloudIdleFits DEF CloudIdle
<1>5. SavesAgree
  BY <1>2, <1>4 DEF SavesAgree, TableAgrees, SavesOfCurrent, NewestIsCurrent, Encoded
<1> QED BY <1>1, <1>2, <1>3, <1>4, <1>5 DEF CloudKept

LEMMA CloudStepKeeps == CloudKept /\ [CloudNext]_cloudVars => CloudKept'
<1> SUFFICES ASSUME CloudKept, [CloudNext]_cloudVars PROVE CloudKept'
  OBVIOUS
<1>1. CASE UNCHANGED cloudVars
  <2>1. Encoded' = Encoded /\ PendingSaves' = PendingSaves
    BY <1>1 DEF cloudVars, Encoded, PendingSaves
  <2>2. SavesOfCurrent' = SavesOfCurrent
    BY <1>1 DEF cloudVars, SavesOfCurrent
  <2>3. NewestIsCurrent' = NewestIsCurrent
    BY <1>1, <2>1 DEF cloudVars, NewestIsCurrent, Timeless
  <2>4. TableAgrees' = TableAgrees
    BY <1>1, <2>1 DEF cloudVars, TableAgrees, Timeless
  <2> QED BY <1>1, <2>2, <2>3, <2>4 DEF cloudVars, CloudKept, JobFits, SavesAgree
<1>2. ASSUME NEW h \in CloudHandlers, NEW newer \in SUBSET CloudAccounts,
             handleSyncPost(h, newer)
      PROVE  CloudKept'
  BY <1>2, PostKeeps
<1>3. ASSUME NEW h \in CloudHandlers, handleSyncDelete(h) PROVE CloudKept'
  BY <1>3, SyncDeleteKeeps
<1>4. ASSUME NEW h \in CloudHandlers, NEW named,
             handleCloudInference(h, named) \/ handleCloudOllamaChat(h, named)
      PROVE  CloudKept'
  BY <1>4, BeginKeeps DEF handleCloudOllamaChat
<1>5. ASSUME NEW h \in CloudHandlers, CloudStep(h) PROVE CloudKept'
  <2>0. CASE EncodeData(h)
    BY <2>0, EncodeKeeps
  <2>1. CASE SaveData(h)
    BY <2>1, SaveKeeps
  <2>2. CASE DeleteData(h)
    BY <2>2, DeleteKeeps
  <2>3. CASE AccountsSelected(h) \/ refreshCloudProviderIfNeeded(h) \/ TokenKept(h)
    BY <2>3, MoveKeeps
  <2>4. CASE AccountsExhausted(h) \/ cloudProviderURL(h) \/ AccountRefuses(h)
    BY <2>4, AnswerKeeps
  <2>5. CASE \E a \in CloudAccounts : selectCloudProviders(h, a)
    BY <2>5, SelectKeeps
  <2>6. CASE TokenRefreshed(h)
    BY <2>6, RefreshedKeeps
  <2>7. CASE ApplyRefresh(h)
    BY <2>7, ApplyKeeps
  <2>8. CASE AccountServes(h)
    BY <2>8, ServesKeeps
  <2>9. CASE markCloudProviderCooldown(h)
    BY <2>9, CooldownKeeps
  <2> QED BY <1>5, <2>0, <2>1, <2>2, <2>3, <2>4, <2>5, <2>6, <2>7, <2>8, <2>9 DEF CloudStep
<1>6. CASE \E a \in CloudAccounts : CloudCooldownEnds(a)
  BY <1>6, CooldownEndKeeps
<1>7. CASE handleCacheClear
  BY <1>7, CacheClearKeeps
<1>8. CASE NewServerWithStorage
  BY <1>8, RestartKeeps
<1> QED BY <1>1, <1>2, <1>3, <1>4, <1>5, <1>6, <1>7, <1>8 DEF CloudNext

LEMMA CloudInvariant == CloudSpec => []CloudKept
BY CloudStarts, CloudStepKeeps, PTL DEF CloudSpec

(* Once all saves are done, the table of the cloud server holds what its   *)
(* memory holds, unless one failed, an older text was stored after the     *)
(* newest one, or an upload or a deletion came while a save was pending    *)
(* (TableAgrees): for any number of handlers, accounts and uploads.        *)
THEOREM TableFollowsMemory == CloudSpec => []TableAgrees
<1>1. CloudKept => TableAgrees
  BY DEF CloudKept, SavesAgree, TableAgrees
<1> QED BY <1>1, CloudInvariant, PTL
-----------------------------------------------------------------------------
(* The types of the cloud server: the uploads still to come are the end of *)
(* a plan.                                                                 *)

AtEnd(s, t) ==
    Len(s) <= Len(t) /\ \A i \in 1..Len(s) : s[i] = t[(Len(t) - Len(s)) + i]

LEMMA ReversePlaces ==
  ASSUME NEW S, NEW s \in Seq(S)
  PROVE  /\ Reverse(s) \in Seq(S) /\ Len(Reverse(s)) = Len(s) /\ Len(s) \in Nat
         /\ \A i \in 1..Len(s) : Reverse(s)[i] = s[(Len(s) - i) + 1]
<1> DEFINE n == Len(s)
           r == Reverse(s)
<1>1. n \in Nat /\ \A i \in 1..n : s[i] \in S
  BY ElementOfSeq
<1>2. r = [i \in 1..n |-> s[(n - i) + 1]]
  BY DEF Reverse
<1> HIDE DEF n, r
<1>3. \A i \in 1..n : (n - i) + 1 \in 1..n
  BY <1>1
<1>4. \A i \in 1..n : r[i] = s[(n - i) + 1] /\ r[i] \in S
  BY <1>1, <1>2, <1>3
<1>5. r \in Seq(S) /\ Len(r) = n
  <2>1. r \in [1..n -> S]
    BY <1>2, <1>4
  <2> QED BY <1>1, <2>1
<1> QED BY <1>1, <1>4, <1>5 DEF n, r

LEMMA EndIsSuffix ==
  ASSUME NEW S, NEW s \in Seq(S), NEW t \in Seq(S), AtEnd(s, t)
  PROVE  IsSuffix(s, t)
<1> DEFINE n == Len(s)
           m == Len(t)
           r == Reverse(s)
           a == Reverse(t)
<1>1. /\ n \in Nat /\ m \in Nat /\ n <= m
      /\ r \in Seq(S) /\ Len(r) = n /\ \A i \in 1..n : r[i] = s[(n - i) + 1]
      /\ a \in Seq(S) /\ Len(a) = m /\ \A i \in 1..m : a[i] = t[(m - i) + 1]
      /\ \A i \in 1..n : s[i] = t[(m - n) + i]
  BY ReversePlaces DEF AtEnd
<1> HIDE DEF n, m, r, a
<1>2. ASSUME NEW i \in 1..n PROVE r[i] = a[i]
  <2>1. /\ (n - i) + 1 \in 1..n /\ i \in 1..m
        /\ (m - n) + ((n - i) + 1) = (m - i) + 1
    BY <1>1
  <2>2. r[i] = s[(n - i) + 1] /\ a[i] = t[(m - i) + 1]
    BY <1>1, <2>1
  <2>3. s[(n - i) + 1] = t[(m - n) + ((n - i) + 1)]
    BY <1>1, <2>1
  <2> QED BY <2>1, <2>2, <2>3
<1>3. SubSeq(r, 1, n) = r
  BY <1>1, SubSeqFull
<1>4. SubSeq(a, 1, n) = r
  <2> DEFINE u == SubSeq(a, 1, n)
  <2>1. 1 \in Int /\ n \in Int /\ \A i \in 1..n : i \in 1..Len(a) /\ a[i] \in S
    BY <1>1, ElementOfSeq
  <2>2. /\ u \in Seq(S) /\ Len(u) = IF 1 <= n THEN n - 1 + 1 ELSE 0
        /\ \A i \in 1..(n - 1 + 1) : u[i] = a[1 + i - 1]
    BY <1>1, <2>1, SubSeqProperties
  <2> HIDE DEF u
  <2>3. Len(u) = n
    BY <1>1, <2>2
  <2>4. ASSUME NEW i \in 1..n PROVE u[i] = r[i]
    <3>1. i \in 1..(n - 1 + 1) /\ 1 + i - 1 = i
      BY <1>1
    <3> QED BY <1>2, <2>2, <3>1
  <2>5. u = r
    BY <1>1, <2>2, <2>3, <2>4, SeqEqual
  <2> QED BY <2>5 DEF u
<1> QED BY <1>1, <1>3, <1>4 DEF IsSuffix, IsPrefix, r, a

LEMMA TailAtEnd ==
  ASSUME NEW S, NEW s \in Seq(S), s # << >>, NEW t \in Seq(S), AtEnd(s, t)
  PROVE  AtEnd(Tail(s), t)
<1>1. /\ Len(s) \in Nat \ {0} /\ Len(Tail(s)) = Len(s) - 1 /\ Len(t) \in Nat
      /\ \A i \in 1..Len(Tail(s)) : Tail(s)[i] = s[i + 1]
  BY HeadTailProperties
<1>2. ASSUME NEW i \in 1..Len(Tail(s))
      PROVE  Tail(s)[i] = t[(Len(t) - Len(Tail(s))) + i]
  <2>1. /\ i + 1 \in 1..Len(s)
        /\ (Len(t) - Len(s)) + (i + 1) = (Len(t) - Len(Tail(s))) + i
    BY <1>1
  <2> QED BY <1>1, <2>1 DEF AtEnd
<1> QED BY <1>1, <1>2 DEF AtEnd

PlanKept == \E uploads \in UploadPlans : AtEnd(plan, uploads)

LEMMA PlanStarts == CloudInit => PlanKept
<1> SUFFICES ASSUME CloudInit PROVE AtEnd(plan, plan)
  BY DEF CloudInit, PlanKept
<1>1. plan \in Seq(CloudUpload)
  BY CloudAssumption DEF CloudInit
<1> QED BY <1>1 DEF AtEnd

LEMMA PlanStep == PlanKept /\ CloudKept /\ [CloudNext]_cloudVars => PlanKept'
<1> SUFFICES ASSUME PlanKept, CloudKept, [CloudNext]_cloudVars PROVE PlanKept'
  OBVIOUS
<1>1. ASSUME NEW h \in CloudHandlers, NEW newer, handleSyncPost(h, newer) PROVE PlanKept'
  <2>1. PICK uploads \in UploadPlans : AtEnd(plan, uploads)
    BY DEF PlanKept
  <2>2. uploads \in Seq(CloudUpload) /\ plan \in Seq(CloudUpload)
    BY CloudAssumption DEF CloudKept
  <2>3. plan # << >> /\ plan' = Tail(plan)
    BY <1>1 DEF handleSyncPost
  <2>4. AtEnd(plan', uploads)
    BY <2>1, <2>2, <2>3, TailAtEnd
  <2> QED BY <2>4 DEF PlanKept
<1>2. CASE UNCHANGED plan
  BY <1>2 DEF PlanKept
<1>3. ASSUME NEW h \in CloudHandlers, CloudStep(h) PROVE UNCHANGED plan
  BY <1>3 DEF CloudStep, EncodeData, SaveData, DeleteData, AccountsSelected, AccountsExhausted,
     selectCloudProviders, refreshCloudProviderIfNeeded, TokenRefreshed, TokenKept,
     ApplyRefresh, updateCloudProvider, cloudProviderURL, AccountServes, AccountRefuses,
     markCloudProviderCooldown
<1> QED BY <1>1, <1>2, <1>3 DEF CloudNext, handleSyncDelete, handleCloudInference,
       handleCloudOllamaChat, CloudCooldownEnds, handleCacheClear, NewServerWithStorage,
       cloudVars

(* The maps, the table and the handlers keep their types, and what is left *)
(* of the uploads is the end of one of the plans.                          *)
THEOREM CloudTypeCorrect == CloudSpec => []CloudTypeOK
<1>1. PlanKept /\ CloudKept => CloudTypeOK
  <2> SUFFICES ASSUME PlanKept, CloudKept PROVE CloudTypeOK
    OBVIOUS
  <2>1. PICK uploads \in UploadPlans : AtEnd(plan, uploads)
    BY DEF PlanKept
  <2>2. uploads \in Seq(CloudUpload) /\ plan \in Seq(CloudUpload)
    BY CloudAssumption DEF CloudKept
  <2>3. IsSuffix(plan, uploads)
    BY <2>1, <2>2, EndIsSuffix
  <2> QED BY <2>3, CloudState DEF CloudTypeOK, CloudKept
<1> QED BY <1>1, PlanStarts, PlanStep, CloudStarts, CloudStepKeeps, PTL DEF CloudSpec

-----------------------------------------------------------------------------
(* The parts that a request passes through, as one run checks them.        *)

LEMMA EveryPartAnswers ==
    RequestsSpec => Spec /\ PipeSpec /\ GoogleSpec /\ CloudSpec
<1>1. RequestsInit => Init /\ PipeInit /\ GoogleInit /\ CloudInit
    BY DEF RequestsInit
<1>2. [RequestsNext]_requestVars => [Next]_vars
    BY DEF RequestsNext, requestVars
<1>3. [RequestsNext]_requestVars => [PipeNext]_pipeVars
    BY DEF RequestsNext, requestVars
<1>4. [RequestsNext]_requestVars => [GoogleNext]_googleVars
    BY DEF RequestsNext, requestVars
<1>5. [RequestsNext]_requestVars => [CloudNext]_cloudVars
    BY DEF RequestsNext, requestVars
<1> QED
    BY <1>1, <1>2, <1>3, <1>4, <1>5, PTL
    DEF RequestsSpec, Spec, PipeSpec, GoogleSpec, CloudSpec

(* Whatever handlers, adapters and the cloud server do: the state of every *)
(* part of a request's way is of its type.                                 *)
THEOREM RequestsTypeCorrect == RequestsSpec => []RequestsTypeOK
<1>1. TypeOK /\ PipeTypeOK /\ GoogleTypeOK /\ CloudTypeOK => RequestsTypeOK
    BY DEF RequestsTypeOK
<1> QED
    BY <1>1, EveryPartAnswers, EngineTypeCorrect, PipeTypeCorrect,
       GoogleTypeCorrect, CloudTypeCorrect, PTL

(* And what is checked of the parts holds of them together: that a         *)
(* rotation's targets serve its request where upstreams answer, and the    *)
(* rest whatever they do.                                                  *)
THEOREM RequestsKeepTheirWord ==
    RequestsSpec =>
      /\ [](/\ MetricsBalance /\ AnswersObeyPolicy /\ ServiceTriesAll
            /\ KnownTokensAreLive /\ ExpiryIsNotSeen /\ TableAgrees)
      /\ Healthy => []RotationServes
<1>1. Healthy => (Spec => []RotationServes)
    BY RotationIsServed
<1> QED
    BY <1>1, EveryPartAnswers, EveryRequestIsAccounted, CachedAnswersObeyPolicy,
       GivesUpAfterAll, RequestsCarryLiveTokens, CallsOutliveTokens,
       TableFollowsMemory, PTL
=============================================================================
