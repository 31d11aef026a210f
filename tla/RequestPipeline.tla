-------------------------- MODULE RequestPipeline ---------------------------
(***************************************************************************)
(* The inference handlers of internal/api/server.go around the routing     *)
(* engine: authentication, policies, the response cache, the metrics and   *)
(* the fallback of the handlers that call adapters themselves.  The engine *)
(* is external here: it answers for a model, or fails (see RoutingEngine); *)
(* what the handlers log is in AsyncWriter, how a stream is forwarded in   *)
(* StreamRelay.                                                            *)
(***************************************************************************)
EXTENDS ResponseCache, PolicyRules, FiniteSets

CONSTANTS
    PipeHandlers, \* goroutines that serve requests
    PipeModels, ApiKeys,
    Policies,     \* the rules of the configuration the server started with
    ServiceChain, \* the providers that ResolveTargets gives for a service request
    CacheSize,
    KeySets,      \* bound: the admin keys that the configuration has at times
    MaxCounted    \* bound: requests that are counted

Counted == {"chat", "stream", "messages", "responses"}
PipeKinds == Counted \cup {"ollama"}
Elements(seq) == {seq[i] : i \in DOMAIN seq}
Chain == Elements(ServiceChain)

ASSUME PipeAssumption ==
    /\ CacheSize \in Nat \ {0} /\ MaxCounted \in Nat
    /\ KeySets \subseteq SUBSET ApiKeys
    /\ IsFiniteSet(PipeHandlers) /\ ServiceChain \in Seq(Chain)
    /\ \A i \in DOMAIN Policies : Policies[i].reroute \in PipeModels

VARIABLES
    metrics,    \* s.metrics
    hits,       \* c.hits
    cache,
    keys,       \* the admin keys of the configuration
    registered, \* the providers of the engine's registry
    pipe,       \* handlers
    unseen      \* history: streams that ended without being counted

pipeVars == <<metrics, hits, cache, keys, registered, pipe, unseen>>

PipeIdle == [pc |-> "idle", kind |-> "none", key |-> "none", model |-> "none",
             answer |-> "none", targets |-> <<>>, called |-> {}, stable |-> {}]

PipeTypeOK ==
    /\ metrics \in [total : 0..MaxCounted, success : Nat, error : Nat]
    /\ hits \in 0..MaxCounted
    /\ Len(cache) <= CacheSize
    /\ \A i, j \in DOMAIN cache : cache[i].key = cache[j].key => i = j
    /\ keys \in KeySets /\ registered \subseteq Chain
    /\ \A h \in PipeHandlers :
         /\ pipe[h].pc \in {"idle", "decode", "policy", "cache", "engine", "forward",
                            "count", "store", "answer", "service", "exhausted"}
         /\ pipe[h].kind \in PipeKinds \cup {"none", "service"}
         /\ Len(pipe[h].targets) <= Len(ServiceChain)
    /\ unseen \in 0..MaxCounted

PipeInit ==
    /\ metrics = [total |-> 0, success |-> 0, error |-> 0]
    /\ hits = 0 /\ cache = <<>> /\ unseen = 0
    /\ keys \in KeySets
    /\ registered = Chain
    /\ pipe = [h \in PipeHandlers |-> PipeIdle]

PipeSet(h, r) == pipe' = [pipe EXCEPT ![h] = r]
PipeGoto(h, pc) == PipeSet(h, [pipe[h] EXCEPT !.pc = pc])
NotCounted(h) == UNCHANGED metrics \* mutant: an early return forgets to count
CountError(h) ==
    metrics' = [metrics EXCEPT !.error =
                  @ + (IF pipe[h].kind \in Counted THEN 1 ELSE 0)]
Rest == <<keys, registered>>

-----------------------------------------------------------------------------
(* No key at all: authentication is off. *)
AuthMiddlewareWithRuntimeConfig(key) == keys = {} \/ key \in keys

(* Policies and the cache look at chat requests only: of the others the    *)
(* model keeps neither key nor name.                                       *)
Asks(kind, model, key) ==
    IF kind \in {"chat", "stream"}
    THEN [PipeIdle EXCEPT !.kind = kind, !.key = key, !.model = model]
    ELSE [PipeIdle EXCEPT !.kind = kind]

PipeArrive(h, kind, model, key) ==
    /\ pipe[h].pc = "idle"
    /\ AuthMiddlewareWithRuntimeConfig(key)
    /\ kind \in Counted => metrics.total < MaxCounted
    /\ metrics' = [metrics EXCEPT !.total = @ + (IF kind \in Counted THEN 1 ELSE 0)]
    /\ PipeSet(h, [Asks(kind, model, key) EXCEPT !.pc = "decode"])
    /\ UNCHANGED <<hits, cache, Rest, unseen>>

RejectBody(h) ==
    /\ pipe[h].pc = "decode"
    /\ CountError(h)
    /\ PipeSet(h, PipeIdle)
    /\ UNCHANGED <<hits, cache, Rest, unseen>>

Decoded(h, kinds, pc) ==
    /\ pipe[h].pc = "decode" /\ pipe[h].kind \in kinds
    /\ PipeGoto(h, pc)
    /\ UNCHANGED <<metrics, hits, cache, Rest, unseen>>

(* Only what comes to /v1/chat/completions is subject to policies; other   *)
(* requests are converted into a chat request.                             *)
DecodeChat(h) == Decoded(h, {"chat", "stream"}, "policy")
DecodeMessages(h) == Decoded(h, {"messages"}, "engine")
DecodeResponses(h) == Decoded(h, {"responses"}, "engine")
handleOllamaChat(h) == Decoded(h, {"ollama"}, "engine")

Deny(h) ==
    /\ pipe[h].pc = "policy" /\ Denied(Policies, pipe[h].model, pipe[h].key)
    /\ CountError(h)
    /\ PipeSet(h, PipeIdle)
    /\ UNCHANGED <<hits, cache, Rest, unseen>>

Routed(j) == ApplyToRequest(Policies, j.model, j.key)

Admit(h) ==
    /\ pipe[h].pc = "policy" /\ ~Denied(Policies, pipe[h].model, pipe[h].key)
    /\ PipeGoto(h, IF pipe[h].kind = "stream" THEN "engine" ELSE "cache")
    /\ UNCHANGED <<metrics, hits, cache, Rest, unseen>>

RequestedModel(j) == j.model  \* mutant: the key is that of the unrouted request

(* generateCacheKey: the request as it is after the policies. *)
generateCacheKey(j) == Routed(j)

AnswerFromCache(h) ==
    /\ pipe[h].pc = "cache" /\ Hit(cache, generateCacheKey(pipe[h]))
    /\ cache' = CacheGet(cache, generateCacheKey(pipe[h]))
    /\ hits' = hits + 1
    /\ PipeSet(h, [pipe[h] EXCEPT !.pc = "answer",
         !.answer = CachedEntry(cache, generateCacheKey(pipe[h])).value])
    /\ UNCHANGED <<metrics, Rest, unseen>>

MissCache(h) ==
    /\ pipe[h].pc = "cache" /\ ~Hit(cache, generateCacheKey(pipe[h]))
    /\ cache' = CacheGet(cache, generateCacheKey(pipe[h]))
    /\ PipeGoto(h, "engine")
    /\ UNCHANGED <<metrics, hits, Rest, unseen>>

-----------------------------------------------------------------------------
(* The engine, and what a handler does with its answer. *)

EngineAnswers(h) ==
    /\ pipe[h].pc = "engine"
    /\ PipeSet(h, [pipe[h] EXCEPT
         !.pc = IF pipe[h].kind = "stream" THEN "forward" ELSE "count",
         !.answer = IF pipe[h].kind = "chat" THEN Routed(pipe[h]) ELSE "none"])
    /\ UNCHANGED <<metrics, hits, cache, Rest, unseen>>

EngineFails(h) ==
    /\ pipe[h].pc = "engine"
    /\ CountError(h)
    /\ PipeSet(h, PipeIdle)
    /\ UNCHANGED <<hits, cache, Rest, unseen>>

(* The stream was relayed to its end, ... *)
handleStreamingChatCompletion(h) ==
    /\ pipe[h].pc = "forward"
    /\ PipeGoto(h, "count")
    /\ UNCHANGED <<metrics, hits, cache, Rest, unseen>>

(* ... or was not: the client left, the time was up, or w cannot flush.    *)
(* Nothing is counted.                                                     *)
StreamCut(h) ==
    /\ pipe[h].pc = "forward"
    /\ unseen' = unseen + 1
    /\ PipeSet(h, PipeIdle)
    /\ UNCHANGED <<metrics, hits, cache, Rest>>

(* handleMessages: the answer cannot be translated. *)
handleMessages(h) ==
    /\ pipe[h].pc = "count" /\ pipe[h].kind = "messages"
    /\ CountError(h)
    /\ PipeSet(h, PipeIdle)
    /\ UNCHANGED <<hits, cache, Rest, unseen>>

CountSuccess(h) ==
    /\ pipe[h].pc = "count"
    /\ metrics' = [metrics EXCEPT !.success =
                     @ + (IF pipe[h].kind \in Counted THEN 1 ELSE 0)]
    /\ PipeGoto(h, IF pipe[h].kind = "chat" THEN "store" ELSE "answer")
    /\ UNCHANGED <<hits, cache, Rest, unseen>>

handleChatCompletions(h) ==
    /\ pipe[h].pc = "store"
    /\ cache' = CacheSet(cache, generateCacheKey(pipe[h]), pipe[h].answer, CacheSize)
    /\ PipeGoto(h, "answer")
    /\ UNCHANGED <<metrics, hits, Rest, unseen>>

PipeAnswer(h) ==
    /\ pipe[h].pc \in {"answer", "exhausted"}
    /\ PipeSet(h, PipeIdle)
    /\ UNCHANGED <<metrics, hits, cache, Rest, unseen>>

-----------------------------------------------------------------------------
(* The handlers that call adapters themselves: the targets are resolved    *)
(* once, the registry is looked up for each.                               *)

BeginService(h, key, targets) ==
    /\ pipe[h].pc = "idle" /\ AuthMiddlewareWithRuntimeConfig(key)
    /\ PipeSet(h, [PipeIdle EXCEPT !.pc = "service", !.kind = "service",
                                   !.targets = targets,
                                   !.stable = registered \cap Elements(targets)])
    /\ UNCHANGED <<metrics, hits, cache, Rest, unseen>>

handleEmbeddings(h, key) == BeginService(h, key, ServiceChain)
handleAudioSpeech(h, key) == BeginService(h, key, ServiceChain)
handleAudioTranscriptions(h, key) == BeginService(h, key, ServiceChain)
handleImagesGenerations(h, key) == BeginService(h, key, ServiceChain)

(* The provider that is named, or the first enabled one that can. *)
serviceAdapter(h, key) == \E p \in Chain : BeginService(h, key, <<p>>)
handleWebSearch(h, key) == serviceAdapter(h, key)
handleWebFetch(h, key) == serviceAdapter(h, key)

PipeTarget(h) == Head(pipe[h].targets)

StopAtMissing(h) == \* mutant: break where the code continues
    /\ pipe[h].pc = "service" /\ pipe[h].targets # <<>> /\ PipeTarget(h) \notin registered
    /\ PipeGoto(h, "exhausted")
    /\ UNCHANGED <<metrics, hits, cache, Rest, unseen>>

SkipMissing(h) ==
    /\ pipe[h].pc = "service" /\ pipe[h].targets # <<>> /\ PipeTarget(h) \notin registered
    /\ PipeSet(h, [pipe[h] EXCEPT !.targets = Tail(@)])
    /\ UNCHANGED <<metrics, hits, cache, Rest, unseen>>

RetryableFailure(h) ==
    /\ pipe[h].pc = "service" /\ pipe[h].targets # <<>> /\ PipeTarget(h) \in registered
    /\ PipeSet(h, [pipe[h] EXCEPT !.targets = Tail(@), !.called = @ \cup {PipeTarget(h)}])
    /\ UNCHANGED <<metrics, hits, cache, Rest, unseen>>

(* An answer, or an error that another target would give as well. *)
ServiceAnswers(h) ==
    /\ pipe[h].pc = "service" /\ pipe[h].targets # <<>> /\ PipeTarget(h) \in registered
    /\ PipeSet(h, PipeIdle)
    /\ UNCHANGED <<metrics, hits, cache, Rest, unseen>>

ServiceExhausted(h) ==
    /\ pipe[h].pc = "service" /\ pipe[h].targets = <<>>
    /\ PipeGoto(h, "exhausted")
    /\ UNCHANGED <<metrics, hits, cache, Rest, unseen>>

-----------------------------------------------------------------------------
(* The world around: time, and the handlers that change the configuration. *)

CacheExpires(model) ==
    /\ Hit(cache, model)
    /\ cache' = CacheExpire(cache, model)
    /\ UNCHANGED <<metrics, hits, Rest, pipe, unseen>>

SetKeys(new) ==
    /\ keys' = new
    /\ UNCHANGED <<metrics, hits, cache, registered, pipe, unseen>>

ReconfigureRegistry(new) ==
    /\ registered' = new
    /\ pipe' = [h \in PipeHandlers |-> [pipe[h] EXCEPT !.stable = @ \cap new]]
    /\ UNCHANGED <<metrics, hits, cache, keys, unseen>>

PipeNext ==
    \/ \E h \in PipeHandlers :
         \/ \E kind \in PipeKinds, model \in PipeModels, key \in ApiKeys :
              PipeArrive(h, kind, model, key)
         \/ RejectBody(h) \/ DecodeChat(h) \/ DecodeMessages(h)
         \/ DecodeResponses(h) \/ handleOllamaChat(h) \/ Deny(h) \/ Admit(h)
         \/ AnswerFromCache(h) \/ MissCache(h) \/ EngineAnswers(h) \/ EngineFails(h)
         \/ handleStreamingChatCompletion(h) \/ StreamCut(h) \/ handleMessages(h)
         \/ CountSuccess(h) \/ handleChatCompletions(h) \/ PipeAnswer(h)
         \/ \E key \in ApiKeys :
              \/ handleEmbeddings(h, key) \/ handleAudioSpeech(h, key)
              \/ handleAudioTranscriptions(h, key) \/ handleImagesGenerations(h, key)
              \/ handleWebSearch(h, key) \/ handleWebFetch(h, key)
         \/ SkipMissing(h) \/ RetryableFailure(h) \/ ServiceAnswers(h)
         \/ ServiceExhausted(h)
    \/ \E model \in PipeModels : CacheExpires(model)
    \/ \E new \in KeySets : SetKeys(new)
    \/ \E new \in SUBSET Chain : ReconfigureRegistry(new)

PipeSpec == PipeInit /\ [][PipeNext]_pipeVars

-----------------------------------------------------------------------------
(* Hazard: four handlers count on some thirty paths of early returns.      *)
(* Every request that was counted as begun is in flight, a success, an     *)
(* error, a hit of the cache, or a stream that was cut.                    *)
InFlight ==
    {h \in PipeHandlers :
       pipe[h].kind \in Counted /\ pipe[h].pc \notin {"idle", "store", "answer"}}

MetricsBalance ==
    metrics.total =
      metrics.success + metrics.error + hits + unseen + Cardinality(InFlight)

(* Hazard: the cache sits behind the policies and serves all keys.  An     *)
(* answer to a chat request, cached or not, is for the model that the      *)
(* policies choose for this caller, and a caller that they deny gets none. *)
AnswersObeyPolicy ==
    \A h \in PipeHandlers :
      pipe[h].pc = "answer" /\ pipe[h].kind = "chat" =>
        /\ ~Denied(Policies, pipe[h].model, pipe[h].key)
        /\ pipe[h].answer = Routed(pipe[h])

(* Hazard: providers come and go while a service request works through its *)
(* targets.  It gives up only when it has called every target that was     *)
(* registered all the time.                                                *)
ServiceTriesAll ==
    \A h \in PipeHandlers :
      pipe[h].pc = "exhausted" => pipe[h].stable \subseteq pipe[h].called
=============================================================================
