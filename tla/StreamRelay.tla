----------------------------- MODULE StreamRelay -----------------------------
(***************************************************************************)
(* One streamed answer: the goroutine an adapter's StreamChatCompletion    *)
(* starts (internal/providers), the channel of chunks, and the handler     *)
(* that forwards them (handleStreamingChatCompletion in                    *)
(* internal/api/server.go).                                                *)
(*                                                                         *)
(* The upstream answer is a sequence of lines: a chunk is its number, Junk *)
(* a line that does not parse, Done the end marker.  An answer without the *)
(* marker was cut off by the upstream.  Finish is a chunk that some        *)
(* goroutines add at the end.                                              *)
(***************************************************************************)
EXTENDS Integers, Sequences, SequencesExt

CONSTANTS
    Answers,         \* the upstream answers
    ChannelCapacity, \* of the channel: make(chan ChatChunk, 10), and other sizes
    Readers,         \* the kinds of goroutines: see ChecksContext to SendsFinish
    Writers          \* what the handler writes to: see CanFlush

Done == -1   \* "data: [DONE]"
Junk == -2   \* a blank line, a comment, or data that is no JSON
Finish == 0  \* finishChunk

Line == {Done, Junk} \cup (Nat \ {0})
IsChunk(line) == line >= Finish

(* Upstreams send no chunk after their end marker. *)
ASSUME StreamAssumption ==
    /\ \A s \in Answers :
         /\ s \in Seq(Line)
         /\ \A i, j \in DOMAIN s : s[i] = Done /\ i < j => ~IsChunk(s[j])
    /\ ChannelCapacity \in Nat \ {0}
    /\ Readers # {} /\ Writers # {}
    /\ Readers \subseteq {"checks", "plain", "select", "finish", "github"}
    /\ Writers \subseteq {"net/http", "logging"}

VARIABLES
    lines,        \* what the upstream has yet to send
    chunks,       \* the channel
    chunksClosed, \* has the channel been closed?
    producer,     \* [pc, line]
    consumer,     \* [pc, chunk]
    cancelled,    \* ctx: client gone, request timeout, or handler returned
    delivered,    \* what the client has received
    answer,       \* the whole upstream answer, for the properties
    early,        \* was ctx done before the handler was?
    reader,       \* the kind of the producer
    respWriter    \* what the handler writes to

streamVars == <<lines, chunks, chunksClosed, producer, consumer, cancelled,
                delivered, answer, early, reader, respWriter>>

Chosen == <<answer, reader, respWriter>>

(* The chunks among the first n lines of s: SelectSeq, as a function of n. *)
ChunksUpTo(s) ==
    LET F[n \in 0..Len(s)] ==
          IF n = 0 THEN <<>>
          ELSE IF IsChunk(s[n]) THEN Append(F[n - 1], s[n]) ELSE F[n - 1]
    IN  F
ChunksOf(s) == ChunksUpTo(s)[Len(s)]

StreamTypeOK ==
    /\ answer \in Answers \cup {<<>>}
    /\ IsSuffix(lines, answer)
    /\ Len(chunks) <= ChannelCapacity
    /\ chunksClosed \in BOOLEAN /\ cancelled \in BOOLEAN /\ early \in BOOLEAN
    /\ producer.pc \in {"idle", "scan", "check", "send", "ended"}
    /\ consumer.pc \in {"idle", "start", "receive", "check", "success", "left",
                       "rejected"}
    /\ reader \in Readers /\ respWriter \in Writers

StreamInit ==
    /\ answer = <<>> /\ lines = <<>>
    /\ chunks = <<>> /\ chunksClosed = FALSE
    /\ producer = [pc |-> "idle", line |-> Junk]
    /\ consumer = [pc |-> "idle", chunk |-> 0]
    /\ cancelled = FALSE /\ early = FALSE
    /\ delivered = <<>>
    /\ reader = CHOOSE r \in Readers : TRUE
    /\ respWriter = CHOOSE w \in Writers : TRUE

(* The upstream accepted the request: the goroutine starts, the adapter    *)
(* returns the channel.                                                    *)
StreamChatCompletion ==
    /\ consumer.pc = "idle"
    /\ answer' \in Answers /\ lines' = answer'
    /\ reader' \in Readers /\ respWriter' \in Writers
    /\ producer' = [producer EXCEPT !.pc = "scan"]
    /\ consumer' = [consumer EXCEPT !.pc = "start"]
    /\ UNCHANGED <<chunks, chunksClosed, cancelled, delivered, early>>

-----------------------------------------------------------------------------
(* The adapters' goroutines.                                               *)

(* OpenAI, Anthropic and OpenRouter look at ctx before each line.          *)
ChecksContext == reader = "checks"

(* Ollama selects between the send and ctx.                                *)
Selects == reader = "select"

(* GitHub's goes on after the end marker until the body ends.              *)
EndsAtDone == reader # "github"

(* Cursor's, Kiro's, Grok's and Perplexity's send a last chunk of their    *)
(* own.                                                                    *)
SendsFinish == reader = "finish"

EndUnclosed == \* mutant: the channel is left open
    /\ producer' = [producer EXCEPT !.pc = "ended"]
    /\ UNCHANGED chunksClosed

EndProducer ==
    /\ chunksClosed' = TRUE
    /\ producer' = [producer EXCEPT !.pc = "ended"]

(* scanner.Scan: the next line, ... *)
ScanLine ==
    /\ producer.pc = "scan"
    /\ lines # <<>>
    /\ producer' = [pc |-> "check", line |-> Head(lines)]
    /\ lines' = Tail(lines)
    /\ UNCHANGED <<chunks, chunksClosed, consumer, cancelled, delivered, early, Chosen>>

SendFinish ==
    /\ SendsFinish
    /\ producer' = [pc |-> "send", line |-> Finish]
    /\ UNCHANGED chunksClosed

(* ... or no line: the upstream closed the body, or ctx aborted the read.  *)
(* The reader's error is looked at, if at all, for the last chunk only.    *)
ScanEnds ==
    /\ producer.pc = "scan"
    /\ lines = <<>> \/ cancelled
    /\ EndProducer \/ SendFinish
    /\ UNCHANGED <<lines, chunks, consumer, cancelled, delivered, early, Chosen>>

CheckLine ==
    /\ producer.pc = "check"
    /\ IF cancelled /\ ChecksContext THEN EndProducer
       ELSE IF producer.line = Done /\ EndsAtDone
       THEN IF SendsFinish THEN SendFinish ELSE EndProducer
       ELSE /\ producer' = [producer EXCEPT
                 !.pc = IF IsChunk(producer.line) THEN "send" ELSE "scan"]
            /\ UNCHANGED chunksClosed
    /\ UNCHANGED <<lines, chunks, consumer, cancelled, delivered, early, Chosen>>

AfterSend ==
    IF producer.line = Finish THEN EndProducer
    ELSE /\ producer' = [producer EXCEPT !.pc = "scan"]
         /\ UNCHANGED chunksClosed

(* Mutants: one chunk too many, one too few; a chunk is dropped when there *)
(* is no room.                                                             *)
SendUpTo(n) ==
    /\ producer.pc = "send"
    /\ Len(chunks) < n
    /\ chunks' = Append(chunks, producer.line)
    /\ AfterSend
    /\ UNCHANGED <<lines, consumer, cancelled, delivered, early, Chosen>>

SendOneOver == SendUpTo(ChannelCapacity + 1)
SendOneShort == SendUpTo(ChannelCapacity - 1)

SendOrDrop ==
    \/ SendUpTo(ChannelCapacity)
    \/ /\ producer.pc = "send" /\ Len(chunks) = ChannelCapacity
       /\ AfterSend
       /\ UNCHANGED <<lines, chunks, consumer, cancelled, delivered, early, Chosen>>

(* chunks <- chunk blocks while the channel is full, whatever ctx says. *)
SendChunk ==
    /\ producer.pc = "send"
    /\ Len(chunks) < ChannelCapacity
    /\ chunks' = Append(chunks, producer.line)
    /\ AfterSend
    /\ UNCHANGED <<lines, consumer, cancelled, delivered, early, Chosen>>

AbandonSend ==
    /\ producer.pc = "send" /\ Selects /\ cancelled
    /\ EndProducer
    /\ UNCHANGED <<lines, chunks, consumer, cancelled, delivered, early, Chosen>>

Producer == ScanLine \/ ScanEnds \/ CheckLine \/ SendChunk \/ AbandonSend

-----------------------------------------------------------------------------
(* The handler: for chunk := range chunks.                                 *)

(* StructuredLoggingMiddleware, which Handler() mounts, wraps the writer   *)
(* of net/http in one that has no Flush.                                   *)
CanFlush == respWriter = "net/http"

Flushable ==
    /\ consumer.pc = "start" /\ CanFlush
    /\ consumer' = [consumer EXCEPT !.pc = "receive"]
    /\ UNCHANGED <<lines, chunks, chunksClosed, producer, cancelled, delivered,
                   early, Chosen>>

(* "streaming not supported"; the deferred cancel ends ctx.                *)
Reject ==
    /\ consumer.pc = "start" /\ ~CanFlush
    /\ consumer' = [consumer EXCEPT !.pc = "rejected"]
    /\ cancelled' = TRUE
    /\ UNCHANGED <<lines, chunks, chunksClosed, producer, delivered, early, Chosen>>

Receive ==
    /\ consumer.pc = "receive"
    /\ chunks # <<>>
    /\ consumer' = [pc |-> "check", chunk |-> Head(chunks)]
    /\ chunks' = Tail(chunks)
    /\ UNCHANGED <<lines, chunksClosed, producer, cancelled, delivered, early, Chosen>>

Forward ==
    /\ consumer.pc = "check" /\ ~cancelled
    /\ delivered' = Append(delivered, consumer.chunk)
    /\ consumer' = [consumer EXCEPT !.pc = "receive"]
    /\ UNCHANGED <<lines, chunks, chunksClosed, producer, cancelled, early, Chosen>>

(* ctx is done: the handler returns, and counts neither success nor error. *)
Leave ==
    /\ consumer.pc = "check" /\ cancelled
    /\ consumer' = [consumer EXCEPT !.pc = "left"]
    /\ UNCHANGED <<lines, chunks, chunksClosed, producer, cancelled, delivered, early, Chosen>>

(* Mutant: what is left in a closed channel is not looked at. *)
CompleteAtClose ==
    /\ consumer.pc = "receive" /\ chunksClosed
    /\ consumer' = [consumer EXCEPT !.pc = "success"]
    /\ cancelled' = TRUE
    /\ UNCHANGED <<lines, chunks, chunksClosed, producer, delivered, early, Chosen>>

(* The range ends with the channel: "[DONE]" is written and a success      *)
(* counted; the deferred cancel then ends ctx.                             *)
Complete ==
    /\ consumer.pc = "receive"
    /\ chunks = <<>> /\ chunksClosed
    /\ consumer' = [consumer EXCEPT !.pc = "success"]
    /\ cancelled' = TRUE
    /\ UNCHANGED <<lines, chunks, chunksClosed, producer, delivered, early, Chosen>>

Handler == Flushable \/ Reject \/ Receive \/ Forward \/ Leave \/ Complete

HandlerDone == consumer.pc \in {"success", "left", "rejected"}

-----------------------------------------------------------------------------
(* The client disconnects, or the request timeout expires.                 *)
Expire ==
    /\ consumer.pc # "idle" /\ ~cancelled
    /\ cancelled' = TRUE
    /\ early' = TRUE
    /\ UNCHANGED <<lines, chunks, chunksClosed, producer, consumer, delivered, Chosen>>

StreamNext == StreamChatCompletion \/ Producer \/ Handler \/ Expire

StreamSpec == StreamInit /\ [][StreamNext]_streamVars

(* The goroutines run; ctx has a deadline, so it ends.  Nothing is assumed *)
(* of the upstream: a read it never answers ends with ctx.                 *)
StreamFairSpec ==
    /\ StreamSpec
    /\ WF_streamVars(Handler) /\ WF_streamVars(Expire)
    /\ WF_streamVars(ScanEnds) /\ WF_streamVars(CheckLine)
    /\ WF_streamVars(SendChunk) /\ WF_streamVars(AbandonSend)

-----------------------------------------------------------------------------
(* The client receives the upstream's chunks in order, without a gap and   *)
(* without a repetition, however the two goroutines interleave.            *)
DeliveredInOrder == IsPrefix(delivered, Append(ChunksOf(answer), Finish))

(* A stream that was neither cut off nor cancelled and is reported as a    *)
(* success has been delivered completely: closing the channel never        *)
(* overtakes a chunk that is still in it.                                  *)
Whole(s) == Contains(s, Done)
AllOf(s) == IF SendsFinish THEN Append(ChunksOf(s), Finish) ELSE ChunksOf(s)

CompleteWhenWhole ==
    consumer.pc = "success" /\ Whole(answer) /\ ~early => delivered = AllOf(answer)

RelayIsFaithful == DeliveredInOrder /\ CompleteWhenWhole

(* What is due to the client from the moment the upstream has answered,    *)
(* and what of it is still on its way; a relay that ctx ended, or that was *)
(* rejected, owes nothing more.                                            *)
Due ==
    IF Whole(answer) THEN AllOf(answer)
    ELSE IF producer.line = Finish THEN Append(ChunksOf(answer), Finish)
    ELSE ChunksOf(answer)

RelayStage ==
    IF early \/ consumer.pc = "rejected" THEN "broken"
    ELSE IF consumer.pc = "success" THEN "done"
    ELSE IF chunksClosed THEN "closed" ELSE "open"

Undelivered ==
    IF RelayStage = "broken" THEN <<>>
    ELSE SubSeq(Due, Len(delivered) + 1, Len(Due))

Relayed == INSTANCE Delivery WITH
    Lanes <- {"client"}, lossy <- FALSE,
    stage <- [l \in {"client"} |-> RelayStage],
    pending <- [l \in {"client"} |-> Undelivered],
    arrived <- [l \in {"client"} |-> delivered]

(* Every relay, of whatever kind its goroutine is, delivers what is due in *)
(* order, is reported as a success only with nothing left on its way, and  *)
(* delivers nothing once it was broken off (openai.go:237-272,             *)
(* server.go:4543-4570).  RelayIsFaithful follows.                         *)
RelayDelivers == Relayed!Spec

(* The handler returns, even if the upstream stalls for ever.              *)
HandlerEnds == consumer.pc # "idle" ~> HandlerDone

(* What a goroutine sends fits in the channel, but for the chunk that a    *)
(* handler that has begun to receive has in its hand.                      *)
FitsChannel == Len(AllOf(answer)) <= ChannelCapacity + (IF CanFlush THEN 1 ELSE 0)

(* A goroutine that selects, or whose chunks fit, always ends, wherever    *)
(* the handler leaves it: only longer answers can hold it.                 *)
ShortProducerEnds ==
    consumer.pc # "idle" /\ (Selects \/ FitsChannel) ~> producer.pc = "ended"

(* Nothing is left of a request that was served, left or rejected, but for *)
(* goroutines with longer answers (openai.go:269, ollama.go:116,           *)
(* server.go:4545).                                                        *)
RelayEnds == HandlerEnds /\ ShortProducerEnds

(* api-reference.md:51: "Set "stream": true to receive Server-Sent Events  *)
(* (SSE) stream": an answer that comes whole, to a client that stays,      *)
(* is sent to it.                                                          *)
StreamIsSent ==
    consumer.pc = "start" ~> (early \/ ~Whole(answer) \/ delivered = AllOf(answer))

=============================================================================
