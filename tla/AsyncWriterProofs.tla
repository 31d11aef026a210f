-------------------------- MODULE AsyncWriterProofs -------------------------
(* That the log is complete and the shutdown clean, for any number of      *)
(* handlers, requests and channels, and channels and buffers of any size.  *)
EXTENDS AsyncWriter, SequenceTheorems, FiniteSetTheorems, TLAPS

(* A worker at its select has room in its buffer; Close is not called more *)
(* often than there are channels.                                          *)
Bounded ==
    /\ \A c \in LogChannels :
         worker[c] = "select" => Len(buffer[c]) < BufferSize
    /\ IsFiniteSet(closed)
    /\ main \in {"serving", "draining"} => closed = {}
    /\ main = "closing" => Cardinality(closed) < Len(CloseOrder)

Typed == WriterTypeOK /\ Bounded

(* A worker that has seen its channel closed has emptied it, and one that  *)
(* is gone holds nothing; the program stops after all of them.             *)
Drained ==
    /\ \A c \in Channels :
         /\ worker[c] \in {"drain", "exited"} => c \in closed /\ channel[c] = << >>
         /\ worker[c] = "exited" => ~Holds(c)
    /\ main = "stopped" => \A c \in Channels : worker[c] = "exited"

(* Unless Shutdown gave up, no handler is at work once the writer closes.  *)
Unhurried ==
    faults \cap {"slow", "listener"} = {} =>
      /\ main \notin {"serving", "draining"} => Idle
      /\ \A h \in Handlers : ~handler[h].panicked

-----------------------------------------------------------------------------
(* Sequences: a record that moves on keeps its turn. *)

LEMMA AppendAtEnd ==
    ASSUME NEW S, NEW s \in Seq(S), NEW t \in Seq(S), NEW e \in S
    PROVE  s \o Append(t, e) = Append(s \o t, e)
<1>1. Append(t, e) = t \o <<e>> /\ <<e>> \in Seq(S) /\ s \o t \in Seq(S)
    BY AppendIsConcat, ConcatProperties
<1> QED  BY <1>1, AppendIsConcat, ConcatAssociative

LEMMA HeadMovesOver ==
    ASSUME NEW S, NEW s \in Seq(S), NEW t \in Seq(S), t # << >>
    PROVE  Append(s, Head(t)) \o Tail(t) = s \o t
<1>1. Head(t) \in S /\ Tail(t) \in Seq(S) /\ <<Head(t)>> \in Seq(S)
    BY HeadTailProperties
<1>2. <<Head(t)>> \o Tail(t) = t
    BY <1>1
<1>3. Append(s, Head(t)) = s \o <<Head(t)>>
    BY <1>1, AppendIsConcat
<1> QED  BY <1>1, <1>2, <1>3, ConcatAssociative

LEMMA RecordsInTurn ==
    /\ \A s, t \in Seq(Record) : \A e \in Record :
         s \o Append(t, e) = Append(s \o t, e)
    /\ \A s, t, u \in Seq(Record) : (s \o t) \o u = s \o (t \o u)
<1>1. ASSUME NEW s \in Seq(Record), NEW t \in Seq(Record), NEW e \in Record
      PROVE  s \o Append(t, e) = Append(s \o t, e)
    BY AppendAtEnd
<1>2. ASSUME NEW s \in Seq(Record), NEW t \in Seq(Record), NEW u \in Seq(Record)
      PROVE  (s \o t) \o u = s \o (t \o u)
    BY ConcatAssociative
<1> QED  BY <1>1, <1>2

-----------------------------------------------------------------------------
(* Types and bounds. *)

LEMMA ChannelsFacts ==
    /\ Len(CloseOrder) \in Nat \ {0}
    /\ Quota \in Channels /\ Quota \notin LogChannels
    /\ Channels = LogChannels \cup {Quota}
    /\ \A i \in 1..Len(CloseOrder) : CloseOrder[i] \in Channels
<1>1. CloseOrder \in Seq(Channels) /\ Quota \in Channels
    BY WriterAssumption
<1>2. Len(CloseOrder) \in Nat
    BY <1>1
<1>3. 1..Len(CloseOrder) # {}
    BY <1>1 DEF Channels
<1> QED  BY <1>1, <1>2, <1>3 DEF LogChannels, Channels

LEMMA TypedInit == WriterInit => Typed
<1> SUFFICES ASSUME WriterInit PROVE Typed
    OBVIOUS
<1>1. BufferSize \in Nat \ {0} /\ Capacity \in Nat \ {0}
    BY WriterAssumption
<1>2. handler \in [Handlers -> [pc : HandlerStages, plan : Seq(Channels),
                                record : Record, panicked : BOOLEAN]]
    BY DEF WriterInit, HandlerStages, Record
<1>3. WriterTypeOK
    BY <1>1, <1>2 DEF WriterInit, WriterTypeOK, WorkerStages, MainStages, LogChannels
<1>4. Bounded
    BY <1>1, FS_EmptySet DEF WriterInit, Bounded
<1> QED  BY <1>3, <1>4 DEF Typed

HandlerRecord ==
    [pc : HandlerStages, plan : Seq(Channels), record : Record, panicked : BOOLEAN]

LEMMA HandlerMoves ==
    ASSUME NEW q \in HandlerRecord
    PROVE  /\ \A i \in Nat :
                [q EXCEPT !.pc = "engine", !.record.id = i] \in HandlerRecord
           /\ \A p \in Providers, s \in Seq(Channels) :
                [q EXCEPT !.pc = "emit", !.plan = s, !.record.provider = p]
                  \in HandlerRecord
           /\ \A s \in Seq(Channels) :
                /\ [q EXCEPT !.plan = s] \in HandlerRecord
                /\ \A b \in BOOLEAN :
                     [q EXCEPT !.plan = s, !.panicked = b] \in HandlerRecord
           /\ [q EXCEPT !.pc = "idle"] \in HandlerRecord
<1> USE DEF HandlerRecord, HandlerStages
<1>1. ASSUME NEW i \in Nat
      PROVE  [q EXCEPT !.pc = "engine", !.record.id = i] \in HandlerRecord
    BY DEF Record
<1>2. ASSUME NEW p \in Providers, NEW s \in Seq(Channels)
      PROVE  [q EXCEPT !.pc = "emit", !.plan = s, !.record.provider = p]
               \in HandlerRecord
    BY DEF Record
<1>3. ASSUME NEW s \in Seq(Channels)
      PROVE  [q EXCEPT !.plan = s] \in HandlerRecord
    OBVIOUS
<1>4. ASSUME NEW s \in Seq(Channels), NEW b \in BOOLEAN
      PROVE  [q EXCEPT !.plan = s, !.panicked = b] \in HandlerRecord
    OBVIOUS
<1>5. [q EXCEPT !.pc = "idle"] \in HandlerRecord
    OBVIOUS
<1> HIDE DEF HandlerRecord, HandlerStages
<1> QED  BY <1>1, <1>2, <1>3, <1>4, <1>5, Zenon

LEMMA HandlerTyped ==
    ASSUME handler \in [Handlers -> HandlerRecord], served \in Nat,
           NEW h \in Handlers, Arrive(h) \/ Serve(h)
    PROVE  handler' \in [Handlers -> HandlerRecord]
<1>1. handler[h] \in HandlerRecord /\ served + 1 \in Nat
    OBVIOUS
<1>2. CASE Arrive(h)
    <2>1. handler' = [handler EXCEPT ![h] = [handler[h] EXCEPT
                        !.pc = "engine", !.record.id = served + 1]]
        BY <1>2 DEF Arrive
    <2>2. [handler[h] EXCEPT !.pc = "engine", !.record.id = served + 1]
            \in HandlerRecord
        BY <1>1, HandlerMoves, Zenon
    <2> QED  BY <2>1, <2>2
<1>3. ASSUME NEW p \in Providers, NEW plan \in Plans, EngineReturns(h, p, plan)
      PROVE  handler' \in [Handlers -> HandlerRecord]
    <2>1. handler' = [handler EXCEPT ![h] = [handler[h] EXCEPT
                        !.pc = "emit", !.plan = plan, !.record.provider = p]]
        BY <1>3 DEF EngineReturns
    <2>2. plan \in Seq(Channels)
        BY WriterAssumption
    <2>3. [handler[h] EXCEPT !.pc = "emit", !.plan = plan, !.record.provider = p]
            \in HandlerRecord
        BY <1>1, <2>2, HandlerMoves, Zenon
    <2> QED  BY <2>1, <2>3
<1>4. CASE Emit(h)
    <2>1. << >> \in Seq(Channels) /\ TRUE \in BOOLEAN
        OBVIOUS
    <2>2. handler[h].plan \in Seq(Channels) /\ handler[h].plan # << >>
        BY <1>1, <1>4 DEF HandlerRecord, Emit
    <2>3. Tail(handler[h].plan) \in Seq(Channels)
        BY <2>2, HeadTailProperties
    <2>4. \/ handler' = [handler EXCEPT ![h] = [handler[h] EXCEPT
                           !.plan = << >>, !.panicked = TRUE]]
          \/ handler' = [handler EXCEPT ![h] = [handler[h] EXCEPT
                           !.plan = Tail(handler[h].plan)]]
        BY <1>4 DEF Emit
    <2>5. /\ [handler[h] EXCEPT !.plan = << >>, !.panicked = TRUE] \in HandlerRecord
          /\ [handler[h] EXCEPT !.plan = Tail(handler[h].plan)] \in HandlerRecord
        BY <1>1, <2>1, <2>3, HandlerMoves, Zenon
    <2> QED  BY <2>4, <2>5
<1>5. CASE Respond(h)
    <2>1. handler' = [handler EXCEPT ![h] = [handler[h] EXCEPT !.pc = "idle"]]
        BY <1>5 DEF Respond
    <2>2. [handler[h] EXCEPT !.pc = "idle"] \in HandlerRecord
        BY <1>1, HandlerMoves, Zenon
    <2> QED  BY <2>1, <2>2
<1> QED  BY <1>2, <1>3, <1>4, <1>5 DEF Serve

(* What Emit puts into a channel fits. *)
LEMMA TakesInTyped ==
    ASSUME WriterTypeOK, NEW c \in Channels, NEW r \in Record,
           HasRoom(c), TakesIn(c, r)
    PROVE  /\ channel' \in [Channels -> Seq(Record)]
           /\ \A d \in Channels : Len(channel'[d]) <= Capacity
           /\ accepted' \in [LogChannels -> Seq(Record)]
           /\ taken' \in [Providers -> Nat]
<1>1. /\ channel \in [Channels -> Seq(Record)]
      /\ \A d \in Channels : Len(channel[d]) <= Capacity
      /\ accepted \in [LogChannels -> Seq(Record)]
      /\ taken \in [Providers -> Nat]
    BY DEF WriterTypeOK
<1>2. channel[c] \in Seq(Record) /\ Len(channel[c]) < Capacity
    BY <1>1 DEF HasRoom
<1>3. /\ Append(channel[c], r) \in Seq(Record)
      /\ Len(Append(channel[c], r)) = Len(channel[c]) + 1
    BY <1>2, AppendProperties
<1>4. Len(Append(channel[c], r)) <= Capacity
    BY <1>2, <1>3, WriterAssumption
<1>5. channel' = [channel EXCEPT ![c] = Append(channel[c], r)]
    BY DEF TakesIn
<1>6. /\ channel' \in [Channels -> Seq(Record)]
      /\ \A d \in Channels :
           channel'[d] = IF d = c THEN Append(channel[c], r) ELSE channel[d]
    BY <1>1, <1>3, <1>5
<1>7. CASE c = Quota
    <2>1. r.provider \in Providers
        BY DEF Record
    <2>2. accepted' = accepted /\ taken' \in [Providers -> Nat]
        BY <1>1, <1>7, <2>1 DEF TakesIn
    <2> QED  BY <1>1, <1>4, <1>6, <2>2
<1>8. CASE c # Quota
    <2>1. c \in LogChannels /\ accepted[c] \in Seq(Record)
        BY <1>1, <1>8 DEF LogChannels
    <2>2. Append(accepted[c], r) \in Seq(Record)
        BY <2>1, AppendProperties
    <2>3. accepted' \in [LogChannels -> Seq(Record)] /\ taken' = taken
        BY <1>1, <1>8, <2>1, <2>2 DEF TakesIn
    <2> QED  BY <1>1, <1>4, <1>6, <2>3
<1> QED  BY <1>7, <1>8

(* The steps of a handler. *)
LEMMA TypedServe ==
    ASSUME Typed, NEW h \in Handlers, Arrive(h) \/ Serve(h), UNCHANGED faults
    PROVE  Typed'
<1> USE DEF Typed, WriterTypeOK, Bounded
<1>1. handler' \in [Handlers -> HandlerRecord]
    BY HandlerTyped DEF HandlerRecord
<1>2. UNCHANGED <<closed, worker, storing, main>> /\ served' \in Nat
    <2>1. CASE Arrive(h)
        BY <2>1 DEF Arrive
    <2>2. ASSUME NEW p \in Providers, NEW plan \in Plans, EngineReturns(h, p, plan)
          PROVE  UNCHANGED <<closed, worker, storing, main, served>>
        BY <2>2, Zenon DEF EngineReturns
    <2>3. CASE Emit(h) \/ Respond(h)
        BY <2>3 DEF Emit, Respond
    <2> QED  BY <2>1, <2>2, <2>3 DEF Serve
<1>3. CASE UNCHANGED <<channel, accepted, taken>>
    BY <1>1, <1>2, <1>3 DEF storing, HandlerRecord
<1>4. CASE Emit(h) /\ ~UNCHANGED <<channel, accepted, taken>>
    <2> DEFINE c == Head(handler[h].plan)
               r == handler[h].record
    <2>1. handler[h].plan \in Seq(Channels) /\ handler[h].plan # << >> /\ r \in Record
        BY <1>4 DEF Emit
    <2>2. c \in Channels
        BY <2>1, HeadTailProperties
    <2>3. HasRoom(c) /\ TakesIn(c, r)
        BY <1>4 DEF Emit
    <2>4. /\ channel' \in [Channels -> Seq(Record)]
          /\ \A d \in Channels : Len(channel'[d]) <= Capacity
          /\ accepted' \in [LogChannels -> Seq(Record)]
          /\ taken' \in [Providers -> Nat]
        BY <2>1, <2>2, <2>3, TakesInTyped
    <2> QED  BY <1>1, <1>2, <2>4 DEF storing, HandlerRecord
<1> QED  BY <1>3, <1>4 DEF Arrive, Serve, EngineReturns, Respond

(* The steps of a worker. *)
LEMMA TypedWorker ==
    ASSUME Typed, NEW c \in Channels, Worker(c), UNCHANGED faults
    PROVE  Typed'
<1> USE DEF Typed, WriterTypeOK, Bounded
<1>1. CASE c \in LogChannels /\ ReceiveLog(c)
    <2>1. /\ channel[c] \in Seq(Record) /\ channel[c] # << >>
          /\ buffer[c] \in Seq(Record) /\ Len(buffer[c]) < BufferSize
          /\ Len(channel[c]) <= Capacity
        BY <1>1 DEF ReceiveLog
    <2> DEFINE rest == Tail(channel[c])
               more == Append(buffer[c], Head(channel[c]))
    <2>2. /\ rest \in Seq(Record) /\ Len(rest) = Len(channel[c]) - 1
          /\ more \in Seq(Record) /\ Len(more) = Len(buffer[c]) + 1
        BY <2>1, HeadTailProperties, AppendProperties
    <2>3. /\ channel' = [channel EXCEPT ![c] = rest]
          /\ buffer' = [buffer EXCEPT ![c] = more]
          /\ worker' = [worker EXCEPT
                          ![c] = IF Len(more) >= BufferSize THEN "flush" ELSE @]
          /\ UNCHANGED <<emitting, closed, totals, written, row, main>>
        BY <1>1 DEF ReceiveLog
    <2>4. Len(rest) <= Capacity /\ Len(more) <= BufferSize
        BY <2>1, <2>2, WriterAssumption
    <2> HIDE DEF rest, more
    <2>5. /\ channel' \in [Channels -> Seq(Record)]
          /\ \A d \in Channels : Len(channel'[d]) <= Capacity
        BY <2>2, <2>3, <2>4
    <2>6. /\ buffer' \in [LogChannels -> Seq(Record)]
          /\ \A d \in LogChannels : Len(buffer'[d]) <= BufferSize
        BY <1>1, <2>2, <2>3, <2>4
    <2>7. /\ worker' \in [Channels -> WorkerStages]
          /\ \A d \in LogChannels :
               worker'[d] = "select" => Len(buffer'[d]) < BufferSize
        BY <1>1, <2>2, <2>3, WriterAssumption DEF WorkerStages, LogChannels
    <2> QED  BY <2>3, <2>5, <2>6, <2>7 DEF emitting
<1>2. CASE c \in LogChannels /\ WriteLog(c)
    <2>1. /\ buffer[c] \in Seq(Record) /\ buffer[c] # << >> /\ worker[c] # "select"
          /\ Len(buffer[c]) <= BufferSize
          /\ written[c] \in Seq(Record)
        BY <1>2 DEF WriteLog, Flushing
    <2> DEFINE rest == Tail(buffer[c])
               more == Append(written[c], Head(buffer[c]))
    <2>2. /\ rest \in Seq(Record) /\ Len(rest) = Len(buffer[c]) - 1
          /\ more \in Seq(Record)
        BY <2>1, HeadTailProperties, AppendProperties
    <2>3. /\ buffer' = [buffer EXCEPT ![c] = rest]
          /\ written' = [written EXCEPT ![c] = more] \/ written' = written
          /\ UNCHANGED <<emitting, channel, closed, worker, totals, row, main>>
        BY <1>2 DEF WriteLog
    <2>4. Len(rest) <= BufferSize
        BY <2>1, <2>2, WriterAssumption
    <2> HIDE DEF rest, more
    <2>5. /\ buffer' \in [LogChannels -> Seq(Record)]
          /\ \A d \in LogChannels : Len(buffer'[d]) <= BufferSize
          /\ \A d \in LogChannels :
               worker[d] = "select" => Len(buffer'[d]) < BufferSize
        BY <1>2, <2>1, <2>2, <2>3, <2>4
    <2>6. written' \in [LogChannels -> Seq(Record)]
        BY <1>2, <2>2, <2>3
    <2> QED  BY <2>3, <2>5, <2>6 DEF emitting
<1>3. CASE c = Quota /\ ReceiveQuota
    <2>1. channel[c] \in Seq(Record) /\ channel[c] # << >>
        BY <1>3 DEF ReceiveQuota
    <2> DEFINE rest == Tail(channel[c])
               p == Head(channel[c]).provider
    <2>2. rest \in Seq(Record) /\ Len(rest) = Len(channel[c]) - 1
        BY <2>1, HeadTailProperties
    <2>3. p \in Providers
        <3>1. Head(channel[c]) \in Record
            BY <2>1, HeadTailProperties
        <3> QED  BY <3>1 DEF Record
    <2>4. /\ channel' = [channel EXCEPT ![c] = rest]
          /\ totals' = [totals EXCEPT ![p] = @ + 1]
          /\ UNCHANGED <<emitting, closed, worker, buffer, written, row, main>>
        BY <1>3 DEF ReceiveQuota
    <2>5. Len(rest) <= Capacity
        BY <2>1, <2>2, WriterAssumption
    <2> HIDE DEF rest, p
    <2>6. /\ channel' \in [Channels -> Seq(Record)]
          /\ \A d \in Channels : Len(channel'[d]) <= Capacity
        BY <2>2, <2>4, <2>5
    <2>7. totals' \in [Providers -> Nat]
        BY <2>3, <2>4
    <2> QED  BY <2>4, <2>6, <2>7 DEF emitting
<1>4. ASSUME NEW p \in Providers, c = Quota, WriteQuota(p)
      PROVE  Typed'
    <2>1. totals' \in [Providers -> Nat] /\ row' \in [Providers -> Nat]
        BY <1>4 DEF WriteQuota
    <2>2. UNCHANGED <<emitting, channel, closed, worker, buffer, written, main>>
        BY <1>4 DEF WriteQuota
    <2> QED  BY <2>1, <2>2 DEF emitting
<1>5. CASE TickerFires(c) \/ SeesClosed(c)
    <2>1. UNCHANGED <<emitting, channel, closed, storing, main>>
        BY <1>5 DEF TickerFires, SeesClosed
    <2>2. /\ worker' \in [Channels -> WorkerStages]
          /\ \A d \in Channels : worker'[d] = "select" => worker[d] = "select"
        BY <1>5 DEF TickerFires, SeesClosed, WorkerStages
    <2> QED  BY <2>1, <2>2 DEF emitting, storing, LogChannels
<1>6. CASE FlushEnds(c)
    <2>1. UNCHANGED <<emitting, channel, closed, storing, main>>
        BY <1>6 DEF FlushEnds
    <2>2. /\ worker' \in [Channels -> WorkerStages]
          /\ \A d \in Channels \ {c} : worker'[d] = worker[d]
        BY <1>6 DEF FlushEnds, WorkerStages
    <2>3. c \in LogChannels => Len(buffer[c]) < BufferSize
        BY <1>6, WriterAssumption DEF FlushEnds, Holds, LogChannels
    <2> QED  BY <2>1, <2>2, <2>3 DEF emitting, storing, LogChannels
<1> QED  BY <1>1, <1>2, <1>3, <1>4, <1>5, <1>6 DEF Worker

(* The steps of the shutdown. *)
LEMMA TypedMain ==
    ASSUME Typed, Signal \/ Main, UNCHANGED faults
    PROVE  Typed'
<1> USE DEF Typed, WriterTypeOK, Bounded
<1>1. CASE Signal
    BY <1>1 DEF Signal, MainStages, emitting, storing
<1>2. CASE ServerReturns
    <2>1. closed = {} /\ Cardinality(closed) < Len(CloseOrder)
        <3>1. main \in {"serving", "draining"}
            BY <1>2 DEF ServerReturns
        <3>2. closed = {}
            BY <3>1
        <3>3. Cardinality(closed) = 0
            BY <3>2, FS_EmptySet, Zenon
        <3>4. Len(CloseOrder) \in Nat \ {0}
            BY ChannelsFacts, Zenon
        <3> HIDE DEF Typed
        <3> QED  BY <3>2, <3>3, <3>4
    <2> QED  BY <1>2, <2>1 DEF ServerReturns, MainStages, emitting, storing
<1>3. CASE CloseNext
    <2> DEFINE n == Cardinality(closed)
               c == CloseOrder[n + 1]
    <2>1. n \in Nat /\ n < Len(CloseOrder)
        BY <1>3, FS_CardinalityType DEF CloseNext
    <2>2. c \in Channels
        BY <2>1, ChannelsFacts
    <2>3. /\ IsFiniteSet(closed \cup {c})
          /\ Cardinality(closed \cup {c}) = IF c \in closed THEN n ELSE n + 1
        BY FS_AddElement
    <2>4. /\ closed' = closed \cup {c}
          /\ main' = IF n + 1 = Len(CloseOrder) THEN "waiting" ELSE "closing"
          /\ UNCHANGED <<emitting, channel, worker, storing>>
        BY <1>3 DEF CloseNext
    <2>5. main' = "closing" => Cardinality(closed') < Len(CloseOrder)
        BY <2>1, <2>3, <2>4, ChannelsFacts
    <2> HIDE DEF n, c
    <2> QED  BY <2>2, <2>3, <2>4, <2>5 DEF MainStages, emitting, storing
<1>4. CASE StopWriter
    BY <1>4 DEF StopWriter, MainStages, emitting, storing
<1> QED  BY <1>1, <1>2, <1>3, <1>4 DEF Main

-----------------------------------------------------------------------------
(* What a closed channel and a worker that left hold. *)

LEMMA DrainedStep ==
    ASSUME Typed, Drained, WriterNext
    PROVE  Drained'
<1>0. /\ channel \in [Channels -> Seq(Record)]
      /\ worker \in [Channels -> WorkerStages]
      /\ buffer \in [LogChannels -> Seq(Record)]
      /\ totals \in [Providers -> Nat]
    BY DEF Typed, WriterTypeOK
<1>1. ASSUME NEW h \in Handlers, Arrive(h) \/ Serve(h)
      PROVE  Drained'
    <2>1. UNCHANGED <<closed, worker, buffer, totals, main>>
        <3>1. CASE Arrive(h)
            BY <3>1 DEF Arrive, storing
        <3>2. ASSUME NEW p \in Providers, NEW plan \in Plans, EngineReturns(h, p, plan)
              PROVE  UNCHANGED <<closed, worker, buffer, totals, main>>
            BY <3>2, Zenon DEF EngineReturns, storing
        <3>3. CASE Emit(h) \/ Respond(h)
            BY <3>3 DEF Emit, Respond, storing
        <3> QED  BY <1>1, <3>1, <3>2, <3>3 DEF Serve
    <2>2. \A c \in closed : channel[c] = << >> => channel'[c] = << >>
        <3>1. CASE UNCHANGED channel
            BY <3>1
        <3>2. CASE Emit(h) /\ ~UNCHANGED channel
            <4> DEFINE c == Head(handler[h].plan)
            <4>1. c \notin closed /\ TakesIn(c, handler[h].record)
                BY <3>2 DEF Emit
            <4>2. \A d \in Channels \ {c} : channel'[d] = channel[d]
                BY <1>0, <4>1 DEF TakesIn
            <4> QED  BY <4>1, <4>2 DEF Typed, WriterTypeOK
        <3> QED  BY <1>1, <3>1, <3>2 DEF Arrive, Serve, EngineReturns, Respond
    <2>3. \A c \in Channels : Holds(c)' <=> Holds(c)
        BY <2>1 DEF Holds
    <2> QED  BY <2>1, <2>2, <2>3 DEF Drained
<1>2. ASSUME NEW c \in Channels, Worker(c)
      PROVE  Drained'
    <2>1. main # "stopped" /\ main' = main /\ closed' = closed
        BY <1>2 DEF Worker, Running, ReceiveLog, WriteLog, ReceiveQuota, WriteQuota,
                    TickerFires, SeesClosed, FlushEnds
    <2>2. /\ \A d \in Channels \ {c} : worker'[d] = worker[d] /\ channel'[d] = channel[d]
          /\ \A d \in LogChannels \ {c} : buffer'[d] = buffer[d]
          /\ c # Quota => totals' = totals
        BY <1>0, <1>2 DEF Worker, ReceiveLog, WriteLog, ReceiveQuota, WriteQuota,
                    TickerFires, SeesClosed, FlushEnds, storing
    <2>3. \A d \in Channels \ {c} : Holds(d)' => Holds(d)
        BY <2>2 DEF Holds, LogChannels
    <2>4. /\ worker'[c] \in {"drain", "exited"} => c \in closed /\ channel'[c] = << >>
          /\ worker'[c] = "exited" => ~Holds(c)'
        <3>1. CASE (c \in LogChannels /\ ReceiveLog(c)) \/ (c = Quota /\ ReceiveQuota)
            BY <1>0, <3>1 DEF ReceiveLog, ReceiveQuota
        <3>2. CASE c \in LogChannels /\ WriteLog(c)
            BY <3>2 DEF WriteLog, Flushing, Drained
        <3>3. ASSUME NEW p \in Providers, c = Quota, WriteQuota(p)
              PROVE  /\ worker'[c] \in {"drain", "exited"} =>
                          c \in closed /\ channel'[c] = << >>
                     /\ worker'[c] = "exited" => ~Holds(c)'
            BY <3>3 DEF WriteQuota, Flushing, Drained
        <3>4. CASE TickerFires(c) \/ SeesClosed(c)
            BY <1>0, <3>4 DEF TickerFires, SeesClosed
        <3>5. CASE FlushEnds(c)
            <4>1. Holds(c)' <=> Holds(c)
                BY <3>5 DEF FlushEnds, storing, Holds
            <4> QED  BY <1>0, <3>5, <4>1 DEF FlushEnds, Flushing, Drained
        <3> QED  BY <1>2, <3>1, <3>2, <3>3, <3>4, <3>5 DEF Worker
    <2> QED  BY <2>1, <2>2, <2>3, <2>4 DEF Drained
<1>3. CASE Signal \/ Main
    <2>1. UNCHANGED <<channel, worker, buffer, totals>> /\ closed \subseteq closed'
        BY <1>3 DEF Signal, Main, ServerReturns, CloseNext, StopWriter, storing
    <2>2. main' = "stopped" => \A c \in Channels : worker[c] = "exited"
        BY <1>3 DEF Signal, Main, ServerReturns, CloseNext, StopWriter
    <2>3. \A c \in Channels : Holds(c)' <=> Holds(c)
        BY <2>1 DEF Holds
    <2> QED  BY <2>1, <2>2, <2>3 DEF Drained
<1> QED  BY <1>1, <1>2, <1>3 DEF WriterNext, Step

-----------------------------------------------------------------------------
(* No record is lost or overtaken. *)

InTurn(c) == written[c] \o buffer[c] \o channel[c] = accepted[c]

LEMMA OrderKept ==
    ASSUME Typed, NothingLostOrReordered, WriterNext
    PROVE  NothingLostOrReordered'
<1> SUFFICES ASSUME "insert" \notin faults, NEW c \in LogChannels
             PROVE  InTurn(c)'
    BY DEF WriterNext, NothingLostOrReordered, InTurn
<1>1. /\ InTurn(c) /\ c \in Channels /\ c # Quota
      /\ channel \in [Channels -> Seq(Record)]
      /\ buffer \in [LogChannels -> Seq(Record)]
      /\ written \in [LogChannels -> Seq(Record)]
      /\ accepted \in [LogChannels -> Seq(Record)]
    BY DEF NothingLostOrReordered, InTurn, Typed, WriterTypeOK, LogChannels
<1>2. /\ written[c] \in Seq(Record) /\ buffer[c] \in Seq(Record)
      /\ channel[c] \in Seq(Record)
      /\ written[c] \o buffer[c] \in Seq(Record)
    BY <1>1, ConcatProperties
<1>3. CASE UNCHANGED <<written, buffer, channel, accepted>>
    BY <1>1, <1>3 DEF InTurn
<1>4. ASSUME NEW h \in Handlers, Emit(h)
      PROVE  InTurn(c)'
    <2> DEFINE d == Head(handler[h].plan)
               r == handler[h].record
    <2>1. UNCHANGED <<written, buffer>>
        BY <1>4 DEF Emit, storing
    <2>2. CASE UNCHANGED <<channel, accepted>>
        BY <1>3, <2>1, <2>2
    <2>3. CASE TakesIn(d, r)
        <3>1. r \in Record
            BY DEF Typed, WriterTypeOK
        <3>2. CASE d = c
            <4>1. /\ channel'[c] = Append(channel[c], r)
                  /\ accepted'[c] = Append(accepted[c], r)
                BY <1>1, <2>3, <3>2 DEF TakesIn
            <4>2. (written[c] \o buffer[c]) \o Append(channel[c], r)
                    = Append((written[c] \o buffer[c]) \o channel[c], r)
                BY <1>2, <3>1, RecordsInTurn, ZenonT(60)
            <4> QED  BY <1>1, <2>1, <4>1, <4>2 DEF InTurn
        <3>3. CASE d # c
            <4>1. channel'[c] = channel[c] /\ accepted'[c] = accepted[c]
                BY <1>1, <2>3, <3>3 DEF TakesIn
            <4> QED  BY <1>1, <2>1, <4>1 DEF InTurn
        <3> QED  BY <3>2, <3>3
    <2> QED  BY <1>4, <2>2, <2>3 DEF Emit
<1>5. ASSUME NEW d \in LogChannels, ReceiveLog(d)
      PROVE  InTurn(c)'
    <2>1. UNCHANGED <<written, accepted>>
        BY <1>5 DEF ReceiveLog, emitting
    <2>2. CASE d = c
        <3>1. /\ channel[c] # << >> /\ channel'[c] = Tail(channel[c])
              /\ buffer'[c] = Append(buffer[c], Head(channel[c]))
            BY <1>1, <1>5, <2>2 DEF ReceiveLog
        <3>2. buffer'[c] \o channel'[c] = buffer[c] \o channel[c]
            BY <1>2, <3>1, HeadMovesOver
        <3>3. Head(channel[c]) \in Record /\ channel'[c] \in Seq(Record)
            BY <1>2, <3>1, HeadTailProperties
        <3>4. buffer'[c] \in Seq(Record)
            BY <1>2, <3>1, <3>3, AppendProperties
        <3>5. written[c] \o buffer'[c] \o channel'[c]
                = written[c] \o (buffer'[c] \o channel'[c])
            BY <1>2, <3>3, <3>4, RecordsInTurn, ZenonT(60)
        <3>6. written[c] \o buffer[c] \o channel[c]
                = written[c] \o (buffer[c] \o channel[c])
            BY <1>2, RecordsInTurn, Zenon
        <3> QED  BY <1>1, <2>1, <3>2, <3>5, <3>6, Zenon DEF InTurn
    <2>3. CASE d # c
        BY <1>1, <1>5, <2>1, <2>3 DEF InTurn, ReceiveLog
    <2> QED  BY <2>2, <2>3
<1>6. ASSUME NEW d \in LogChannels, WriteLog(d)
      PROVE  InTurn(c)'
    <2>1. UNCHANGED <<channel, accepted>>
        BY <1>6 DEF WriteLog, emitting
    <2>2. CASE d = c
        <3>1. /\ buffer[c] # << >> /\ buffer'[c] = Tail(buffer[c])
              /\ written'[c] = Append(written[c], Head(buffer[c]))
            BY <1>1, <1>6, <2>2 DEF WriteLog
        <3>2. written'[c] \o buffer'[c] = written[c] \o buffer[c]
            BY <1>2, <3>1, HeadMovesOver
        <3> QED  BY <1>1, <2>1, <3>2 DEF InTurn
    <2>3. CASE d # c
        BY <1>1, <1>6, <2>1, <2>3 DEF InTurn, WriteLog
    <2> QED  BY <2>2, <2>3
<1>7. CASE ReceiveQuota
    BY <1>1, <1>7 DEF InTurn, ReceiveQuota, emitting
<1>8. ASSUME NEW p \in Providers, WriteQuota(p)
      PROVE  InTurn(c)'
    BY <1>1, <1>8 DEF InTurn, WriteQuota, emitting
<1>9. ASSUME NEW d \in Channels, TickerFires(d) \/ SeesClosed(d) \/ FlushEnds(d)
      PROVE  InTurn(c)'
    BY <1>3, <1>9 DEF TickerFires, SeesClosed, FlushEnds, emitting, storing
<1>10. CASE Signal \/ Main
    BY <1>3, <1>10 DEF Signal, Main, ServerReturns, CloseNext, StopWriter, emitting, storing
<1>11. ASSUME NEW h \in Handlers, Arrive(h) \/ Respond(h)
       PROVE  InTurn(c)'
    BY <1>3, <1>11 DEF Arrive, Respond, storing
<1>12. ASSUME NEW h \in Handlers, NEW p \in Providers, NEW plan \in Plans,
              EngineReturns(h, p, plan)
       PROVE  InTurn(c)'
    BY <1>3, <1>12 DEF EngineReturns, storing
<1> QED
    BY <1>4, <1>5, <1>6, <1>7, <1>8, <1>9, <1>10, <1>11, <1>12
       DEF WriterNext, Step, Serve, Worker

-----------------------------------------------------------------------------
(* No handler is at work once the writer closes. *)

LEMMA UnhurriedStep ==
    ASSUME Typed, Unhurried, WriterNext
    PROVE  Unhurried'
<1> SUFFICES ASSUME faults \cap {"slow", "listener"} = {}
             PROVE  /\ main' \notin {"serving", "draining"} => Idle'
                    /\ \A h \in Handlers : ~handler'[h].panicked
    BY DEF WriterNext, Unhurried
<1>1. /\ main \notin {"serving", "draining"} => Idle
      /\ \A h \in Handlers : ~handler[h].panicked
      /\ main \in {"serving", "draining"} => closed = {}
      /\ handler \in [Handlers -> HandlerRecord]
    BY DEF Unhurried, Typed, Bounded, WriterTypeOK, HandlerRecord
<1>2. ASSUME NEW h \in Handlers, Arrive(h) \/ Serve(h)
      PROVE  /\ main' \notin {"serving", "draining"} => Idle'
             /\ \A k \in Handlers : ~handler'[k].panicked
    <2>1. main \in {"serving", "draining"} /\ main' = main
        <3>1. CASE Arrive(h)
            BY <3>1 DEF Arrive
        <3>2. ASSUME NEW p \in Providers, NEW plan \in Plans, EngineReturns(h, p, plan)
              PROVE  main \in {"serving", "draining"} /\ main' = main
            BY <1>1, <3>2 DEF EngineReturns, Idle
        <3>3. CASE Emit(h) \/ Respond(h)
            BY <1>1, <3>3 DEF Emit, Respond, Idle
        <3> QED  BY <1>2, <3>1, <3>2, <3>3 DEF Serve
    <2>2. \A k \in Handlers : handler'[k].panicked = handler[k].panicked
        <3>1. CASE Arrive(h)
            BY <1>1, <3>1 DEF Arrive, HandlerRecord
        <3>2. ASSUME NEW p \in Providers, NEW plan \in Plans, EngineReturns(h, p, plan)
              PROVE  \A k \in Handlers : handler'[k].panicked = handler[k].panicked
            BY <1>1, <3>2 DEF EngineReturns, HandlerRecord
        <3>3. CASE Emit(h)
            <4>1. Head(handler[h].plan) \notin closed
                BY <1>1, <2>1
            <4>2. handler' = [handler EXCEPT ![h] = [handler[h] EXCEPT
                                !.plan = Tail(handler[h].plan)]]
                BY <3>3, <4>1 DEF Emit
            <4> QED  BY <1>1, <4>2 DEF HandlerRecord
        <3>4. CASE Respond(h)
            BY <1>1, <3>4 DEF Respond, HandlerRecord
        <3> QED  BY <1>2, <3>1, <3>2, <3>3, <3>4 DEF Serve
    <2> QED  BY <1>1, <2>1, <2>2
<1>3. ASSUME NEW c \in Channels, Worker(c)
      PROVE  main' = main /\ handler' = handler
    BY <1>3 DEF Worker, ReceiveLog, WriteLog, ReceiveQuota, WriteQuota, TickerFires,
                SeesClosed, FlushEnds, emitting
<1>4. CASE Signal \/ Main
    <2>1. handler' = handler
        BY <1>4 DEF Signal, Main, ServerReturns, CloseNext, StopWriter, emitting
    <2>2. main' \notin {"serving", "draining"} => Idle
        BY <1>1, <1>4 DEF Signal, Main, ServerReturns, CloseNext, StopWriter
    <2> QED  BY <1>1, <2>1, <2>2 DEF Idle
<1> QED  BY <1>1, <1>2, <1>3, <1>4 DEF WriterNext, Step, Idle

-----------------------------------------------------------------------------
IInv == Typed /\ Drained /\ NothingLostOrReordered /\ Unhurried

LEMMA IInvInit == WriterInit => IInv
<1> SUFFICES ASSUME WriterInit PROVE IInv
    OBVIOUS
<1>1. Typed
    BY TypedInit
<1>2. Drained
    BY DEF WriterInit, Drained
<1>3. NothingLostOrReordered
    <2>1. << >> \o << >> = << >>
        OBVIOUS
    <2> QED  BY <2>1 DEF WriterInit, NothingLostOrReordered, LogChannels
<1>4. Unhurried
    BY DEF WriterInit, Unhurried
<1> QED  BY <1>1, <1>2, <1>3, <1>4 DEF IInv

LEMMA IInvStep == IInv /\ [WriterNext]_writerVars => IInv'
<1>1. ASSUME IInv, UNCHANGED writerVars
      PROVE  IInv'
    BY <1>1 DEF IInv, Typed, WriterTypeOK, Bounded, Drained, Holds, Unhurried, Idle,
                NothingLostOrReordered, writerVars
<1>2. ASSUME IInv, WriterNext
      PROVE  IInv'
    <2>1. Typed'
        BY <1>2, TypedServe, TypedWorker, TypedMain DEF IInv, WriterNext, Step
    <2> QED  BY <1>2, <2>1, DrainedStep, OrderKept, UnhurriedStep DEF IInv
<1> QED  BY <1>1, <1>2

(* A worker that has left holds nothing, and nothing is left in a channel  *)
(* that it has seen closed; so at the end all that was accepted is written. *)
LEMMA DrainedMeansWritten == IInv => CloseDrains
<1> SUFFICES ASSUME IInv, main = "stopped"
             PROVE  /\ "insert" \notin faults =>
                         \A c \in LogChannels : written[c] = accepted[c]
                    /\ \A p \in Providers : totals[p] = 0
                    /\ \A c \in Channels : channel[c] = << >>
    BY DEF CloseDrains
<1>1. \A c \in Channels : channel[c] = << >> /\ ~Holds(c)
    BY DEF IInv, Drained
<1>2. \A p \in Providers : totals[p] = 0
    <2>1. ~Holds(Quota)
        BY <1>1, ChannelsFacts
    <2> QED  BY <2>1 DEF Holds, IInv, Typed, WriterTypeOK
<1>3. ASSUME "insert" \notin faults, NEW c \in LogChannels
      PROVE  written[c] = accepted[c]
    <2>1. buffer[c] = << >> /\ channel[c] = << >>
        BY <1>1 DEF Holds, LogChannels
    <2>2. written[c] \in Seq(Record)
        BY DEF IInv, Typed, WriterTypeOK
    <2>3. (written[c] \o << >>) \o << >> = written[c]
        BY <2>2, ConcatEmptySeq
    <2> QED  BY <1>3, <2>1, <2>3 DEF IInv, NothingLostOrReordered
<1> QED  BY <1>1, <1>2, <1>3

LEMMA Invariant == WriterSpec => []IInv
    BY IInvInit, IInvStep, PTL DEF WriterSpec

(* Every reachable state is well typed: no channel and no buffer holds     *)
(* more than it has room for.                                              *)
THEOREM WriterTypeCorrect == WriterSpec => []WriterTypeOK
<1>1. IInv => WriterTypeOK
    BY DEF IInv, Typed
<1> QED  BY <1>1, Invariant, PTL

(* Whatever handlers, ticker and Close do: a record that a channel took is *)
(* written, buffered or queued, in its turn, and when the program stops    *)
(* nothing is left behind.                                                 *)
THEOREM WriterKeepsLog == WriterSpec => []LogIsComplete
<1>1. IInv => LogIsComplete
    BY DrainedMeansWritten DEF IInv, LogIsComplete
<1> QED  BY <1>1, Invariant, PTL

(* Unless the shutdown gives up or the listener breaks, no handler sends   *)
(* on a closed channel.                                                    *)
THEOREM WriterNeverPanics == WriterSpec => []NoPanic
<1>1. IInv => NoPanic
    BY DEF IInv, Unhurried, NoPanic
<1> QED  BY <1>1, Invariant, PTL

-----------------------------------------------------------------------------
(* The log channels implement Delivery: every step is one of Delivery's.   *)

Stages == [c \in LogChannels |-> LogStage(c)]
Pending(c) == buffer[c] \o channel[c]
Pendings == [c \in LogChannels |-> Pending(c)]

LEMMA PrefixOfAppend ==
    ASSUME NEW S, NEW s \in Seq(S), NEW e \in S
    PROVE  Logged!IsPrefix(s, Append(s, e))
<1> DEFINE t == Append(s, e)
           u == SubSeq(t, 1, Len(s))
<1>1. /\ t \in Seq(S) /\ Len(t) = Len(s) + 1 /\ Len(s) \in Nat
      /\ \A i \in 1..Len(s) : t[i] = s[i]
    BY AppendProperties
<1>2. SubSeq(s, 1, Len(s)) = s
    BY SubSeqFull
<1> HIDE DEF t
<1>3. /\ u \in Seq(S) /\ Len(u) = IF 1 <= Len(s) THEN Len(s) - 1 + 1 ELSE 0
      /\ \A i \in 1..(Len(s) - 1 + 1) : u[i] = t[1 + i - 1]
    <2>1. 1 \in Int /\ Len(s) \in Int /\ \A i \in 1..Len(s) : i \in 1..Len(t)
        BY <1>1
    <2>2. \A i \in 1..Len(s) : t[i] \in S
        BY <1>1, <2>1, ElementOfSeq
    <2> QED  BY <2>1, <2>2, SubSeqProperties
<1> HIDE DEF u
<1>4. Len(u) = Len(s)
    BY <1>1, <1>3
<1>5. ASSUME NEW i \in 1..Len(s) PROVE u[i] = s[i]
    <2>1. i \in 1..(Len(s) - 1 + 1) /\ 1 + i - 1 = i
        BY <1>1
    <2> QED  BY <1>1, <1>3, <2>1
<1>6. u = s
    BY <1>3, <1>4, <1>5, SeqEqual
<1> QED  BY <1>1, <1>2, <1>6 DEF t, u, Logged!IsPrefix

LEMMA TailOfJoined ==
    ASSUME NEW S, NEW s \in Seq(S), NEW t \in Seq(S), s # << >>
    PROVE  /\ s \o t # << >> /\ Head(s \o t) = Head(s)
           /\ Tail(s \o t) = Tail(s) \o t
<1> DEFINE w == s \o t
           v == Tail(s) \o t
<1>1. /\ Tail(s) \in Seq(S) /\ Len(Tail(s)) = Len(s) - 1 /\ Len(s) \in Nat \ {0}
      /\ Head(s) = s[1] /\ \A i \in 1..Len(Tail(s)) : Tail(s)[i] = s[i + 1]
      /\ Len(t) \in Nat
    BY HeadTailProperties
<1>2. /\ w \in Seq(S) /\ Len(w) = Len(s) + Len(t)
      /\ \A i \in 1..(Len(s) + Len(t)) : w[i] = IF i <= Len(s) THEN s[i] ELSE t[i - Len(s)]
    BY ConcatProperties
<1>3. /\ v \in Seq(S) /\ Len(v) = Len(Tail(s)) + Len(t)
      /\ \A i \in 1..(Len(Tail(s)) + Len(t)) :
           v[i] = IF i <= Len(Tail(s)) THEN Tail(s)[i] ELSE t[i - Len(Tail(s))]
    BY <1>1, ConcatProperties
<1> HIDE DEF w, v
<1>4. w # << >>
    BY <1>1, <1>2
<1>5. /\ Head(w) = w[1] /\ Tail(w) \in Seq(S) /\ Len(Tail(w)) = Len(w) - 1
      /\ \A i \in 1..Len(Tail(w)) : Tail(w)[i] = w[i + 1]
    BY <1>2, <1>4, HeadTailProperties
<1>6. Head(w) = Head(s)
    <2>1. 1 \in 1..(Len(s) + Len(t)) /\ 1 <= Len(s)
        BY <1>1
    <2> QED  BY <1>1, <1>2, <1>5, <2>1
<1>7. Tail(w) = v
    <2>1. Len(Tail(w)) = Len(v)
        BY <1>1, <1>2, <1>3, <1>5
    <2>2. ASSUME NEW i \in 1..Len(v) PROVE Tail(w)[i] = v[i]
        <3>1. /\ i \in Nat \ {0} /\ i <= (Len(s) - 1) + Len(t) /\ i \in 1..Len(Tail(w))
              /\ i \in 1..(Len(Tail(s)) + Len(t)) /\ i + 1 \in 1..(Len(s) + Len(t))
            BY <1>1, <1>3, <2>1
        <3>2. Tail(w)[i] = w[i + 1]
            BY <1>5, <3>1
        <3>3. CASE i + 1 <= Len(s)
            <4>1. i \in 1..Len(Tail(s)) /\ i <= Len(Tail(s))
                BY <1>1, <3>1, <3>3
            <4>2. w[i + 1] = s[i + 1] /\ v[i] = Tail(s)[i] /\ Tail(s)[i] = s[i + 1]
                BY <1>1, <1>2, <1>3, <3>1, <3>3, <4>1
            <4> QED  BY <3>2, <4>2
        <3>4. CASE ~(i + 1 <= Len(s))
            <4>1. ~(i <= Len(Tail(s))) /\ (i + 1) - Len(s) = i - Len(Tail(s))
                BY <1>1, <3>1, <3>4
            <4>2. w[i + 1] = t[(i + 1) - Len(s)]
                BY <1>2, <3>1, <3>4
            <4>3. v[i] = t[i - Len(Tail(s))]
                BY <1>3, <3>1, <4>1
            <4> QED  BY <3>2, <4>1, <4>2, <4>3
        <3> QED  BY <3>3, <3>4
    <2> QED  BY <1>3, <1>5, <2>1, <2>2, SeqEqual
<1> QED  BY <1>4, <1>6, <1>7 DEF w, v

LEMMA LogTypes ==
    ASSUME IInv, NEW c \in LogChannels
    PROVE  /\ buffer[c] \in Seq(Record) /\ channel[c] \in Seq(Record)
           /\ written \in [LogChannels -> Seq(Record)] /\ c \in Channels /\ c # Quota
           /\ worker[c] \in WorkerStages /\ worker \in [Channels -> WorkerStages]
           /\ channel \in [Channels -> Seq(Record)] /\ buffer \in [LogChannels -> Seq(Record)]
BY DEF IInv, Typed, WriterTypeOK, LogChannels

(* A step in which no log channel takes part.                              *)
LEMMA LogsStay ==
    ASSUME UNCHANGED <<Stages, Pendings, written, faults>>
    PROVE  UNCHANGED Logged!deliveryVars
BY DEF Logged!deliveryVars, Stages, Pendings, Pending

LEMMA LogsAlone ==
    ASSUME \A c \in LogChannels : LogStage(c)' = LogStage(c) /\ Pending(c)' = Pending(c),
           written' = written, faults' = faults
    PROVE  UNCHANGED Logged!deliveryVars
<1>1. Stages' = Stages /\ Pendings' = Pendings
    BY DEF Stages, Pendings
<1> QED  BY <1>1, LogsStay

(* Delivery's steps on one log channel.                                    *)
OneMoves(c) ==
    \A d \in LogChannels \ {c} : LogStage(d)' = LogStage(d) /\ Pending(d)' = Pending(d)

LEMMA OneLane ==
    ASSUME NEW c \in LogChannels, OneMoves(c)
    PROVE  /\ Stages' = [Stages EXCEPT ![c] = LogStage(c)']
           /\ Pendings' = [Pendings EXCEPT ![c] = Pending(c)']
           /\ Stages[c] = LogStage(c) /\ Pendings[c] = Pending(c)
           /\ Pendings'[c] = Pending(c)'
           /\ LogStage(c)' = LogStage(c) => Stages' = Stages
           /\ Pending(c)' = Pending(c) => Pendings' = Pendings
<1>1. \A d \in LogChannels : /\ Stages'[d] = LogStage(d)' /\ Stages[d] = LogStage(d)
                             /\ Pendings'[d] = Pending(d)' /\ Pendings[d] = Pending(d)
    BY DEF Stages, Pendings
<1>2. /\ DOMAIN Stages = LogChannels /\ DOMAIN Stages' = LogChannels
      /\ DOMAIN Pendings = LogChannels /\ DOMAIN Pendings' = LogChannels
      /\ Stages = [d \in LogChannels |-> Stages[d]]
      /\ Stages' = [d \in LogChannels |-> Stages'[d]]
      /\ Pendings = [d \in LogChannels |-> Pendings[d]]
      /\ Pendings' = [d \in LogChannels |-> Pendings'[d]]
    BY DEF Stages, Pendings
<1>3. \A d \in LogChannels : d # c => /\ Stages'[d] = Stages[d]
                                      /\ Pendings'[d] = Pendings[d]
    BY <1>1 DEF OneMoves
<1>4. Stages' = [Stages EXCEPT ![c] = LogStage(c)']
    BY <1>1, <1>2, <1>3
<1>5. Pendings' = [Pendings EXCEPT ![c] = Pending(c)']
    BY <1>1, <1>2, <1>3
<1>6. ASSUME LogStage(c)' = LogStage(c) PROVE Stages' = Stages
    BY <1>1, <1>2, <1>3, <1>6
<1>7. ASSUME Pending(c)' = Pending(c) PROVE Pendings' = Pendings
    BY <1>1, <1>2, <1>3, <1>7
<1> QED  BY <1>1, <1>4, <1>5, <1>6, <1>7

LEMMA OpenLane ==
    ASSUME IInv, NEW c \in LogChannels, c \notin closed
    PROVE  LogStage(c) = "open"
<1>1. worker[c] # "exited"
    BY LogTypes DEF IInv, Drained
<1> QED  BY <1>1 DEF LogStage

(* A record goes in only where the channel is open.                        *)
LEMMA EmitHandsIn ==
    ASSUME IInv, NEW h \in Handlers, Emit(h), UNCHANGED faults
    PROVE  [Logged!Next]_(Logged!deliveryVars)
<1>0. PICK c, r : c = Head(handler[h].plan) /\ r = handler[h].record
    OBVIOUS
<1>1. UNCHANGED <<closed, worker, buffer, written, faults>>
    BY DEF Emit, storing
<1>2. /\ handler[h].plan \in Seq(Channels) /\ handler[h].plan # << >> /\ r \in Record
      /\ channel \in [Channels -> Seq(Record)] /\ buffer \in [LogChannels -> Seq(Record)]
    BY <1>0 DEF IInv, Typed, WriterTypeOK, Emit
<1>3. c \in Channels
    BY <1>0, <1>2, HeadTailProperties
<1>4. channel' = channel \/ (c \notin closed /\ TakesIn(c, r))
    BY <1>0 DEF Emit
<1>5. \A d \in LogChannels : LogStage(d)' = LogStage(d)
    BY <1>1 DEF LogStage
<1>6. CASE channel' = channel
    <2>1. \A d \in LogChannels : Pending(d)' = Pending(d)
        BY <1>1, <1>6 DEF Pending
    <2> QED  BY <1>1, <1>5, <2>1, LogsAlone
<1>7. CASE c \notin closed /\ TakesIn(c, r)
    <2>1. channel' = [channel EXCEPT ![c] = Append(channel[c], r)]
        BY <1>7 DEF TakesIn
    <2>2. \A d \in LogChannels : d # c => Pending(d)' = Pending(d)
        BY <1>1, <1>2, <2>1 DEF Pending, LogChannels
    <2>3. CASE c = Quota
        <3>1. \A d \in LogChannels : Pending(d)' = Pending(d)
            BY <2>2, <2>3 DEF LogChannels
        <3> QED  BY <1>1, <1>5, <3>1, LogsAlone
    <2>4. CASE c # Quota
        <3>1. c \in LogChannels
            BY <1>3, <2>4 DEF LogChannels
        <3>2. OneMoves(c)
            BY <1>5, <2>2 DEF OneMoves
        <3>3. Pending(c)' = Append(Pending(c), r)
            <4>1. buffer[c] \in Seq(Record) /\ channel[c] \in Seq(Record)
                BY <3>1, LogTypes
            <4>2. channel'[c] = Append(channel[c], r)
                BY <1>2, <1>3, <2>1
            <4>3. buffer[c] \o Append(channel[c], r) = Append(buffer[c] \o channel[c], r)
                BY <1>2, <4>1, RecordsInTurn, Zenon
            <4> QED  BY <1>1, <4>2, <4>3 DEF Pending
        <3>4. Pending(c) \in Seq(Record)
            BY <3>1, LogTypes, ConcatProperties DEF Pending
        <3>5. Logged!IsPrefix(Pending(c), Append(Pending(c), r))
            BY <1>2, <3>4, PrefixOfAppend
        <3>6. /\ Stages[c] = "open" /\ Stages' = Stages
              /\ Pendings[c] = Pending(c) /\ Pendings'[c] = Append(Pending(c), r)
              /\ Pendings' = [Pendings EXCEPT ![c] = Pendings'[c]]
            BY <1>5, <1>7, <3>1, <3>2, <3>3, OneLane, OpenLane
        <3>7. Logged!IsPrefix(Pendings[c], Pendings'[c])
            BY <3>5, <3>6
        <3>8. Logged!HandIn(c)
            BY <1>1, <3>6, <3>7 DEF Logged!HandIn, Stages, Pendings, Pending
        <3> QED  BY <3>1, <3>8 DEF Logged!Next
    <2> QED  BY <2>3, <2>4
<1> QED  BY <1>4, <1>6, <1>7

(* The rest of what a handler does leaves the log alone.                   *)
LEMMA ServeDelivers ==
    ASSUME IInv, NEW h \in Handlers, Arrive(h) \/ Serve(h), UNCHANGED faults
    PROVE  [Logged!Next]_(Logged!deliveryVars)
<1>1. CASE UNCHANGED <<closed, worker, buffer, written, channel>>
    <2>1. \A d \in LogChannels : LogStage(d)' = LogStage(d) /\ Pending(d)' = Pending(d)
        BY <1>1 DEF LogStage, Pending
    <2> QED  BY <1>1, <2>1, LogsAlone
<1>2. CASE Emit(h)
    BY <1>2, EmitHandsIn
<1>3. CASE Arrive(h) \/ Respond(h)
    BY <1>1, <1>3 DEF Arrive, Respond, storing
<1>4. ASSUME NEW p \in Providers, NEW plan \in Plans, EngineReturns(h, p, plan)
      PROVE  UNCHANGED <<closed, worker, buffer, written, channel>>
    BY <1>4, Zenon DEF EngineReturns, storing
<1> QED  BY <1>1, <1>2, <1>3, <1>4 DEF Serve

(* From the channel to the buffer, a record keeps its turn.                *)
LEMMA ReceiveStutters ==
    ASSUME IInv, NEW c \in LogChannels, ReceiveLog(c), UNCHANGED faults
    PROVE  UNCHANGED Logged!deliveryVars
<1>1. /\ buffer[c] \in Seq(Record) /\ channel[c] \in Seq(Record)
      /\ channel \in [Channels -> Seq(Record)] /\ buffer \in [LogChannels -> Seq(Record)]
      /\ worker \in [Channels -> WorkerStages] /\ c \in Channels
    BY LogTypes
<1>2. /\ channel[c] # << >> /\ worker[c] = "select"
      /\ channel' = [channel EXCEPT ![c] = Tail(channel[c])]
      /\ buffer' = [buffer EXCEPT ![c] = Append(buffer[c], Head(channel[c]))]
      /\ UNCHANGED <<closed, written>>
      /\ \A d \in Channels \ {c} : worker'[d] = worker[d]
      /\ worker'[c] # "exited"
    BY <1>1 DEF ReceiveLog
<1>3. \A d \in LogChannels : LogStage(d)' = LogStage(d)
    BY <1>2 DEF LogStage, LogChannels
<1>4. Pending(c)' = Pending(c)
    <2>1. Append(buffer[c], Head(channel[c])) \o Tail(channel[c]) = buffer[c] \o channel[c]
        BY <1>1, <1>2, HeadMovesOver
    <2>2. buffer'[c] = Append(buffer[c], Head(channel[c])) /\ channel'[c] = Tail(channel[c])
        BY <1>1, <1>2
    <2> QED  BY <2>1, <2>2 DEF Pending
<1>5. \A d \in LogChannels \ {c} : Pending(d)' = Pending(d)
    BY <1>1, <1>2 DEF Pending, LogChannels
<1> QED  BY <1>2, <1>3, <1>4, <1>5, LogsAlone

(* From the buffer to the database, or lost to a failed insert.            *)
LEMMA WriteDelivers ==
    ASSUME IInv, NEW c \in LogChannels, WriteLog(c), UNCHANGED faults
    PROVE  Logged!Next
<1>1. /\ buffer[c] \in Seq(Record) /\ channel[c] \in Seq(Record)
      /\ buffer \in [LogChannels -> Seq(Record)] /\ c \in Channels
      /\ written \in [LogChannels -> Seq(Record)]
    BY LogTypes
<1>2. /\ buffer[c] # << >> /\ worker[c] \in {"flush", "drain"}
      /\ buffer' = [buffer EXCEPT ![c] = Tail(buffer[c])]
      /\ UNCHANGED <<closed, worker, channel, faults>>
      /\ \/ written' = [written EXCEPT ![c] = Append(written[c], Head(buffer[c]))]
         \/ "insert" \in faults /\ written' = written
    BY DEF WriteLog, Flushing, emitting
<1>3. /\ \A d \in LogChannels : LogStage(d)' = LogStage(d)
      /\ LogStage(c) \in {"open", "closed"}
    BY <1>2 DEF LogStage
<1>4. \A d \in LogChannels \ {c} : Pending(d)' = Pending(d)
    BY <1>1, <1>2 DEF Pending
<1>5. /\ Pending(c) # << >> /\ Head(Pending(c)) = Head(buffer[c])
      /\ Pending(c)' = Tail(Pending(c))
    <2>1. buffer'[c] = Tail(buffer[c]) /\ channel'[c] = channel[c]
        BY <1>1, <1>2
    <2>2. /\ buffer[c] \o channel[c] # << >>
          /\ Head(buffer[c] \o channel[c]) = Head(buffer[c])
          /\ Tail(buffer[c] \o channel[c]) = Tail(buffer[c]) \o channel[c]
        BY <1>1, <1>2, TailOfJoined
    <2> QED  BY <2>1, <2>2 DEF Pending
<1>6. OneMoves(c)
    BY <1>3, <1>4 DEF OneMoves
<1>7. /\ Stages[c] \in {"open", "closed"} /\ Stages' = Stages
      /\ Pendings[c] = Pending(c)
      /\ Pendings' = [Pendings EXCEPT ![c] = Tail(Pendings[c])]
    BY <1>3, <1>5, <1>6, OneLane
<1>8. CASE written' = [written EXCEPT ![c] = Append(written[c], Head(buffer[c]))]
    <2>1. written' = [written EXCEPT ![c] = Append(written[c], Head(Pendings[c]))]
        BY <1>5, <1>7, <1>8
    <2>2. Logged!Deliver(c)
        BY <1>2, <1>5, <1>7, <2>1 DEF Logged!Deliver, Stages, Pendings, Pending
    <2> QED  BY <2>2 DEF Logged!Next
<1>9. CASE "insert" \in faults /\ written' = written
    <2>1. Logged!Lose(c)
        BY <1>2, <1>5, <1>7, <1>9 DEF Logged!Lose, Stages, Pendings, Pending
    <2> QED  BY <2>1 DEF Logged!Next
<1> QED  BY <1>2, <1>8, <1>9

(* A worker that leaves has nothing of its channel left.                   *)
LEMMA FlushFinishes ==
    ASSUME IInv, NEW c \in Channels, FlushEnds(c), UNCHANGED faults
    PROVE  [Logged!Next]_(Logged!deliveryVars)
<1>1. /\ worker \in [Channels -> WorkerStages] /\ worker[c] \in {"flush", "drain"}
      /\ ~Holds(c) /\ UNCHANGED <<channel, closed, buffer, written, faults>>
      /\ worker' = [worker EXCEPT ![c] = IF worker[c] = "drain" THEN "exited" ELSE "select"]
    BY DEF FlushEnds, Flushing, IInv, Typed, WriterTypeOK, emitting, storing
<1>2. \A d \in LogChannels : Pending(d)' = Pending(d)
    BY <1>1 DEF Pending
<1>3. \A d \in LogChannels : d # c => LogStage(d)' = LogStage(d)
    BY <1>1 DEF LogStage, LogChannels
<1>4. CASE c = Quota \/ worker[c] = "flush"
    <2>1. \A d \in LogChannels : LogStage(d)' = LogStage(d)
        BY <1>1, <1>3, <1>4 DEF LogStage, LogChannels
    <2> QED  BY <1>1, <1>2, <2>1, LogsAlone
<1>5. CASE c # Quota /\ worker[c] = "drain"
    <2>1. c \in LogChannels
        BY <1>5 DEF LogChannels
    <2>2. buffer[c] = << >> /\ channel[c] = << >> /\ c \in closed
        BY <1>1, <1>5 DEF Holds, IInv, Drained
    <2>3. Pending(c) = << >>
        <3>1. << >> \o << >> = << >>
            OBVIOUS
        <3> QED  BY <2>2, <3>1 DEF Pending
    <2>4. LogStage(c) = "closed" /\ LogStage(c)' = "done"
        BY <1>1, <1>5, <2>2 DEF LogStage
    <2>5. OneMoves(c)
        BY <1>2, <1>3 DEF OneMoves
    <2>6. /\ Stages[c] = "closed" /\ Stages' = [Stages EXCEPT ![c] = "done"]
          /\ Pendings[c] = << >> /\ Pendings' = Pendings
        BY <1>2, <2>1, <2>3, <2>4, <2>5, OneLane
    <2>7. Logged!Finish(c)
        BY <1>1, <2>6 DEF Logged!Finish, Stages, Pendings, Pending
    <2> QED  BY <2>1, <2>7 DEF Logged!Next
<1> QED  BY <1>1, <1>4, <1>5

LEMMA WorkerDelivers ==
    ASSUME IInv, NEW c \in Channels, Worker(c), UNCHANGED faults
    PROVE  [Logged!Next]_(Logged!deliveryVars)
<1>1. CASE c \in LogChannels /\ ReceiveLog(c)
    BY <1>1, ReceiveStutters
<1>2. CASE c \in LogChannels /\ WriteLog(c)
    BY <1>2, WriteDelivers
<1>3. CASE ReceiveQuota \/ \E p \in Providers : WriteQuota(p)
    <2>1. UNCHANGED <<closed, worker, buffer, written>>
        BY <1>3 DEF ReceiveQuota, WriteQuota
    <2>2. \A d \in LogChannels : channel'[d] = channel[d]
        BY <1>3 DEF ReceiveQuota, WriteQuota, IInv, Typed, WriterTypeOK, LogChannels
    <2>3. \A d \in LogChannels : LogStage(d)' = LogStage(d) /\ Pending(d)' = Pending(d)
        BY <2>1, <2>2 DEF LogStage, Pending
    <2> QED  BY <2>1, <2>3, LogsAlone
<1>4. CASE TickerFires(c) \/ SeesClosed(c)
    <2>1. /\ UNCHANGED <<closed, channel, buffer, written>>
          /\ worker[c] = "select" /\ worker'[c] # "exited"
          /\ \A d \in Channels \ {c} : worker'[d] = worker[d]
        BY <1>4 DEF TickerFires, SeesClosed, storing, IInv, Typed, WriterTypeOK
    <2>2. \A d \in LogChannels : LogStage(d)' = LogStage(d) /\ Pending(d)' = Pending(d)
        BY <2>1 DEF LogStage, Pending, LogChannels
    <2> QED  BY <2>1, <2>2, LogsAlone
<1>5. CASE FlushEnds(c)
    BY <1>5, FlushFinishes
<1> QED  BY <1>1, <1>2, <1>3, <1>4, <1>5 DEF Worker

(* Close closes an open channel; Run does nothing else to the log.         *)
LEMMA MainDelivers ==
    ASSUME IInv, Signal \/ Main, UNCHANGED faults
    PROVE  [Logged!Next]_(Logged!deliveryVars)
<1>1. UNCHANGED <<worker, channel, buffer, written, faults>>
    BY DEF Signal, Main, ServerReturns, CloseNext, StopWriter, storing
<1>2. \A d \in LogChannels : Pending(d)' = Pending(d)
    BY <1>1 DEF Pending
<1>3. CASE closed' = closed
    <2>1. \A d \in LogChannels : LogStage(d)' = LogStage(d)
        BY <1>1, <1>3 DEF LogStage
    <2> QED  BY <1>1, <1>2, <2>1, LogsAlone
<1>4. CASE CloseNext
    <2>1. PICK c : closed' = closed \cup {c}
        BY <1>4 DEF CloseNext
    <2>2. \A d \in LogChannels : d # c => LogStage(d)' = LogStage(d)
        BY <1>1, <2>1 DEF LogStage
    <2>3. CASE c \notin LogChannels
        <3>1. \A d \in LogChannels : LogStage(d)' = LogStage(d)
            BY <2>2, <2>3
        <3> QED  BY <1>1, <1>2, <3>1, LogsAlone
    <2>4. CASE c \in closed
        BY <1>3, <2>1, <2>4
    <2>5. CASE c \in LogChannels /\ c \notin closed
        <3>1. LogStage(c) = "open"
            BY <2>5, OpenLane
        <3>2. LogStage(c)' = "closed"
            BY <1>1, <2>1, <3>1 DEF LogStage
        <3>3. OneMoves(c)
            BY <1>2, <2>2 DEF OneMoves
        <3>4. /\ Stages[c] = "open" /\ Stages' = [Stages EXCEPT ![c] = "closed"]
              /\ Pendings' = Pendings
            BY <1>2, <2>5, <3>1, <3>2, <3>3, OneLane
        <3>5. Logged!Close(c)
            BY <1>1, <3>4 DEF Logged!Close, Stages, Pendings, Pending
        <3> QED  BY <2>5, <3>5 DEF Logged!Next
    <2> QED  BY <2>3, <2>4, <2>5
<1> QED  BY <1>3, <1>4 DEF Signal, Main, ServerReturns, StopWriter

LEMMA DeliveryInit == WriterInit => Logged!Init
<1> SUFFICES ASSUME WriterInit PROVE Logged!Init
    OBVIOUS
<1>1. \A c \in LogChannels : LogStage(c) = "open"
    BY DEF WriterInit, LogStage, LogChannels
<1>2. \A c \in LogChannels : Pending(c) = << >>
    <2>1. << >> \o << >> = << >>
        OBVIOUS
    <2> QED  BY <2>1 DEF WriterInit, Pending, LogChannels
<1>3. Stages = [l \in LogChannels |-> "open"] /\ Pendings = [l \in LogChannels |-> << >>]
    BY <1>1, <1>2 DEF Stages, Pendings
<1> QED  BY <1>3 DEF Logged!Init, Stages, Pendings, Pending, WriterInit

LEMMA DeliveryStep ==
    IInv /\ [WriterNext]_writerVars => [Logged!Next]_(Logged!deliveryVars)
<1>1. ASSUME IInv, UNCHANGED writerVars
      PROVE  UNCHANGED Logged!deliveryVars
    <2>1. UNCHANGED <<closed, worker, channel, buffer, written, faults>>
        BY <1>1 DEF writerVars
    <2>2. \A d \in LogChannels : LogStage(d)' = LogStage(d) /\ Pending(d)' = Pending(d)
        BY <2>1 DEF LogStage, Pending
    <2> QED  BY <2>1, <2>2, LogsAlone
<1>2. ASSUME IInv, WriterNext
      PROVE  [Logged!Next]_(Logged!deliveryVars)
    BY <1>2, ServeDelivers, WorkerDelivers, MainDelivers DEF WriterNext, Step
<1> QED  BY <1>1, <1>2

(* The log channels, their buffers and their workers are a queue each:     *)
(* records reach the database one at a time and in the order in which they *)
(* were logged, none is taken after the close, and a worker leaves only    *)
(* when all it took has been written, or lost to a failed insert.          *)
THEOREM WriterImplementsDelivery == WriterSpec => WriterDelivers
<1>1. WriterInit => Logged!Init
    BY DeliveryInit
<1>2. IInv /\ [WriterNext]_writerVars => [Logged!Next]_(Logged!deliveryVars)
    BY DeliveryStep
<1> QED  BY <1>1, <1>2, Invariant, PTL DEF WriterSpec, WriterDelivers, Logged!Spec

=============================================================================
