---------------------------- MODULE AsyncWriter -----------------------------
(***************************************************************************)
(* AsyncWriter (internal/storage/writer.go) together with what feeds it    *)
(* and what stops it: the request handlers of internal/api/server.go, the  *)
(* graceful shutdown of ListenAndServe, and the deferred closes of Run     *)
(* (internal/app/app.go), which close the writer and then the database.    *)
(*                                                                         *)
(* A channel has a worker.  The workers of LogChannels collect records in  *)
(* a buffer and write them one by one; the worker of Quota adds records up *)
(* per provider and overwrites the row of the day.  Within one day a       *)
(* provider has one row; every record stands for one token.                *)
(***************************************************************************)
EXTENDS Integers, Sequences, FiniteSets

CONSTANTS
    Handlers,    \* request handler goroutines
    Providers,   \* each with the one account "default"
    Plans,       \* what a request may emit: sequences of channels
    CloseOrder,  \* the channels in the order Close closes them
    Quota,       \* the one of them that adds records up
    Capacity,    \* of each channel (1000)
    BufferSize,  \* a worker flushes that many records at once (100)
    MaxRequests, \* bound: requests served
    FaultSets    \* what may go wrong: sets of "insert", "slow", "listener"

Channels == {CloseOrder[i] : i \in 1..Len(CloseOrder)}
LogChannels == Channels \ {Quota}

ASSUME WriterAssumption ==
    /\ Capacity \in Nat \ {0}
    /\ BufferSize \in Nat \ {0}
    /\ CloseOrder \in Seq(Channels) /\ Quota \in Channels
    /\ Plans \subseteq Seq(Channels)
    /\ FaultSets \subseteq SUBSET {"insert", "slow", "listener"}

VARIABLES
    handler,   \* [pc, plan, record, provider] of each handler
    served,    \* requests accepted so far
    channel,   \* w.requestCh, w.usageCh, w.detailsCh, w.quotaCh
    closed,    \* the channels that have been closed
    worker,    \* where each worker is
    buffer,    \* buffer of a log worker
    totals,    \* totals of the quota worker
    main,      \* where Run is
    accepted,  \* history: the records each channel took
    written,   \* the records handed to the database, in order
    row,       \* today's quota row of each provider
    taken,     \* history: tokens the quota channel took per provider
    faults     \* the faults of this behaviour; never changes

emitting == <<handler, served, accepted, taken>>
storing == <<buffer, totals, written, row>>
writerVars == <<handler, served, channel, closed, worker, buffer, totals, main,
          accepted, written, row, taken, faults>>

Record == [id : Nat, provider : Providers]

HandlerStages == {"idle", "engine", "emit"}
MainStages == {"serving", "draining", "closing", "waiting", "stopped"}
WorkerStages == {"select", "flush", "drain", "exited"}

WriterTypeOK ==
    /\ handler \in [Handlers -> [pc : HandlerStages, plan : Seq(Channels),
                                 record : Record, panicked : BOOLEAN]]
    /\ served \in Nat
    /\ channel \in [Channels -> Seq(Record)]
    /\ \A c \in Channels : Len(channel[c]) <= Capacity
    /\ closed \in SUBSET Channels
    /\ worker \in [Channels -> WorkerStages]
    /\ buffer \in [LogChannels -> Seq(Record)]
    /\ \A c \in LogChannels : Len(buffer[c]) <= BufferSize
    /\ totals \in [Providers -> Nat]
    /\ main \in MainStages
    /\ accepted \in [LogChannels -> Seq(Record)]
    /\ written \in [LogChannels -> Seq(Record)]
    /\ row \in [Providers -> Nat] /\ taken \in [Providers -> Nat]
    /\ faults \in FaultSets

WriterInit ==
    /\ \E p \in Providers :
         handler = [h \in Handlers |->
                      [pc |-> "idle", plan |-> << >>, panicked |-> FALSE,
                       record |-> [id |-> 0, provider |-> p]]]
    /\ served = 0
    /\ channel = [c \in Channels |-> << >>]
    /\ closed = {}
    /\ worker = [c \in Channels |-> "select"]
    /\ buffer = [c \in LogChannels |-> << >>]
    /\ totals = [p \in Providers |-> 0]
    /\ main = "serving"
    /\ accepted = [c \in LogChannels |-> << >>]
    /\ written = [c \in LogChannels |-> << >>]
    /\ row = [p \in Providers |-> 0]
    /\ taken = [p \in Providers |-> 0]
    /\ faults \in FaultSets

Running == main # "stopped"

-----------------------------------------------------------------------------
(* A handler. *)

Arrive(h) ==
    /\ main = "serving" /\ handler[h].pc = "idle"
    /\ served < MaxRequests
    /\ served' = served + 1
    /\ handler' = [handler EXCEPT ![h].pc = "engine",
                                  ![h].record.id = served + 1]
    /\ UNCHANGED <<channel, closed, worker, storing, main, accepted, taken>>

(* The engine answers: the provider and the outcome decide what is logged. *)
EngineReturns(h, p, plan) ==
    /\ Running /\ handler[h].pc = "engine"
    /\ handler' = [handler EXCEPT ![h].pc = "emit", ![h].plan = plan,
                                  ![h].record.provider = p]
    /\ UNCHANGED <<served, channel, closed, worker, storing, main, accepted,
                   taken>>

HasRoom(c) == Len(channel[c]) < Capacity

(* The select with a default: take the record, or drop it when the channel *)
(* is full; on a closed channel the send panics, and PanicRecovery ends    *)
(* the request.                                                            *)
TakesIn(c, r) ==
    /\ channel' = [channel EXCEPT ![c] = Append(@, r)]
    /\ IF c = Quota
       THEN taken' = [taken EXCEPT ![r.provider] = @ + 1] /\ UNCHANGED accepted
       ELSE accepted' = [accepted EXCEPT ![c] = Append(@, r)] /\ UNCHANGED taken

Emit(h) ==
    LET c == Head(handler[h].plan)
    IN  /\ Running /\ handler[h].pc = "emit" /\ handler[h].plan # << >>
        /\ IF c \in closed
           THEN /\ handler' = [handler EXCEPT ![h].plan = << >>,
                                              ![h].panicked = TRUE]
                /\ UNCHANGED <<channel, accepted, taken>>
           ELSE /\ handler' = [handler EXCEPT ![h].plan = Tail(@)]
                /\ IF HasRoom(c)
                   THEN TakesIn(c, handler[h].record)
                   ELSE UNCHANGED <<channel, accepted, taken>>
        /\ UNCHANGED <<served, closed, worker, storing, main>>

Respond(h) ==
    /\ Running /\ handler[h].pc = "emit" /\ handler[h].plan = << >>
    /\ handler' = [handler EXCEPT ![h].pc = "idle"]
    /\ UNCHANGED <<served, channel, closed, worker, storing, main, accepted,
                   taken>>

-----------------------------------------------------------------------------
(* The workers. *)

ReceiveLog(c) ==
    /\ worker[c] = "select" /\ channel[c] # << >>
    /\ channel' = [channel EXCEPT ![c] = Tail(@)]
    /\ buffer' = [buffer EXCEPT ![c] = Append(@, Head(channel[c]))]
    /\ worker' = [worker EXCEPT
                    ![c] = IF Len(buffer'[c]) >= BufferSize THEN "flush" ELSE @]
    /\ UNCHANGED <<emitting, closed, totals, written, row, main>>

ReceiveQuota ==
    /\ worker[Quota] = "select" /\ channel[Quota] # << >>
    /\ channel' = [channel EXCEPT ![Quota] = Tail(@)]
    /\ totals' = [totals EXCEPT ![Head(channel[Quota]).provider] = @ + 1]
    /\ UNCHANGED <<emitting, closed, worker, buffer, written, row, main>>

Holds(c) ==
    IF c = Quota THEN \E p \in Providers : totals[p] > 0 ELSE buffer[c] # << >>

(* The ticker fires. *)
TickerFires(c) ==
    /\ worker[c] = "select" /\ Holds(c)
    /\ worker' = [worker EXCEPT ![c] = "flush"]
    /\ UNCHANGED <<emitting, channel, closed, storing, main>>

(* Mutant: the worker leaves what is in the channel. *)
SeesClosedAtOnce(c) ==
    /\ worker[c] = "select" /\ c \in closed
    /\ worker' = [worker EXCEPT ![c] = "drain"]
    /\ UNCHANGED <<emitting, channel, closed, storing, main>>

(* A receive from a closed channel still gets what is in it; only then is  *)
(* it told that the channel is closed.                                     *)
SeesClosed(c) ==
    /\ worker[c] = "select" /\ c \in closed /\ channel[c] = << >>
    /\ worker' = [worker EXCEPT ![c] = "drain"]
    /\ UNCHANGED <<emitting, channel, closed, storing, main>>

Flushing(c) == worker[c] \in {"flush", "drain"}

(* Mutant: the buffer is emptied after its first record. *)
WriteFirst(c) ==
    /\ Flushing(c) /\ buffer[c] # << >>
    /\ buffer' = [buffer EXCEPT ![c] = << >>]
    /\ written' = [written EXCEPT ![c] = Append(@, Head(buffer[c]))]
    /\ UNCHANGED <<emitting, channel, closed, worker, totals, row, main>>

(* An insert that fails is logged and the record is gone all the same.     *)
WriteLog(c) ==
    /\ Flushing(c) /\ buffer[c] # << >>
    /\ buffer' = [buffer EXCEPT ![c] = Tail(@)]
    /\ \/ written' = [written EXCEPT ![c] = Append(@, Head(buffer[c]))]
       \/ "insert" \in faults /\ UNCHANGED written
    /\ UNCHANGED <<emitting, channel, closed, worker, totals, row, main>>

(* INSERT ... ON CONFLICT DO UPDATE SET ... = excluded...: the row of the  *)
(* day becomes what this interval added up.                                *)
WriteQuota(p) ==
    /\ Flushing(Quota) /\ totals[p] > 0
    /\ totals' = [totals EXCEPT ![p] = 0]
    /\ \/ row' = [row EXCEPT ![p] = totals[p]]
       \/ "insert" \in faults /\ UNCHANGED row
    /\ UNCHANGED <<emitting, channel, closed, worker, buffer, written, main>>

(* Mutant: the worker goes back to its select after the last flush. *)
FlushEndsInSelect(c) ==
    /\ Flushing(c) /\ ~Holds(c)
    /\ worker' = [worker EXCEPT ![c] = "select"]
    /\ UNCHANGED <<emitting, channel, closed, storing, main>>

FlushEnds(c) ==
    /\ Flushing(c) /\ ~Holds(c)
    /\ worker' = [worker EXCEPT
                    ![c] = IF @ = "drain" THEN "exited" ELSE "select"]
    /\ UNCHANGED <<emitting, channel, closed, storing, main>>

Worker(c) ==
    /\ Running
    /\ \/ c \in LogChannels /\ (ReceiveLog(c) \/ WriteLog(c))
       \/ c = Quota /\ (ReceiveQuota \/ \E p \in Providers : WriteQuota(p))
       \/ TickerFires(c) \/ SeesClosed(c) \/ FlushEnds(c)

-----------------------------------------------------------------------------
(* Run: the context ends, Shutdown stops the listener and waits for the    *)
(* handlers; the writer is closed when ListenAndServe returns.             *)

Signal ==
    /\ main = "serving"
    /\ main' = "draining"
    /\ UNCHANGED <<emitting, channel, closed, worker, storing>>

Idle == \A h \in Handlers : handler[h].pc = "idle"

(* Mutant: Shutdown does not wait. *)
ServerReturnsAtOnce ==
    /\ main = "draining"
    /\ main' = "closing"
    /\ UNCHANGED <<emitting, channel, closed, worker, storing>>

\* Shutdown gives up after ten seconds; a broken listener ends without it.
ServerReturns ==
    /\ \/ main = "draining" /\ (Idle \/ "slow" \in faults)
       \/ main = "serving" /\ "listener" \in faults
    /\ main' = "closing"
    /\ UNCHANGED <<emitting, channel, closed, worker, storing>>

CloseNext ==
    LET n == Cardinality(closed)
    IN  /\ main = "closing"
        /\ closed' = closed \cup {CloseOrder[n + 1]}
        /\ main' = IF n + 1 = Len(CloseOrder) THEN "waiting" ELSE main
        /\ UNCHANGED <<emitting, channel, worker, storing>>

(* w.wg.Wait(), then db.Close() and the end of the program. *)
StopWriter ==
    /\ main = "waiting"
    /\ \A c \in Channels : worker[c] = "exited"
    /\ main' = "stopped"
    /\ UNCHANGED <<emitting, channel, closed, worker, storing>>

Main == ServerReturns \/ CloseNext \/ StopWriter

Serve(h) ==
    \/ \E p \in Providers, plan \in Plans : EngineReturns(h, p, plan)
    \/ Emit(h) \/ Respond(h)

Step ==
    \/ \E h \in Handlers : Arrive(h) \/ Serve(h)
    \/ \E c \in Channels : Worker(c)
    \/ Signal \/ Main

WriterNext == Step /\ UNCHANGED faults

WriterSpec == WriterInit /\ [][WriterNext]_writerVars

(* Goroutines run; the engine answers, because the request has a timeout.  *)
WriterFairSpec ==
    /\ WriterSpec
    /\ WF_writerVars(Main /\ UNCHANGED faults)
    /\ \A c \in Channels : WF_writerVars(Worker(c) /\ UNCHANGED faults)
    /\ \A h \in Handlers : WF_writerVars(Serve(h) /\ UNCHANGED faults)

-----------------------------------------------------------------------------
(* Whatever the handlers, the ticker and Close do meanwhile, a record the  *)
(* channel took is in exactly one place and in its turn: written, in the   *)
(* buffer, or still in the channel.                                        *)
NothingLostOrReordered ==
    "insert" \notin faults => \A c \in LogChannels :
      written[c] \o buffer[c] \o channel[c] = accepted[c]

(* When the program stops, everything that was taken has been written:     *)
(* closing the channels and the database overtakes no record.              *)
CloseDrains ==
    main = "stopped" =>
      /\ "insert" \notin faults =>
           \A c \in LogChannels : written[c] = accepted[c]
      /\ \A p \in Providers : totals[p] = 0
      /\ \A c \in Channels : channel[c] = << >>

(* Both, of all that handlers log.                                         *)
LogIsComplete == NothingLostOrReordered /\ CloseDrains

(* A log channel with its worker's buffer is one queue to the database.    *)
LogStage(c) ==
    IF worker[c] = "exited" THEN "done"
    ELSE IF c \in closed THEN "closed" ELSE "open"

Logged == INSTANCE Delivery WITH
    Lanes <- LogChannels, lossy <- "insert" \in faults,
    stage <- [c \in LogChannels |-> LogStage(c)],
    pending <- [c \in LogChannels |-> buffer[c] \o channel[c]],
    arrived <- written

(* Every log channel hands its records on in their order, one at a time,   *)
(* takes none once it is closed, and its worker ends only with nothing     *)
(* left to write; only a failed insert loses a record (writer.go:82-224). *)
WriterDelivers == Logged!Spec

(* As long as Shutdown returns because the handlers are done, none of them *)
(* sends on a closed channel: Close comes after the last of them.          *)
NoPanic ==
    faults \cap {"slow", "listener"} = {} =>
      \A h \in Handlers : ~handler[h].panicked

(* A shutdown comes to its end: no worker and no handler is waited for in  *)
(* vain, even when inserts fail and channels are full.                     *)
ShutdownEnds == main = "draining" ~> main = "stopped"

(* A day's quota row, with what is still on its way to it, holds all the   *)
(* tokens that were recorded that day.                                     *)
OnItsWay(p) ==
    totals[p] + Cardinality({i \in 1..Len(channel[Quota]) :
                               channel[Quota][i].provider = p})

RowHoldsTheDay == \A p \in Providers : row[p] + OnItsWay(p) = taken[p]

=============================================================================
