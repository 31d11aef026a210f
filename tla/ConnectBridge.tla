--------------------------- MODULE ConnectBridge ----------------------------
(***************************************************************************)
(* The CONNECT method of the MITM proxy (internal/mitm/mitm.go): the       *)
(* target is dialled (the router itself for the API of a known provider),  *)
(* the client's connection is taken over, and one goroutine per direction  *)
(* copies; the first to end ends the request.  No read or write has a       *)
(* deadline: a copy waits for its source to send and for its destination to *)
(* take what was read, and meanwhile sees nothing of the other connection.  *)
(***************************************************************************)
EXTENDS Integers

CONSTANT Bridges  \* connections through the proxy

VARIABLE bridge   \* handleTunnel, per connection

Copying == {"none", "read", "write", "send", "done"}

Bridge == [pc : {"idle", "dial", "hijack", "bridge", "closed"},
           client : BOOLEAN, dest : BOOLEAN,  \* open at both ends?
           out : Copying, back : Copying, done : 0..2]

BridgeTypeOK == bridge \in [Bridges -> Bridge]

BridgeInit ==
    bridge = [b \in Bridges |->
                [pc |-> "idle", client |-> TRUE, dest |-> FALSE,
                 out |-> "none", back |-> "none", done |-> 0]]

Set(b, r) == bridge' = [bridge EXCEPT ![b] = r]

handleTunnel(b) ==
    /\ bridge[b].pc = "idle"
    /\ Set(b, [bridge[b] EXCEPT !.pc = "dial"])

Dial(b, ok) ==
    /\ bridge[b].pc = "dial"
    /\ Set(b, IF ok THEN [bridge[b] EXCEPT !.pc = "hijack", !.dest = TRUE]
              ELSE [bridge[b] EXCEPT !.pc = "closed", !.client = FALSE])

Hijack(b, ok) ==
    /\ bridge[b].pc = "hijack"
    /\ Set(b, IF ok
              THEN [bridge[b] EXCEPT !.pc = "bridge", !.out = "read", !.back = "read"]
              ELSE [bridge[b] EXCEPT !.pc = "closed", !.dest = FALSE, !.client = FALSE])

(* io.Copy, which waits in Read until its source sends, and in Write until  *)
(* its destination has taken enough of it; what a peer left behind when it *)
(* hung up is part of the last read.                                       *)
Source(way) == IF way = "out" THEN "client" ELSE "dest"
Target(way) == IF way = "out" THEN "dest" ELSE "client"

CopyReads(b, way) ==
    /\ bridge[b][way] = "read" /\ bridge[b][Source(way)]
    /\ Set(b, [bridge[b] EXCEPT ![way] = "write"])

(* A write may succeed although its peer has just hung up. *)
CopyWrites(b, way) ==
    /\ bridge[b][way] = "write" /\ bridge[b].pc = "bridge"
    /\ Set(b, [bridge[b] EXCEPT ![way] = "read"])

CopyEnds(b, way) ==
    /\ \/ bridge[b][way] = "read" /\ ~bridge[b][Source(way)]
       \/ bridge[b][way] = "write" /\ ~bridge[b][Target(way)]
    /\ Set(b, [bridge[b] EXCEPT ![way] = "send"])

SendUnbuffered(b, way) == \* mutant: a channel without a buffer
    /\ bridge[b][way] = "send" /\ bridge[b].pc = "bridge"
    /\ Set(b, [bridge[b] EXCEPT ![way] = "done", !.done = @ + 1])

(* The channel has room for both.                                          *)
SendDone(b, way) ==
    /\ bridge[b][way] = "send" /\ bridge[b].done < 2
    /\ Set(b, [bridge[b] EXCEPT ![way] = "done", !.done = @ + 1])

(* The first one is received; both connections are closed.                 *)
ReceiveDone(b) ==
    /\ bridge[b].pc = "bridge" /\ bridge[b].done > 0
    /\ Set(b, [bridge[b] EXCEPT !.done = @ - 1, !.pc = "closed",
                                !.client = FALSE, !.dest = FALSE])

(* The peers hang up whenever they like, the client also before the target *)
(* was reached.                                                            *)
HangUp(b, side) ==
    /\ bridge[b].pc \in {"dial", "hijack", "bridge"} /\ bridge[b][side]
    /\ Set(b, [bridge[b] EXCEPT ![side] = FALSE])

Ways == {"out", "back"}

BridgeStep(b) ==
    \/ \E ok \in BOOLEAN : Dial(b, ok) \/ Hijack(b, ok)
    \/ \E way \in Ways : CopyEnds(b, way) \/ SendDone(b, way)
    \/ ReceiveDone(b)

PeerStep(b) ==
    \/ \E way \in Ways : CopyReads(b, way) \/ CopyWrites(b, way)
    \/ \E side \in {"client", "dest"} : HangUp(b, side)

BridgeNext ==
    \E b \in Bridges : handleTunnel(b) \/ BridgeStep(b) \/ PeerStep(b)

(* Dialling has a time limit and goroutines run, but nothing makes a peer   *)
(* send, take what it is sent, or hang up.                                 *)
BridgeSpec ==
    /\ BridgeInit /\ [][BridgeNext]_bridge
    /\ \A b \in Bridges : WF_bridge(BridgeStep(b))

-----------------------------------------------------------------------------
Over(b) == /\ bridge[b].pc = "closed"
           /\ \A way \in Ways : bridge[b][way] = "done"
Stalled(b, way) == bridge[b][way] = "write" /\ bridge[b][Target(way)]

(* Hazard: one direction ends while the other goroutine waits for a peer,  *)
(* or both end at once, and the handler listens to one of them.  As soon   *)
(* as a copy has ended, so do the other and the request.  When a peer hangs *)
(* up a copy does end, but for one case: what the peer had sent is being   *)
(* written to the other one, which stays and never takes it.               *)
BridgesEnd ==
    \A b \in Bridges, way \in Ways :
      /\ bridge[b][way] \in {"send", "done"} ~> Over(b)
      /\ bridge[b].pc = "bridge" /\ ~bridge[b][Source(way)] ~>
           (Over(b) \/ []Stalled(b, way))
=============================================================================
