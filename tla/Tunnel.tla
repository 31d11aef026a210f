------------------------------- MODULE Tunnel --------------------------------
(***************************************************************************)
(* internal/tunnel/tunnel.go: the manager of the subprocess (cloudflared   *)
(* or tailscale) that exposes the router, the handlers for                 *)
(* /api/tunnel/*, and the tunnel started by internal/app/app.go.           *)
(*                                                                         *)
(* Tunnel 0 is the one the program starts with, tunnel i > 0 the one of    *)
(* the i-th call of Enable.  Each has a goroutine in Start, a subprocess,  *)
(* and a goroutine that watches its log for the address of the tunnel.     *)
(***************************************************************************)
EXTENDS Integers, FiniteSets

CONSTANTS
    TunnelProviders,  \* the supported ones; "other" is none of them
    MaxEnables, \* bound: calls of Enable
    Manners     \* bound: how the dashboard is used, see below

ASSUME TunnelAssumption ==
    /\ MaxEnables \in Nat
    /\ "other" \notin TunnelProviders
    /\ Manners \subseteq {"orderly", "overlapping", "crash"}
    /\ "crash" \in Manners => "orderly" \in Manners  \* it leaves that

Tunnels == 0..MaxEnables
NoTunnel == -1

VARIABLES
    tconfig, \* the tunnel section of the runtime configuration: is it enabled?
    mcfg,    \* m.cfg: [enabled, provider]
    mproc,   \* m.proc: a tunnel or NoTunnel
    mcancel, \* m.cancel: the tunnel whose context it cancels, or NoTunnel
    mstate,  \* m.state
    saved,   \* the state file, if there is one
    runs,    \* the goroutine in Start, per tunnel
    child,   \* its subprocess
    printed, \* has the subprocess printed its address, and was that read?
    stopping,\* the handler of a disable request
    enables, \* calls of Enable
    manner

tunnelVars == <<tconfig, mcfg, mproc, mcancel, mstate, saved, runs, child,
                printed, stopping, enables, manner>>
manager == <<mcfg, mproc, mcancel, mstate, saved>>

Status == [enabled : BOOLEAN, running : BOOLEAN, error : BOOLEAN,
           url : Tunnels \cup {NoTunnel}, tailscale : BOOLEAN]

Run == [pc : {"none", "start", "born", "wait", "exit", "done"},
        cancelled : BOOLEAN]

TunnelTypeOK ==
    /\ tconfig \in BOOLEAN
    /\ mcfg \in [enabled : BOOLEAN, provider : TunnelProviders \cup {"other"}]
    /\ mproc \in Tunnels \cup {NoTunnel}
    /\ mcancel \in Tunnels \cup {NoTunnel}
    /\ mstate \in Status
    /\ saved \in Status
    /\ runs \in [Tunnels -> Run]
    /\ child \in [Tunnels -> {"none", "alive", "exited", "reaped"}]
    /\ printed \in [Tunnels -> {"no", "logged", "read"}]
    /\ stopping \in [pc : {"idle", "kill", "wait", "config"},
                    cancel : Tunnels \cup {NoTunnel}, proc : Tunnels \cup {NoTunnel}]
    /\ enables \in 0..MaxEnables
    /\ manner \in Manners

FreshStatus == [enabled |-> FALSE, running |-> FALSE, error |-> FALSE, url |-> NoTunnel,
          tailscale |-> FALSE]
Nobody == [pc |-> "idle", cancel |-> NoTunnel, proc |-> NoTunnel]
NoRun == [pc |-> "none", cancelled |-> FALSE]

(* saveStateLocked follows every change of m.state, under the same lock.   *)
SetState(s) == mstate' = s /\ saved' = s

-----------------------------------------------------------------------------
(* Start: runner.Start, setProcess, Wait, setStopped. *)

At(i, pc) == runs[i].pc = pc
Goto(i, pc) == runs' = [runs EXCEPT ![i].pc = pc]

(* An unsupported provider is an error that is only logged; a subprocess   *)
(* that cannot be started, or whose context was cancelled before, is one   *)
(* that the state keeps.                                                   *)
RejectProvider(i) ==
    /\ At(i, "start") /\ (~mcfg.enabled \/ mcfg.provider = "other")
    /\ Goto(i, "done")
    /\ UNCHANGED <<tconfig, manager, child, printed, stopping, enables, manner>>

CanStart(i) == At(i, "start") /\ mcfg.enabled /\ mcfg.provider # "other"

FailStart(i) ==
    /\ CanStart(i)
    /\ SetState([mstate EXCEPT !.error = TRUE, !.running = FALSE])
    /\ Goto(i, "done")
    /\ UNCHANGED <<tconfig, mcfg, mproc, mcancel, child, printed, stopping,
                   enables, manner>>

StartChild(i) ==
    /\ CanStart(i) /\ ~runs[i].cancelled
    /\ child' = [child EXCEPT ![i] = "alive"]
    /\ Goto(i, "born")
    /\ UNCHANGED <<tconfig, manager, printed, stopping, enables, manner>>

setProcess(i) ==
    /\ At(i, "born")
    /\ mproc' = i
    /\ SetState([mstate EXCEPT !.running = TRUE, !.error = FALSE])
    /\ Goto(i, "wait")
    /\ UNCHANGED <<tconfig, mcfg, mcancel, child, printed, stopping, enables, manner>>

LeaveChild(i) == \* mutant: a cancelled Start does not wait for its process
    /\ At(i, "wait") /\ (child[i] = "exited" \/ runs[i].cancelled)
    /\ Goto(i, IF runs[i].cancelled THEN "done" ELSE "exit")
    /\ UNCHANGED <<tconfig, manager, child, printed, stopping, enables, manner>>

(* Wait returns.  A failure after a cancellation is not recorded; a process *)
(* that had ended well before the cancellation could kill it is.            *)
WaitChild(i) ==
    /\ At(i, "wait") /\ child[i] = "exited"
    /\ child' = [child EXCEPT ![i] = "reaped"]
    /\ \/ Goto(i, "exit")
       \/ runs[i].cancelled /\ Goto(i, "done")
    /\ UNCHANGED <<tconfig, manager, printed, stopping, enables, manner>>

setStopped(i) ==
    /\ At(i, "exit")
    /\ mproc' = NoTunnel
    /\ \E error \in BOOLEAN :
         SetState([mstate EXCEPT !.running = FALSE, !.error = error])
    /\ Goto(i, "done")
    /\ UNCHANGED <<tconfig, mcfg, mcancel, child, printed, stopping, enables, manner>>

(* The subprocess: a cancelled context kills it, it may end by itself, and *)
(* it prints the address of the tunnel once.                               *)
ChildExits(i) ==
    /\ child[i] = "alive"
    /\ child' = [child EXCEPT ![i] = "exited"]
    /\ UNCHANGED <<tconfig, manager, runs, printed, stopping, enables, manner>>

KillCancelled(i) == runs[i].cancelled /\ ChildExits(i)

scanOutput(i) ==
    /\ child[i] = "alive" /\ printed[i] = "no"
    /\ printed' = [printed EXCEPT ![i] = "logged"]
    /\ UNCHANGED <<tconfig, manager, runs, child, stopping, enables, manner>>

(* The log is a channel: its line may be read when the tunnel is long gone *)
(* and another has given its address.                                      *)
watchProcessLogs(i) ==
    /\ printed[i] = "logged" /\ runs[i].pc \notin {"none", "start", "born"}
    /\ printed' = [printed EXCEPT ![i] = "read"]
    /\ SetState([mstate EXCEPT !.url = i])
    /\ UNCHANGED <<tconfig, mcfg, mproc, mcancel, runs, child, stopping, enables,
                   manner>>

-----------------------------------------------------------------------------
(* Enable: POST /api/tunnel/enable. The configuration is saved first.      *)

(* How requests are sent: one at a time, a second enable only after a      *)
(* disable, or in any order.                                               *)
Orderly == stopping = Nobody /\ ~mstate.enabled

handleTunnelEnable(p) ==
    /\ enables < MaxEnables
    /\ manner = "overlapping" \/ Orderly
    /\ LET i == enables + 1
       IN  /\ enables' = i
           /\ mcancel' = i
           /\ runs' = [runs EXCEPT ![i] = [NoRun EXCEPT !.pc = "start"]]
    /\ tconfig' = TRUE
    /\ mcfg' = [enabled |-> TRUE, provider |-> p]
    /\ SetState([mstate EXCEPT !.enabled = TRUE, !.error = FALSE])
    /\ UNCHANGED <<mproc, child, printed, stopping, manner>>

-----------------------------------------------------------------------------
(* Disable: Stop takes what m knows of a tunnel, cancels and kills it, and *)
(* the goroutines of all calls of Enable are waited for.                   *)

Stop ==
    /\ stopping = Nobody
    /\ stopping' = [pc |-> "kill", cancel |-> mcancel, proc |-> mproc]
    /\ mcancel' = NoTunnel /\ mproc' = NoTunnel
    /\ SetState([mstate EXCEPT !.running = FALSE])
    /\ UNCHANGED <<tconfig, mcfg, runs, child, printed, enables, manner>>

KillOnly == \* mutant: the context is not cancelled
    /\ stopping.pc = "kill"
    /\ stopping' = [Nobody EXCEPT !.pc = "wait"]
    /\ child' = [i \in Tunnels |-> IF i = stopping.proc /\ child[i] = "alive"
                   THEN "exited" ELSE child[i]]
    /\ UNCHANGED <<tconfig, manager, runs, printed, enables, manner>>

CancelAndKill ==
    /\ stopping.pc = "kill"
    /\ stopping' = [Nobody EXCEPT !.pc = "wait"]
    /\ runs' = [i \in Tunnels |-> IF i = stopping.cancel
                   THEN [runs[i] EXCEPT !.cancelled = TRUE] ELSE runs[i]]
    /\ child' = [i \in Tunnels |-> IF i = stopping.proc /\ child[i] = "alive"
                   THEN "exited" ELSE child[i]]
    /\ UNCHANGED <<tconfig, manager, printed, enables, manner>>

(* wg.Wait *)
Joined == \A i \in 1..enables : runs[i].pc \in {"none", "done"}

Disable ==
    /\ stopping.pc = "wait" /\ Joined
    /\ stopping' = [Nobody EXCEPT !.pc = "config"]
    /\ mcfg' = [mcfg EXCEPT !.enabled = FALSE]
    /\ SetState([mstate EXCEPT !.enabled = FALSE, !.running = FALSE])
    /\ UNCHANGED <<tconfig, mproc, mcancel, runs, child, printed, enables, manner>>

handleTunnelDisable ==
    /\ stopping.pc = "config"
    /\ stopping' = Nobody
    /\ tconfig' = FALSE
    /\ UNCHANGED <<manager, runs, child, printed, enables, manner>>

CheckTailscale(running) ==
    /\ SetState([mstate EXCEPT !.tailscale = running])
    /\ UNCHANGED <<tconfig, mcfg, mproc, mcancel, runs, child, printed,
                   stopping, enables, manner>>

-----------------------------------------------------------------------------
(* The program starts: the state file is taken as it is, and a configured  *)
(* tunnel is started, outside of the wait group.                           *)

TunnelInit ==
    /\ \E p \in TunnelProviders, on \in BOOLEAN :
         /\ tconfig = on
         /\ mcfg = [enabled |-> on, provider |-> p]
         /\ runs = [i \in Tunnels |->
                      IF i = 0 /\ on THEN [NoRun EXCEPT !.pc = "start"] ELSE NoRun]
         /\ mstate = [FreshStatus EXCEPT !.enabled = on]
    /\ saved = mstate
    /\ mproc = NoTunnel /\ mcancel = NoTunnel
    /\ child = [i \in Tunnels |-> "none"]
    /\ printed = [i \in Tunnels |-> "no"]
    /\ stopping = Nobody /\ enables = 0
    /\ manner \in Manners

(* The program dies and is started again; subprocesses outlive it, except  *)
(* that the model looks at those of the new program only.                  *)
NewManager ==
    /\ manner = "crash"
    /\ manner' = "orderly"  \* bound: once
    /\ mstate' = saved /\ saved' = saved
    /\ mcfg' = [mcfg EXCEPT !.enabled = tconfig]
    /\ mproc' = NoTunnel /\ mcancel' = NoTunnel
    /\ runs' = [i \in Tunnels |->
                  [NoRun EXCEPT
                     !.pc = IF i = 0 /\ tconfig THEN "start" ELSE "none"]]
    /\ child' = [i \in Tunnels |-> "none"]
    /\ printed' = [i \in Tunnels |-> "no"]
    /\ stopping' = Nobody /\ enables' = 0
    /\ UNCHANGED tconfig

RunStep(i) ==
    \/ RejectProvider(i) \/ FailStart(i) \/ StartChild(i)
    \/ setProcess(i) \/ WaitChild(i) \/ setStopped(i)

StopStep == CancelAndKill \/ Disable \/ handleTunnelDisable

TunnelNext ==
    \/ \E i \in Tunnels : RunStep(i)
    \/ \E i \in Tunnels : ChildExits(i) \/ scanOutput(i) \/ watchProcessLogs(i)
    \/ \E p \in TunnelProviders \cup {"other"} : handleTunnelEnable(p)
    \/ Stop \/ StopStep
    \/ \E running \in BOOLEAN : CheckTailscale(running)
    \/ NewManager

TunnelSpec == TunnelInit /\ [][TunnelNext]_tunnelVars

(* Goroutines are scheduled, a context that is cancelled kills the process *)
(* and the handler of the request goes on; nothing makes a tunnel end.     *)
TunnelFair ==
    /\ \A i \in Tunnels : WF_tunnelVars(RunStep(i)) /\ WF_tunnelVars(KillCancelled(i))
    /\ WF_tunnelVars(StopStep)

TunnelFairSpec == TunnelSpec /\ TunnelFair

-----------------------------------------------------------------------------
(* Hazard: a disable request meets an Enable whose goroutine has not       *)
(* started its process yet, has started it and not told the manager, or    *)
(* whose process just ended.  As long as requests do not overlap, no       *)
(* process that an Enable started outlives the disable.                    *)
DisableStops ==
    manner = "orderly" /\ ~mstate.enabled =>
      \A i \in 1..MaxEnables : child[i] # "alive"

(* ... and the disable does not wait for ever for one of them.             *)
DisableReturns == manner = "orderly" /\ stopping # Nobody ~> stopping = Nobody

IsRunning == mproc # NoTunnel /\ child[mproc] \in {"alive", "exited"}

(* "IsRunning reports whether the tunnel subprocess is currently active":  *)
(* when no goroutine is about to tell the manager, and a tunnel that Start *)
(* waits for is up, it says so.                                            *)
IsRunningIsTrue ==
    (\E i \in Tunnels : child[i] = "alive" /\ At(i, "wait"))
      /\ stopping = Nobody /\ (\A i \in Tunnels : ~At(i, "exit")) => IsRunning
=============================================================================
