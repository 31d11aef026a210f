----------------------------- MODULE MCServing ------------------------------
(* The parts of the router whose goroutines must end or hand over in turn, *)
(* checked in one run.  They share no state, so a behaviour is one of one  *)
(* part, and the others stay as they are at first.                         *)
EXTENDS MCConfigStore, MCStreamRelay, Tunnel, ConnectBridge

VARIABLE part

Parts == {"config", "stream", "tunnel", "bridge"}

servingVars == <<storeVars, streamVars, tunnelVars, bridge, part>>

ServingInit ==
    /\ part \in Parts
    /\ StoreInit /\ StreamInit /\ TunnelInit /\ BridgeInit
    /\ part = "config" \/ world = CHOOSE w \in Worlds : TRUE
    /\ part = "tunnel" \/ (~tconfig /\ manner = CHOOSE m \in Manners : TRUE)

ServingNext ==
    /\ \/ /\ part = "config" /\ StoreNext
          /\ UNCHANGED <<streamVars, tunnelVars, bridge>>
       \/ /\ part = "stream" /\ StreamNext
          /\ UNCHANGED <<storeVars, tunnelVars, bridge>>
       \/ /\ part = "tunnel" /\ TunnelNext
          /\ UNCHANGED <<storeVars, streamVars, bridge>>
       \/ /\ part = "bridge" /\ BridgeNext
          /\ UNCHANGED <<storeVars, streamVars, tunnelVars>>
    /\ UNCHANGED part

(* The fairness of each part: see StoreFairSpec, StreamFairSpec,           *)
(* TunnelFair and BridgeSpec.                                              *)
StoreFair ==
    \A u \in Updaters :
      /\ WF_storeVars(part = "config" /\ Continue(u))
      /\ SF_storeVars(part = "config" /\ BeginPersist(u))

StreamFair ==
    /\ WF_streamVars(part = "stream" /\ Handler)
    /\ WF_streamVars(part = "stream" /\ Expire)
    /\ WF_streamVars(part = "stream" /\ ScanEnds)
    /\ WF_streamVars(part = "stream" /\ CheckLine)
    /\ WF_streamVars(part = "stream" /\ SendChunk)
    /\ WF_streamVars(part = "stream" /\ AbandonSend)

ManagerFair ==
    /\ \A i \in Tunnels : /\ WF_tunnelVars(part = "tunnel" /\ RunStep(i))
                          /\ WF_tunnelVars(part = "tunnel" /\ KillCancelled(i))
    /\ WF_tunnelVars(part = "tunnel" /\ StopStep)

BridgeFair ==
    \A b \in Bridges : WF_bridge(part = "bridge" /\ BridgeStep(b))

ServingSpec ==
    /\ ServingInit /\ [][ServingNext]_servingVars
    /\ StoreFair /\ StreamFair /\ ManagerFair /\ BridgeFair

ServingTypeOK ==
    StoreTypeOK /\ StreamTypeOK /\ TunnelTypeOK /\ BridgeTypeOK
=============================================================================
