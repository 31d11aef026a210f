------------------------------ MODULE Delivery ------------------------------
(***************************************************************************)
(* What a queue between goroutines promises, without its channels, buffers *)
(* and workers: whatever is handed in on a lane while the lane is open     *)
(* arrives at its other end one at a time and in order, and a lane that    *)
(* was closed is done only when nothing of it is left on its way.  A lossy *)
(* queue may lose what is next; a lane that is broken off drops the rest,  *)
(* and nothing arrives on it any more.  StreamRelay implements it with one *)
(* lane, AsyncWriter with one for each log channel.                        *)
(***************************************************************************)
EXTENDS SequencesExt

CONSTANT Lanes

VARIABLES stage, pending, arrived, lossy

deliveryVars == <<stage, pending, arrived, lossy>>

Init ==
    /\ stage = [l \in Lanes |-> "open"]
    /\ pending = [l \in Lanes |-> <<>>]
    /\ arrived = [l \in Lanes |-> <<>>]

HandIn(l) ==
    /\ stage[l] = "open"
    /\ IsPrefix(pending[l], pending'[l])
    /\ pending' = [pending EXCEPT ![l] = pending'[l]]
    /\ UNCHANGED <<stage, arrived, lossy>>

Deliver(l) ==
    /\ stage[l] \in {"open", "closed"} /\ pending[l] # <<>>
    /\ arrived' = [arrived EXCEPT ![l] = Append(@, Head(pending[l]))]
    /\ pending' = [pending EXCEPT ![l] = Tail(@)]
    /\ UNCHANGED <<stage, lossy>>

Lose(l) ==
    /\ lossy /\ pending[l] # <<>>
    /\ pending' = [pending EXCEPT ![l] = Tail(@)]
    /\ UNCHANGED <<stage, arrived, lossy>>

Close(l) ==
    /\ stage[l] = "open"
    /\ stage' = [stage EXCEPT ![l] = "closed"]
    /\ UNCHANGED <<pending, arrived, lossy>>

Finish(l) ==
    /\ stage[l] = "closed" /\ pending[l] = <<>>
    /\ stage' = [stage EXCEPT ![l] = "done"]
    /\ UNCHANGED <<pending, arrived, lossy>>

BreakOff(l) ==
    /\ stage[l] \in {"open", "closed"}
    /\ stage' = [stage EXCEPT ![l] = "broken"]
    /\ pending' = [pending EXCEPT ![l] = <<>>]
    /\ UNCHANGED <<arrived, lossy>>

Next ==
    \E l \in Lanes :
      HandIn(l) \/ Deliver(l) \/ Lose(l) \/ Close(l) \/ Finish(l) \/ BreakOff(l)

Spec == Init /\ [][Next]_deliveryVars

=============================================================================
