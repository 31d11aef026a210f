--------------------------- MODULE RoutingHistory ---------------------------
(***************************************************************************)
(* RoutingEngine with two history variables, for properties that compare a *)
(* request with what happened before it:                                   *)
(*   late       failures a request has charged to providers since its      *)
(*              client left;                                               *)
(*   lastFirst  the first target of the last request routed for a model.   *)
(***************************************************************************)
EXTENDS RoutingEngine

NoTarget == [provider |-> "none", model |-> "none"]

VARIABLES late, lastFirst

histVars == <<vars, late, lastFirst>>

HistInit ==
    /\ Init
    /\ late = [r \in Requests |-> 0]
    /\ lastFirst = [m \in Models |-> NoTarget]

ChargedNow(r) == req[r].pc = "charge" /\ req'[r].pc # "charge"

RoutedNow(r) ==
    /\ req[r].pc \in {"routes", "rotate"}
    /\ req'[r].pc = "breaker"

Remember ==
    /\ late' = [r \in Requests |->
                  IF req'[r].pc = "idle" THEN 0
                  ELSE IF ChargedNow(r) /\ req[r].cancelled THEN late[r] + 1
                  ELSE late[r]]
    /\ lastFirst' = [m \in Models |->
                       IF \E r \in Requests : RoutedNow(r) /\ req[r].model = m
                       THEN req'[CHOOSE r \in Requests : RoutedNow(r)].targets[1]
                       ELSE lastFirst[m]]

HistNext == Next /\ Remember

HistSpec == HistInit /\ [][HistNext]_histVars

FairHistSpec == HistSpec /\ Fairness

(* A client that leaves during a call costs the providers at most two      *)
(* failures: the call it abandoned, and one more account on which the      *)
(* engine notices that the context is gone.  The chain then stops.         *)
LateChargesBounded == \A r \in Requests : late[r] <= 2

(* What comes late, from handlers that passed a breaker before it opened   *)
(* or whose client has left, is charged to providers only within bounds.   *)
LateOutcomesBounded == LateFailuresBounded /\ LateChargesBounded

(* Round-robin starts each request of a model at another target than the   *)
(* request before it.                                                      *)
RotatesPerRequest ==
    [][\A r \in Requests :
         RoutedNow(r) /\ Len(req'[r].targets) > 1 =>
           req'[r].targets[1] # lastFirst[req[r].model]]_histVars

=============================================================================
