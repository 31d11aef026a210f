----------------------------- MODULE MCRequests -----------------------------
(* The parts that a request passes through - the handlers around the       *)
(* engine, the rotation of the engine's targets, the calls of the Google   *)
(* adapters - and the cloud server, checked in one run.  They share no     *)
(* state, so a behaviour is one of one part, and the others stay as they   *)
(* are at first.                                                           *)
EXTENDS MCRoutingEngine, RequestPipeline, GoogleCalls, CloudServer

VARIABLE part

CONSTANTS m1, m2, k1, k2, a1, a2, g

Parts == {"rotation", "pipeline", "google", "cloud"}

requestVars == <<vars, pipeVars, googleVars, cloudVars, part>>

(* A rule for a provider, which never matches, one that reroutes a key's   *)
(* requests, and one that denies another key's.                            *)
MCPolicies == <<
  [models |-> {m1}, provider |-> TRUE, key |-> "", action |-> "deny", reroute |-> m1],
  [models |-> {m1}, provider |-> FALSE, key |-> k1, action |-> "reroute",
   reroute |-> m2],
  [models |-> {m2}, provider |-> FALSE, key |-> k2, action |-> "deny",
   reroute |-> m1] >>
MCKeySets == {{}, {k1}}
MCChain == <<"p1", "p2">>

OneAccount == <<g>>

(* An upload with two accounts, or one with one of them and then one with  *)
(* neither keys nor an account that can be used.                           *)
Uploaded(url, expiring) ==
    [usable |-> TRUE, url |-> url, expiring |-> expiring, cooling |-> FALSE,
     status |-> "active"]
Upload(first, second, posted, alias) ==
    [accounts |-> a1 :> first @@ a2 :> second, keys |-> posted, alias |-> alias]
MCPlans ==
    {<<Upload(Uploaded(TRUE, FALSE), Uploaded(TRUE, FALSE), "with", "with")>>,
     <<Upload(Uploaded(TRUE, TRUE), NoAccount, "with", "absent"),
       Upload(Uploaded(FALSE, FALSE), NoAccount, "absent", "with")>>}
SamePriority == [a \in CloudAccounts |-> 0]

RequestsInit ==
    /\ part \in Parts
    /\ Init /\ PipeInit /\ GoogleInit /\ CloudInit
    /\ part = "pipeline" \/ keys = {}
    /\ part = "google" \/
         /\ googleAdapter = CHOOSE adapter \in NewGoogleAdapters : adapter.name = "vertex"
         /\ \A a \in AccountSet : ~configToken[a].known
    /\ part = "cloud" \/ plan = CHOOSE uploads \in MCPlans : TRUE

RequestsNext ==
    /\ \/ /\ part = "rotation" /\ Next
          /\ UNCHANGED <<pipeVars, googleVars, cloudVars>>
       \/ /\ part = "pipeline" /\ PipeNext
          /\ UNCHANGED <<vars, googleVars, cloudVars>>
       \/ /\ part = "google" /\ GoogleNext
          /\ UNCHANGED <<vars, pipeVars, cloudVars>>
       \/ /\ part = "cloud" /\ CloudNext
          /\ UNCHANGED <<vars, pipeVars, googleVars>>
    /\ UNCHANGED part

RequestsSpec == RequestsInit /\ [][RequestsNext]_requestVars

RequestsTypeOK == TypeOK /\ PipeTypeOK /\ GoogleTypeOK /\ CloudTypeOK
=============================================================================
