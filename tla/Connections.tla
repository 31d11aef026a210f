---------------------------- MODULE Connections -----------------------------
(***************************************************************************)
(* The handlers of internal/api/server.go that create, patch, test and     *)
(* delete provider connections, and those for compatible nodes and proxy   *)
(* pools.  No lock spans a handler: between two statements, and while      *)
(* ValidateProvider waits for the upstream, other handlers go on.  A job   *)
(* is what one request handler has read and is about to write back.        *)
(***************************************************************************)
EXTENDS ConnectionTable

CONSTANTS
    Handlers,    \* goroutines that serve admin requests
    Patches,     \* bodies of PUT /api/providers/{id}
    MaxAttempts  \* bound: logins started (module OAuthFlows)

ASSUME ConnectionAssumption ==
    /\ Patches \subseteq
         [provider : OAuthProviders \cup Nodes \cup {""}, access : {"absent", "empty"},
          refresh : {"absent", "empty"}, clear : BOOLEAN,
          pool : Pools \cup {"absent", "none"}]
    /\ MaxAttempts \in Nat

VARIABLE
    job  \* the request each handler serves

Default == 0  \* the account "default" of the token store; others are row ids

JobPC == {"idle", "node", "alone", "insert", "write", "validate", "rewrite",
          "post", "save", "clear", "redeem", "extra", "import"}
JobRow == [provider : OAuthProviders \cup Nodes \cup {""},
           access : Token, refresh : Token, status : Statuses,
           url : Urls \cup {""}, pool : Pools \cup {""}]
Job == [pc : JobPC, id : 0..MaxRows, row : JobRow,
        via : OAuthProviders \cup {""}, attempt : 0..MaxAttempts,
        verifier : BOOLEAN]

IdleJob == [pc |-> "idle", id |-> Default, via |-> "", attempt |-> 0, verifier |-> FALSE,
            row |-> NewRow("", NoToken, NoToken, "")]

JobTypeOK == job \in [Handlers -> Job]

JobInit == job = [h \in Handlers |-> IdleJob]

Idle(h) == job[h].pc = "idle"
Begin(h, j) == job' = [job EXCEPT ![h] = j]
Goto(h, pc) == job' = [job EXCEPT ![h].pc = pc]
Answer(h) == job' = [job EXCEPT ![h] = IdleJob]

isCompatibleProviderID(p) == p \in Nodes

(* validateConnectionPayload looks at the node first when there is one.    *)
FirstCheck(p, pc) == IF isCompatibleProviderID(p) THEN "node" ELSE pc

-----------------------------------------------------------------------------
(* POST /api/providers with a connection payload. *)

parseConnectionPayload(p, pool) ==
    [NewRow(p, NoToken, NoToken, "") EXCEPT !.pool = pool]

handleProvidersCreate(h, p, pool) ==
    /\ Idle(h)
    /\ Begin(h, [IdleJob EXCEPT !.row = parseConnectionPayload(p, pool),
                                !.pc = FirstCheck(p, "insert")])
    /\ UNCHANGED tables

(* The node of a compatible provider: it must exist, its URL is copied.    *)
CheckNode(h) ==
    LET n == job[h].row.provider
    IN  /\ job[h].pc = "node"
        /\ IF n \in DOMAIN nodes
           THEN job' = [job EXCEPT ![h].pc = "alone",
                                   ![h].row.url = nodes[n]]
           ELSE Answer(h)
        /\ UNCHANGED tables

AfterCheck(h) == IF job[h].id = Default THEN "insert" ELSE "write"

(* Only one connection is allowed for a compatible node.                   *)
CheckAlone(h) ==
    /\ job[h].pc = "alone"
    /\ IF RowsOf(job[h].row.provider) \ {job[h].id} = {}
       THEN Goto(h, AfterCheck(h)) ELSE Answer(h)
    /\ UNCHANGED tables

InsertConnection(h) ==
    /\ job[h].pc = "insert"
    /\ CreateProviderConnection(job[h].row)
    /\ Answer(h)
    /\ UNCHANGED <<nodes, pools>>

-----------------------------------------------------------------------------
(* PUT /api/providers/{id}: an absent field keeps its value, an empty      *)
(* secret is cleared only with clear_secret.                               *)

PatchedSecret(old, field, clear) ==
    IF field = "empty" /\ clear THEN NoToken ELSE old

applyConnectionPatch(r, patch) ==
    [r EXCEPT !.provider = IF patch.provider = "" THEN @ ELSE patch.provider,
              !.access = PatchedSecret(@, patch.access, patch.clear),
              !.refresh = PatchedSecret(@, patch.refresh, patch.clear),
              !.pool = IF patch.pool = "absent" THEN @
                       ELSE IF patch.pool = "none" THEN ""
                       ELSE patch.pool]

handleProvidersUpdate(h, i, patch) ==
    /\ Idle(h)
    /\ i \in DOMAIN rows
    /\ LET updated == applyConnectionPatch(rows[i], patch)
       IN  Begin(h, [IdleJob EXCEPT !.id = i, !.row = updated,
                       !.pc = FirstCheck(updated.provider, "write")])
    /\ UNCHANGED tables

WriteConnection(h) ==
    /\ job[h].pc = "write"
    /\ UpdateProviderConnection(job[h].id, job[h].row)
    /\ Answer(h)
    /\ UNCHANGED <<created, nodes, pools>>

-----------------------------------------------------------------------------
(* POST /api/providers/{id}/test: the row is read, the upstream asked, and *)
(* the whole row written back with the outcome.                            *)

handleProviderTest(h, i) ==
    /\ Idle(h)
    /\ i \in DOMAIN rows
    /\ Begin(h, [IdleJob EXCEPT !.id = i, !.row = rows[i],
                                !.pc = "validate"])
    /\ UNCHANGED tables

ValidateProvider(h, valid) ==
    /\ job[h].pc = "validate"
    /\ job' = [job EXCEPT ![h].pc = "write",
                 ![h].row.status = IF valid THEN "ok" ELSE "failed"]
    /\ UNCHANGED tables

-----------------------------------------------------------------------------
(* Requests of one statement. *)

handleProvidersDelete(i) ==
    /\ i \in DOMAIN rows
    /\ DeleteProviderConnection(i)
    /\ UNCHANGED <<created, nodes, pools, job>>

handleProviderNodesCreate(n, url) ==
    /\ CreateProviderNode(n, url)
    /\ UNCHANGED <<rows, created, pools, job>>

handleProviderNodesDelete(n) ==
    /\ DeleteProviderNode(n)
    /\ UNCHANGED <<rows, created, pools, job>>

saveProxyPool(p) ==
    /\ SaveProxyPool(p)
    /\ UNCHANGED <<rows, created, nodes, job>>

handleProxyPoolsDelete(p) ==
    /\ DeleteProxyPool(p)
    /\ UNCHANGED <<rows, created, nodes, job>>

(* PUT /api/provider-nodes/{id} reads the node and writes all of it (url   *)
(* is the one of the body, or the one read when the body has none).        *)
handleProviderNodesUpdate(h, n, url) ==
    /\ Idle(h)
    /\ n \in DOMAIN nodes
    /\ Begin(h, [IdleJob EXCEPT !.pc = "rewrite", !.row.provider = n,
                                !.row.url = url])
    /\ UNCHANGED tables

WriteNode(h) ==
    /\ job[h].pc = "rewrite"
    /\ UpdateProviderNode(job[h].row.provider, job[h].row.url)
    /\ Answer(h)
    /\ UNCHANGED <<rows, created, pools>>

-----------------------------------------------------------------------------
HandlerStep(h) ==
    \/ CheckNode(h) \/ CheckAlone(h) \/ InsertConnection(h)
    \/ WriteConnection(h) \/ WriteNode(h)
    \/ \E valid \in BOOLEAN : ValidateProvider(h, valid)

ConnectionRequest(h, ids) ==
    \/ \E p \in (OAuthProviders \cup Nodes) \cap ids, pool \in pools \cup {""} :
         handleProvidersCreate(h, p, pool)
    \/ \E i \in DOMAIN rows : \/ handleProviderTest(h, i)
                              \/ \E patch \in Patches :
                                   handleProvidersUpdate(h, i, patch)
    \/ \E n \in Nodes, url \in Urls : handleProviderNodesUpdate(h, n, url)

SingleStatement(ids) ==
    \/ \E i \in DOMAIN rows : handleProvidersDelete(i)
    \/ \E n \in Nodes \cap ids :
         \/ \E url \in Urls : handleProviderNodesCreate(n, url)
         \/ handleProviderNodesDelete(n)
    \/ \E p \in Pools \cap ids : saveProxyPool(p) \/ handleProxyPoolsDelete(p)

-----------------------------------------------------------------------------
(* server.go:1143 refuses a second connection of a compatible node with    *)
(* "only one connection is allowed for this compatible node".  Two creates *)
(* that check before either inserts both succeed.                          *)
OneConnectionPerNode ==
    \A i, j \in DOMAIN rows :
        rows[i].provider = rows[j].provider /\ isCompatibleProviderID(rows[i].provider)
        => i = j
=============================================================================
