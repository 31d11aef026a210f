-------------------------- MODULE ConnectionTable ---------------------------
(***************************************************************************)
(* The tables of internal/storage/db.go that hold what the dashboard knows *)
(* of upstream accounts: provider_connections, provider_nodes and          *)
(* proxy_pools.  One SQL statement is one step.  A row keeps the columns   *)
(* that the handlers' behaviour depends on: the provider, the two tokens,  *)
(* the status of the last test, the address copied from a node, and the    *)
(* proxy pool.  Identifiers are drawn from the clock (pc_<nanoseconds>):   *)
(* the n-th row ever created is row n.                                     *)
(***************************************************************************)
EXTENDS Integers, FiniteSets, Sequences

CONSTANTS
    OAuthProviders, \* providers with a fixed catalog entry
    Nodes,          \* ids of compatible nodes; each names a provider as well
    Pools,          \* ids of proxy pools
    Urls,           \* base URLs a node may have
    MaxRows,        \* bound: connections ever created
    MaxGrants,      \* bound: authorizations ever given by a user
    MaxGen          \* bound: tokens issued per authorization

ASSUME TableAssumption ==
    /\ MaxRows \in Nat /\ MaxGrants \in Nat /\ MaxGen \in Nat \ {0}
    /\ Nodes \cap OAuthProviders = {}

VARIABLES
    rows,    \* provider_connections, by id
    created, \* number of rows ever inserted
    nodes,   \* provider_nodes: base URL by id
    pools    \* ids in proxy_pools

tables == <<rows, created, nodes, pools>>

(* Token n of the authorization g; generation 0 is the empty string. *)
Token == [grant : 0..MaxGrants, gen : 0..MaxGen]
NoToken == [grant |-> 0, gen |-> 0]

Statuses == {"", "active", "stored", "ok", "failed"}

Row == [provider : OAuthProviders \cup Nodes, access : Token,
        refresh : Token, status : Statuses, url : Urls \cup {""},
        pool : Pools \cup {""}]

NewRow(p, access, refresh, status) ==
    [provider |-> p, access |-> access, refresh |-> refresh,
     status |-> status, url |-> "", pool |-> ""]

TableTypeOK ==
    /\ created \in 0..MaxRows
    /\ DOMAIN rows \subseteq 1..created
    /\ \A i \in DOMAIN rows : rows[i] \in Row
    /\ DOMAIN nodes \subseteq Nodes
    /\ \A n \in DOMAIN nodes : nodes[n] \in Urls
    /\ pools \subseteq Pools

TableInit ==
    /\ rows = [i \in {} |-> NewRow("", NoToken, NoToken, "")]
    /\ created = 0
    /\ nodes = [n \in {} |-> ""]
    /\ pools = {}

-----------------------------------------------------------------------------
(* provider_connections *)

RowsOf(p) == {i \in DOMAIN rows : rows[i].provider = p}

CreateUncounted(r) == \* mutant: the number of a row may be given again
    /\ created < MaxRows
    /\ rows' = [i \in DOMAIN rows \cup {created + 1} |->
                  IF i = created + 1 THEN r ELSE rows[i]]
    /\ UNCHANGED created

CreateProviderConnection(r) ==
    /\ created < MaxRows
    /\ created' = created + 1
    /\ rows' = [i \in DOMAIN rows \cup {created + 1} |->
                  IF i = created + 1 THEN r ELSE rows[i]]

UpsertConnection(i, r) == \* mutant: an UPDATE that inserts a missing row
    rows' = [j \in DOMAIN rows \cup {i} |-> IF j = i THEN r ELSE rows[j]]

(* All columns are written; no row is an error and changes nothing. *)
UpdateProviderConnection(i, r) ==
    rows' = [j \in DOMAIN rows |-> IF j = i THEN r ELSE rows[j]]

DeleteProviderConnection(i) ==
    rows' = [j \in DOMAIN rows \ {i} |-> rows[j]]

-----------------------------------------------------------------------------
(* provider_nodes *)

CreateProviderNode(n, url) ==
    /\ n \notin DOMAIN nodes
    /\ nodes' = [m \in DOMAIN nodes \cup {n} |->
                   IF m = n THEN url ELSE nodes[m]]

UpdateProviderNode(n, url) ==
    nodes' = [m \in DOMAIN nodes |-> IF m = n THEN url ELSE nodes[m]]

DeleteProviderNode(n) ==
    /\ n \in DOMAIN nodes
    /\ nodes' = [m \in DOMAIN nodes \ {n} |-> nodes[m]]

-----------------------------------------------------------------------------
(* proxy_pools *)

SaveProxyPool(p) == pools' = pools \cup {p}

DeleteProxyPool(p) == p \in pools /\ pools' = pools \ {p}

-----------------------------------------------------------------------------
(* A connection that was deleted never comes back: identifiers are never   *)
(* reused, and none of the handlers that write a whole row they read       *)
(* earlier (test, patch, refresh, backfill) inserts it again when it has   *)
(* been deleted meanwhile (UpdateProviderConnection returns ErrNoRows).    *)
NoResurrection ==
    [][DOMAIN rows' \ DOMAIN rows \subseteq (created + 1)..created']_tables
=============================================================================
