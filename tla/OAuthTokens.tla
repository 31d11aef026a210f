---------------------------- MODULE OAuthTokens -----------------------------
(***************************************************************************)
(* Refreshing and deleting OAuth tokens: the token store of                *)
(* internal/oauth/oauth.go with its RefreshToken, and the handlers         *)
(* refresh, delete, callback and token delete of internal/api/server.go.   *)
(* A token sits in a connection's row or in the store's table              *)
(* oauth_tokens; the store reads back what it wrote encrypted, so the      *)
(* encryption is left out.                                                 *)
(*                                                                         *)
(* The provider is external.  A rotating provider accepts only the newest  *)
(* refresh token of an authorization and answers with its successor;       *)
(* another answers with an access token alone.                             *)
(***************************************************************************)
EXTENDS Connections, OAuthRegistry

CONSTANTS
    Rotating      \* OAuth providers that rotate refresh tokens

ASSUME TokenAssumption == Rotating \subseteq OAuthProviders

VARIABLES
    tokens,  \* oauth_tokens: [access, refresh] by <<provider, account>>
    granted, \* who issued each authorization, in order
    live     \* the newest generation of each authorization

store == <<tokens>>
upstream == <<granted, live>>

TokenRecord == [access : Token, refresh : Token]

TokensTypeOK ==
    /\ DOMAIN tokens \subseteq OAuthProviders \X (0..MaxRows)
    /\ \A k \in DOMAIN tokens : tokens[k] \in TokenRecord
    /\ granted \in Seq(OAuthProviders) /\ Len(granted) <= MaxGrants
    /\ live \in [1..MaxGrants -> 1..MaxGen]

TokensInit ==
    /\ tokens = [k \in {} |-> [access |-> NoToken, refresh |-> NoToken]]
    /\ granted = <<>>
    /\ live = [g \in 1..MaxGrants |-> 1]

SaveToken(k, rec) ==
    tokens' = [l \in DOMAIN tokens \cup {k} |-> IF l = k THEN rec ELSE tokens[l]]

GetToken(k) == IF k \in DOMAIN tokens THEN {tokens[k]} ELSE {}

DeleteToken(k) == tokens' = [l \in DOMAIN tokens \ {k} |-> tokens[l]]

(* A user's first tokens; every provider issues both.                      *)
FirstToken(g) == [grant |-> g, gen |-> 1]

Authorize(p) ==
    /\ Len(granted) < MaxGrants
    /\ granted' = Append(granted, p)

NextGrant == Len(granted) + 1

-----------------------------------------------------------------------------
(* RefreshToken and the provider-specific variants.                        *)

(* Whether p honours the refresh token t: it must be one of its own, and   *)
(* the newest when p rotates them.                                         *)
Accepts(p, t) ==
    /\ t # NoToken /\ granted[t.grant] = p
    /\ p \in Rotating => t.gen = live[t.grant]
    /\ live[t.grant] < MaxGen

Issue(t) == live' = [live EXCEPT ![t.grant] = @ + 1]

KeepRefresh(p, t) == \* mutant: the old refresh token even after a rotation
    LET n == [t EXCEPT !.gen = live[t.grant] + 1]
    IN  [access |-> n, refresh |-> t]

(* The new record: the refresh token of the answer, or the old one.        *)
Refreshed(p, t) ==
    LET n == [t EXCEPT !.gen = live[t.grant] + 1]
    IN  [access |-> n, refresh |-> IF p \in Rotating THEN n ELSE t]

-----------------------------------------------------------------------------
(* POST /api/oauth/{provider}/refresh *)

RefreshSupported(p) == Registered(p) /\ Registry[p].tokenURL

RefreshJob(p, i, r) == [IdleJob EXCEPT !.pc = "post", !.id = i, !.row = r,
                                       !.via = p]

(* A record of the store goes first, whatever connection was named.        *)
RefreshFromStore(h, p) ==
    /\ Idle(h) /\ RefreshSupported(p)
    /\ \E rec \in GetToken(<<p, Default>>) :
         Begin(h, RefreshJob(p, Default, NewRow(p, rec.access, rec.refresh, "")))
    /\ UNCHANGED <<tables, store, upstream>>

(* The named connection, whichever provider it belongs to, or any of p's   *)
(* that has a refresh token.                                               *)
findRefreshableConnection(p, named) ==
    IF named \in DOMAIN rows THEN {named}
    ELSE {i \in RowsOf(p) : rows[i].refresh # NoToken}

RefreshFromRow(h, p, named) ==
    /\ Idle(h) /\ RefreshSupported(p)
    /\ GetToken(<<p, Default>>) = {}
    /\ \E i \in findRefreshableConnection(p, named) :
         /\ rows[i].refresh # NoToken
         /\ Begin(h, RefreshJob(p, i, rows[i]))
    /\ UNCHANGED <<tables, store, upstream>>

(* The provider answers, with a status other than 200 when it refuses.     *)
RefreshAnswered(h) ==
    LET r == job[h].row IN
    /\ job[h].pc = "post"
    /\ IF Accepts(job[h].via, r.refresh)
       THEN /\ Issue(r.refresh)
            /\ LET new == Refreshed(job[h].via, r.refresh)
               IN  job' = [job EXCEPT ![h].pc = "save",
                                      ![h].row.access = new.access,
                                      ![h].row.refresh = new.refresh]
       ELSE Answer(h) /\ UNCHANGED live
    /\ UNCHANGED <<tables, store, granted>>

(* The answer is lost, or the admin's client left and took the request's   *)
(* context with it: the provider may have issued tokens all the same.      *)
RefreshLost(h) ==
    LET r == job[h].row IN
    /\ job[h].pc = "post"
    /\ Answer(h)
    /\ \/ UNCHANGED live
       \/ Accepts(job[h].via, r.refresh) /\ Issue(r.refresh)
    /\ UNCHANGED <<tables, store, granted>>

(* SaveToken is an upsert; the row is updated as it was read, with the new *)
(* tokens in it.                                                           *)
SaveRefreshed(h) ==
    LET r == job[h].row IN
    /\ job[h].pc = "save"
    /\ Answer(h)
    /\ IF job[h].id = Default
       THEN /\ SaveToken(<<r.provider, Default>>,
                         [access |-> r.access, refresh |-> r.refresh])
            /\ UNCHANGED tables
       ELSE /\ UpdateProviderConnection(job[h].id, r)
            /\ UNCHANGED <<created, nodes, pools, store>>
    /\ UNCHANGED upstream

-----------------------------------------------------------------------------
(* POST /api/oauth/{provider}/delete: the row goes, then the token that    *)
(* the store holds under the row's id.                                     *)
handleOAuthDelete(h, p, i) ==
    /\ Idle(h)
    /\ i \in DOMAIN rows /\ rows[i].provider = p
    /\ DeleteProviderConnection(i)
    /\ Begin(h, [IdleJob EXCEPT !.pc = "clear", !.id = i, !.row.provider = p])
    /\ UNCHANGED <<created, nodes, pools, store, upstream>>

ClearToken(h) ==
    /\ job[h].pc = "clear"
    /\ DeleteToken(<<job[h].row.provider, job[h].id>>)
    /\ Answer(h)
    /\ UNCHANGED <<tables, upstream>>

(* DELETE /api/oauth/tokens/{provider}/{account} *)
handleOAuthTokenDelete(p) ==
    /\ <<p, Default>> \in DOMAIN tokens
    /\ DeleteToken(<<p, Default>>)
    /\ UNCHANGED <<tables, upstream, job>>

(* GET /api/oauth/callback exchanges a code and saves the tokens under the *)
(* account "default", replacing those of an earlier authorization.  The    *)
(* refresh token is the answer's, if it has one.                           *)
ExchangeCode(offline) ==
    LET t == FirstToken(NextGrant)
    IN  [access |-> t, refresh |-> IF offline THEN t ELSE NoToken]

handleOAuthCallback(p, offline) ==
    /\ Authorize(p)
    /\ SaveToken(<<p, Default>>, ExchangeCode(offline))
    /\ UNCHANGED <<tables, live, job>>

-----------------------------------------------------------------------------
TokenStep(h) ==
    \/ RefreshAnswered(h) \/ RefreshLost(h) \/ SaveRefreshed(h)
    \/ ClearToken(h)

TokenRequest(h, p) ==
    \/ RefreshFromStore(h, p)
    \/ \E i \in 0..created : RefreshFromRow(h, p, i)
    \/ \E i \in DOMAIN rows : handleOAuthDelete(h, p, i)

-----------------------------------------------------------------------------
(* The tokens a refresh is about to save are the newest of their           *)
(* authorization: only the newest refresh token of a rotating provider is  *)
(* exchanged, and until it is saved nobody else holds its successor.  So   *)
(* concurrent refreshes cannot store an older token over a newer one.      *)
UnsavedTokenIsLive ==
    \A h \in Handlers :
        job[h].pc = "save" /\ job[h].via \in Rotating =>
            job[h].row.refresh.gen = live[job[h].row.refresh.grant]

HasRefresh(i) == i \in DOMAIN rows /\ rows[i].refresh # NoToken

(* implementation-plan.md:268 describes the refresh as "POSTs to token     *)
(* endpoint, updates stored token".  A test or a patch that read the row   *)
(* before writes the spent token back.                                     *)
StoredTokenIsLive ==
    (\A h \in Handlers : Idle(h)) =>
        \A i \in DOMAIN rows : rows[i].provider \in Rotating /\ HasRefresh(i)
            => rows[i].refresh.gen = live[rows[i].refresh.grant]

(* handleOAuthDelete says "Delete token from oauth store if present"       *)
(* (server.go:2374), but it looks under the row's id, where no token is    *)
(* ever stored.                                                            *)
DeleteRemovesToken ==
    [][\A h \in Handlers : job[h].pc = "clear" /\ job'[h].pc = "idle" =>
         \A k \in DOMAIN tokens' : k[1] # job[h].row.provider]_<<job, tokens>>
=============================================================================
