----------------------------- MODULE OAuthFlows ------------------------------
(***************************************************************************)
(* Logging in to a provider from the dashboard: the authorization-code and *)
(* device-code flows of internal/oauth/flows.go, the social flow and the   *)
(* imports of internal/api/server.go.  The server keeps nothing of a login *)
(* between its requests: the browser carries the code and the verifier.    *)
(* What the provider knows of a login is the external half: whether it was *)
(* given a challenge, and what the user decided.                           *)
(***************************************************************************)
EXTENDS OAuthTokens

CONSTANTS
    Offers    \* bound: sets of the providers, nodes and pools that a run uses

(* Providers whose accounts can be imported.  *)
Imported == {"cursor", "iflow", "gitlab", "grok-web", "perplexity-web", "kiro"}

ASSUME FlowsAssumption ==
    \A ids \in Offers :
        /\ ids \subseteq OAuthProviders \cup Nodes \cup Pools
        /\ ids \cap Imported \subseteq OAuthProviders

VARIABLES
    attempts, \* logins started, in order, as the provider sees them
    offered   \* bound: the element of Offers the run is about

Attempt == [provider : OAuthProviders, kind : {"code", "device", "social"},
            challenge : BOOLEAN, given : BOOLEAN,
            state : {"pending", "approved", "denied", "spent", "refused"}]

FlowsTypeOK ==
    /\ attempts \in Seq(Attempt) /\ Len(attempts) <= MaxAttempts
    /\ offered \in Offers

credVars == <<tables, job, store, upstream, attempts, offered>>
CredTypeOK == TableTypeOK /\ JobTypeOK /\ TokensTypeOK /\ FlowsTypeOK

CredInit ==
    /\ TableInit /\ JobInit /\ TokensInit
    /\ attempts = <<>>
    /\ offered \in Offers

StartAttempt(p, kind, challenge) ==
    /\ Len(attempts) < MaxAttempts
    /\ attempts' = Append(attempts, [provider |-> p, kind |-> kind,
                                     challenge |-> challenge, given |-> FALSE,
                                     state |-> "pending"])
    /\ UNCHANGED <<tables, job, store, upstream>>

-----------------------------------------------------------------------------
handleOAuthAuthorizeGeneric(p) ==
    /\ IsCodeFlow(p)
    /\ StartAttempt(p, "code", AuthorizeSendsChallenge(p))

RequestDeviceCode(p) == StartAttempt(p, "device", DeviceSendsChallenge(p))

(* Kiro registers a client first and asks for the code in its name.        *)
requestKiroDeviceCode == StartAttempt("kiro", "device", FALSE)

handleOAuthDeviceCode(p) ==
    /\ IsDeviceFlow(p)
    /\ IF p = "kiro" THEN requestKiroDeviceCode ELSE RequestDeviceCode(p)

handleKiroSocialAuthorize == StartAttempt("kiro", "social", TRUE)

(* The user approves or denies the login at the provider.                  *)
Decide(a, state) ==
    /\ attempts[a].state = "pending"
    /\ attempts' = [attempts EXCEPT ![a].state = state]
    /\ UNCHANGED <<tables, job, store, upstream>>

-----------------------------------------------------------------------------
(* The exchange of a code, and the poll of a device code.  The client was  *)
(* given a verifier when the login began.  It may hand it back or leave it *)
(* out (given); only the social exchange asks for one.                     *)

Redeem(h, a, given) ==
    /\ Idle(h)
    /\ Begin(h, [IdleJob EXCEPT !.pc = "redeem", !.attempt = a, !.verifier = given,
                                !.via = attempts[a].provider])
    /\ UNCHANGED <<tables, store, upstream, attempts>>

handleOAuthExchange(h, a, given) == attempts[a].kind = "code" /\ Redeem(h, a, given)
handleOAuthPoll(h, a, given) == attempts[a].kind = "device" /\ Redeem(h, a, given)
handleKiroSocialExchange(h, a) == attempts[a].kind = "social" /\ Redeem(h, a, TRUE)

MapTokens(h) ==
    LET t == FirstToken(NextGrant)
    IN  NewRow(job[h].via, t, t, "active")

(* What a provider may make of an approved login: a challenge needs its    *)
(* verifier; a verifier without a challenge is refused in a device login,  *)
(* and in a code login by the providers that mind.                         *)
Verdicts(login, sent) ==
    IF sent = login.challenge THEN {"spent"}
    ELSE IF login.challenge \/ login.kind = "device" THEN {"refused"}
    ELSE {"spent", "refused"}

(* The provider gives its tokens, once, or refuses; either ends the login. *)
Answered(h, sent) ==
    LET a == job[h].attempt
    IN  \E verdict \in Verdicts(attempts[a], sent) :
          /\ attempts' = [attempts EXCEPT ![a].state = verdict,
                                          ![a].given = job[h].verifier]
          /\ IF verdict = "spent"
             THEN /\ Authorize(job[h].via)
                  /\ job' = [job EXCEPT ![h].pc = "extra", ![h].row = MapTokens(h)]
             ELSE Answer(h) /\ UNCHANGED granted

Redeeming(h, kind) ==
    /\ job[h].pc = "redeem"
    /\ attempts[job[h].attempt].kind = kind
    /\ UNCHANGED <<tables, store, live>>

State(h) == attempts[job[h].attempt].state

(* A code that decodes as Cline's JSON is replaced by a field the decoder  *)
(* never fills.                                                            *)
SendsCode(p, encoded) == ~(p = "cline" /\ encoded)

(* A verifier that the client gave goes along with every code, in the JSON *)
(* and in the form, whether or not the login began with a challenge.       *)
ExchangeToken(h, encoded) ==
    /\ Redeeming(h, "code")
    /\ IF State(h) = "approved" /\ SendsCode(job[h].via, encoded)
       THEN Answered(h, job[h].verifier)
       ELSE Answer(h) /\ UNCHANGED <<granted, attempts>>

exchangeKiroSocialCode(h) ==
    /\ Redeeming(h, "social")
    /\ IF State(h) = "approved" THEN Answered(h, job[h].verifier)
       ELSE Answer(h) /\ UNCHANGED <<granted, attempts>>

(* CodeBuddy refuses with a code that PollDeviceToken knows only while the *)
(* user has yet to decide: any other refusal passes for a success that has *)
(* no token.                                                               *)
PollDeviceToken(h) ==
    LET p == job[h].via
    IN  /\ Redeeming(h, "device") /\ p # "kilocode"
        /\ IF State(h) = "approved"
           THEN Answered(h, PollSendsVerifier(p, job[h].verifier))
           ELSE /\ UNCHANGED <<granted, attempts>>
                /\ IF p = "codebuddy" /\ State(h) # "pending"
                   THEN job' = [job EXCEPT ![h].pc = "insert",
                          ![h].row = NewRow(p, NoToken, NoToken, "active")]
                   ELSE Answer(h)

(* A GET with the device code alone.                                       *)
pollKilocodeToken(h) ==
    /\ Redeeming(h, "device") /\ job[h].via = "kilocode"
    /\ IF State(h) = "approved" THEN Answered(h, FALSE)
       ELSE Answer(h) /\ UNCHANGED <<granted, attempts>>

(* What a provider's account still needs before it is stored.  iFlow and   *)
(* Qoder give an API key or the login fails, its code spent.               *)
NeedsAPIKey(p) == p \in {"iflow", "qoder"}

FetchAPIKey(h, ok) ==
    /\ job[h].pc = "extra" /\ NeedsAPIKey(job[h].via)
    /\ IF ok THEN Goto(h, "insert") ELSE Answer(h)
    /\ UNCHANGED <<tables, store, upstream, attempts>>

(* For the others a failure is ignored.                                    *)
FetchExtras(h) ==
    /\ job[h].pc = "extra" /\ ~NeedsAPIKey(job[h].via)
    /\ Goto(h, "insert")
    /\ UNCHANGED <<tables, store, upstream, attempts>>

PostExchange(h) ==
    \/ \E ok \in BOOLEAN : FetchAPIKey(h, ok)
    \/ FetchExtras(h)

-----------------------------------------------------------------------------
(* Accounts that are imported rather than logged in to.                    *)

(* The user's token, cookie or PAT is stored as it is; none of these can   *)
(* be refreshed.                                                           *)
createOAuthConnection(p, status) ==
    /\ p \in offered
    /\ Authorize(p)
    /\ CreateProviderConnection(NewRow(p, FirstToken(NextGrant), NoToken, status))
    /\ UNCHANGED <<nodes, pools, job, store, live, attempts>>

handleCursorImport == createOAuthConnection("cursor", "active")
handleIFlowCookie == createOAuthConnection("iflow", "active")
handleGitLabPAT == createOAuthConnection("gitlab", "active")
handleWebCookie ==
    \E p \in {"grok-web", "perplexity-web"} : createOAuthConnection(p, "stored")

(* A Kiro refresh token (which the IDE holds as well) is refreshed before  *)
(* it is stored.                                                           *)
handleKiroImport(h) ==
    /\ "kiro" \in offered
    /\ Idle(h)
    /\ Begin(h, [IdleJob EXCEPT !.pc = "import", !.via = "kiro"])
    /\ UNCHANGED <<tables, store, upstream, attempts>>

validateKiroImportToken(h, ok) ==
    /\ job[h].pc = "import"
    /\ IF ok
       THEN /\ Authorize("kiro")
            /\ job' = [job EXCEPT ![h].pc = "insert", ![h].row = MapTokens(h)]
       ELSE Answer(h) /\ UNCHANGED granted
    /\ UNCHANGED <<tables, store, live, attempts>>

-----------------------------------------------------------------------------
(* GET /api/providers/client starts a goroutine that reads the Codex rows  *)
(* and writes each of them back with an e-mail address in it.              *)
backfillCodexEmails(h, i) ==
    /\ Idle(h)
    /\ i \in RowsOf("codex") /\ rows[i].access # NoToken
    /\ Begin(h, [IdleJob EXCEPT !.pc = "write", !.id = i, !.row = rows[i]])
    /\ UNCHANGED <<tables, store, upstream, attempts>>

(* The client of a request goes away, which cancels the request's context: *)
(* neither the upstream nor the database answers it any more.              *)
ClientLeaves(h) ==
    /\ ~Idle(h)
    /\ Answer(h)
    /\ UNCHANGED <<tables, store, upstream, attempts>>

-----------------------------------------------------------------------------
LoginStep(h) ==
    \/ \E b \in BOOLEAN : ExchangeToken(h, b) \/ validateKiroImportToken(h, b)
    \/ exchangeKiroSocialCode(h) \/ PollDeviceToken(h) \/ pollKilocodeToken(h)
    \/ PostExchange(h) \/ ClientLeaves(h)

handleOAuthDynamicGet(p) ==
    \/ handleOAuthAuthorizeGeneric(p) \/ handleOAuthDeviceCode(p)
    \/ p = "kiro" /\ handleKiroSocialAuthorize

handleOAuthDynamicPost(h) ==
    \/ \E a \in DOMAIN attempts :
         \/ \E given \in BOOLEAN : \/ handleOAuthExchange(h, a, given)
                                   \/ handleOAuthPoll(h, a, given)
         \/ handleKiroSocialExchange(h, a)
    \/ handleCursorImport \/ handleIFlowCookie \/ handleGitLabPAT
    \/ handleWebCookie \/ handleKiroImport(h)

CredNext ==
    /\ UNCHANGED offered
    /\ \/ /\ UNCHANGED <<store, upstream, attempts>>
          /\ \/ \E h \in Handlers : HandlerStep(h) \/ ConnectionRequest(h, offered)
             \/ SingleStatement(offered)
       \/ /\ UNCHANGED attempts
          /\ \/ \E h \in Handlers :
                  TokenStep(h) \/ \E p \in OAuthProviders \cap offered : TokenRequest(h, p)
             \/ \E p \in OAuthProviders \cap offered : \/ handleOAuthTokenDelete(p)
                                   \/ \E offline \in BOOLEAN :
                                        handleOAuthCallback(p, offline)
       \/ \E p \in OAuthProviders \cap offered : handleOAuthDynamicGet(p)
       \/ \E a \in DOMAIN attempts, state \in {"approved", "denied"} :
             Decide(a, state)
       \/ \E h \in Handlers : \/ LoginStep(h) \/ handleOAuthDynamicPost(h)
                              \/ \E i \in DOMAIN rows : backfillCodexEmails(h, i)

CredSpec == CredInit /\ [][CredNext]_credVars

-----------------------------------------------------------------------------
(* The two halves of a login agree on its verifier.  A login that the user *)
(* approved is refused for it only where the client left out the verifier  *)
(* of a challenge, or in a code login that began without a challenge: there *)
(* ExchangeToken sends what it was given all the same, and some providers  *)
(* mind.  Whether to challenge is decided in BuildAuthorizeURL and         *)
(* RequestDeviceCode, whether to answer in ExchangeToken and               *)
(* PollDeviceToken, and nothing is kept in between.                        *)
ChallengeIsAnswered ==
    \A a \in DOMAIN attempts : attempts[a].state = "refused" =>
        IF attempts[a].given THEN attempts[a].kind = "code" /\ ~attempts[a].challenge
        ELSE attempts[a].challenge
=============================================================================
