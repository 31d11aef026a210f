----------------------------- MODULE GoogleCalls -----------------------------
(***************************************************************************)
(* Chat calls of the three Google adapters: Gemini CLI, Antigravity and    *)
(* Vertex.  A call resolves its credentials, takes an access token from a  *)
(* process-wide cache or obtains one, sends the request, and - Gemini CLI  *)
(* and Antigravity, not streaming - answers a 401 with a refresh and one   *)
(* more request.  Antigravity goes through a list of URLs.                 *)
(*                                                                         *)
(* One tick of the clock is the timeout of the adapters' HTTP client (60   *)
(* seconds): an exchange spans at most one tick, steps of the router none. *)
(* Lead is tokenRefreshBuffer, Lifetime the life of a token at Google.     *)
(***************************************************************************)
EXTENDS Integers, Sequences, FiniteSets

CONSTANTS
    GoogleRequests,  \* calls that may be in progress at a time
    GoogleAccounts,  \* the provider's accounts, in the order of the file
    Lead, Lifetime,
    MaxTokens        \* bound: tokens Google issues

AccountSet == {GoogleAccounts[i] : i \in DOMAIN GoogleAccounts}

ASSUME GoogleAssumption ==
    /\ GoogleAccounts \in Seq(AccountSet) /\ GoogleAccounts # <<>>
    /\ "none" \notin AccountSet
    /\ MaxTokens \in Nat /\ Len(GoogleAccounts) <= MaxTokens
    /\ Lead \in Nat /\ Lead >= 3
    /\ Lifetime \in Nat /\ Lifetime > Lead

VARIABLES
    googleAdapter,   \* the adapter, and the URLs it tries
    issued,          \* at Google: the tokens, by number
    configToken,     \* AccountConfig.AccessToken and ExpiresAt, by account
    tokenCache,      \* googleTokenCache, vertexTokenCache
    accountIdx,      \* AccountSelector.accountIdx, modulo the accounts
    googleCall       \* ChatCompletion, StreamChatCompletion

googleVars ==
    <<googleAdapter, issued, configToken, tokenCache, accountIdx, googleCall>>

NoGoogleToken == [account |-> "none", left |-> 0, live |-> FALSE]
NotCached == [token |-> 0, left |-> 0]
CallIdle ==
    [pc |-> "idle", stream |-> FALSE, asked |-> "none", used |-> "none", token |-> 0,
     known |-> FALSE, url |-> 1, again |-> FALSE, refused |-> 0, failed |-> FALSE,
     age |-> 0]

GoogleTypeOK ==
    /\ googleAdapter \in [name : {"gemini-cli", "antigravity", "vertex"}, urls : 1..2]
    /\ issued \in [1..MaxTokens -> [account : AccountSet \cup {"none"},
                                    left : 0..Lifetime, live : BOOLEAN]]
    /\ configToken \in [AccountSet -> [token : 0..MaxTokens, known : BOOLEAN]]
    /\ tokenCache \in [AccountSet -> [token : 0..MaxTokens, left : 0..Lifetime]]
    /\ accountIdx \in 0..Len(GoogleAccounts) - 1
    /\ googleCall \in [GoogleRequests ->
         [pc : {"idle", "resolve", "lookup", "mint", "store", "send", "refused"},
          stream : BOOLEAN, asked : AccountSet \cup {"none"},
          used : AccountSet \cup {"none"}, token : 0..MaxTokens, known : BOOLEAN,
          url : 1..2, again : BOOLEAN, refused : 0..MaxTokens, failed : BOOLEAN,
          age : 0..1]]

\* NewGeminiCLIAdapter, NewAntigravityAdapter: the accounts carry the token of an
\* authorization, with or without its expiry.  NewVertexAdapter: service accounts.
NewGoogleAdapters ==
    {[name |-> "gemini-cli", urls |-> 1], [name |-> "vertex", urls |-> 1],
     [name |-> "antigravity", urls |-> 1], [name |-> "antigravity", urls |-> 2]}

GoogleInit ==
    /\ googleAdapter \in NewGoogleAdapters
    /\ issued = [t \in 1..MaxTokens |->
         IF t <= Len(GoogleAccounts) /\ googleAdapter.name # "vertex"
         THEN [account |-> GoogleAccounts[t], left |-> Lifetime, live |-> TRUE]
         ELSE NoGoogleToken]
    /\ \E known \in BOOLEAN :
         configToken = [a \in AccountSet |->
           IF googleAdapter.name = "vertex" THEN [token |-> 0, known |-> FALSE]
           ELSE [token |-> CHOOSE t \in DOMAIN GoogleAccounts : GoogleAccounts[t] = a,
                 known |-> known]]
    /\ tokenCache = [a \in AccountSet |-> NotCached]
    /\ accountIdx = 0
    /\ googleCall = [c \in GoogleRequests |-> CallIdle]

Refreshes == googleAdapter.name # "vertex"
Unissued == {t \in 1..MaxTokens : issued[t] = NoGoogleToken}
CallAt(c, pc) == googleCall[c].pc = pc
SetCall(c, r) == googleCall' = [googleCall EXCEPT ![c] = r]
GoogleShared == <<googleAdapter, issued, configToken, tokenCache, accountIdx>>

-----------------------------------------------------------------------------
(* The call and its credentials *)

\* Engine.ChatCompletion puts the account it chose into the context.
GoogleAttempt(c, a, stream) ==
    /\ CallAt(c, "idle")
    /\ SetCall(c, [CallIdle EXCEPT !.pc = "resolve", !.asked = a, !.stream = stream])
    /\ UNCHANGED GoogleShared

\* The adapters resolve the account "": the selector's turn moves on whichever
\* adapter asks.  Gemini CLI and Antigravity then take the file's first account.
GetGoogleAccount ==
    /\ accountIdx' = (accountIdx + 1) % Len(GoogleAccounts)
    /\ UNCHANGED <<googleAdapter, issued, configToken, tokenCache>>

MatchedAccount == GoogleAccounts[1]

ShouldRefreshGoogleToken(own) == own.known /\ issued[own.token].left <= Lead

resolveGoogleCredentials(c) ==
    LET own == configToken[MatchedAccount]
    IN /\ CallAt(c, "resolve") /\ Refreshes
       /\ GetGoogleAccount
       /\ SetCall(c, [googleCall[c] EXCEPT
            !.used = MatchedAccount, !.token = own.token, !.known = own.known,
            !.pc = IF ShouldRefreshGoogleToken(own) THEN "lookup" ELSE "send"])

resolveVertexCredentials(c) ==
    /\ CallAt(c, "resolve") /\ ~Refreshes
    /\ GetGoogleAccount
    /\ SetCall(c, [googleCall[c] EXCEPT !.used = GoogleAccounts[accountIdx + 1],
                                        !.pc = "lookup"])

\* The cache under a read lock, by refresh token or service account.
TokenIsCachedForEver(a) == tokenCache[a].token # 0 \* mutant: an expired entry counts
TokenIsCached(a) == tokenCache[a].token # 0 /\ tokenCache[a].left > Lead

LookupToken(c) ==
    LET entry == tokenCache[googleCall[c].used] IN
    /\ CallAt(c, "lookup")
    /\ IF TokenIsCached(googleCall[c].used)
       THEN SetCall(c, [googleCall[c] EXCEPT !.pc = "send", !.token = entry.token,
                                             !.known = TRUE])
       ELSE SetCall(c, [googleCall[c] EXCEPT !.pc = "mint", !.age = 0])
    /\ UNCHANGED GoogleShared

\* Google's answer, on its way.
IssueToken(c) ==
    \E t \in Unissued :
      /\ CallAt(c, "mint") /\ \A s \in Unissued : t <= s
      /\ issued' = [issued EXCEPT ![t] = [account |-> googleCall[c].used,
                                          left |-> Lifetime, live |-> TRUE]]
      /\ SetCall(c, [googleCall[c] EXCEPT !.pc = "store", !.token = t])
      /\ UNCHANGED <<googleAdapter, configToken, tokenCache, accountIdx>>

\* RefreshGoogleToken counts a token's life from the answer, mintVertexToken from the
\* question.
StoreToken(c) ==
    LET left == IF Refreshes THEN Lifetime ELSE Lifetime - googleCall[c].age IN
    /\ CallAt(c, "store")
    /\ tokenCache' = [tokenCache EXCEPT ![googleCall[c].used] =
                        [token |-> googleCall[c].token, left |-> left]]
    /\ SetCall(c, [googleCall[c] EXCEPT !.pc = "send", !.known = TRUE, !.age = 0])
    /\ UNCHANGED <<googleAdapter, issued, configToken, accountIdx>>

\* Without a token: the call fails, or, after a 401, fails with that 401.
RefreshFails(c) ==
    /\ CallAt(c, "mint")
    /\ SetCall(c, IF googleCall[c].again
                  THEN [googleCall[c] EXCEPT !.pc = "refused", !.failed = TRUE,
                                             !.age = 0]
                  ELSE CallIdle)
    /\ UNCHANGED GoogleShared

-----------------------------------------------------------------------------
(* The request *)

GoogleAccepts(t) == issued[t].live /\ issued[t].left > 0

SendSucceeds(c) ==
    /\ CallAt(c, "send") /\ GoogleAccepts(googleCall[c].token)
    /\ SetCall(c, CallIdle)
    /\ UNCHANGED GoogleShared

\* Network error, 429, 503: only Antigravity has another URL to try.
HasNextURL(c) == googleCall[c].url < googleAdapter.urls

TryNextURL(c) ==
    /\ CallAt(c, "send")
    /\ SetCall(c, IF HasNextURL(c)
                  THEN [googleCall[c] EXCEPT !.url = @ + 1, !.again = FALSE, !.age = 0]
                  ELSE CallIdle)
    /\ UNCHANGED GoogleShared

FailOn401(c) == \* mutant: a 401 is not answered with a refresh
    /\ CallAt(c, "send") /\ ~GoogleAccepts(googleCall[c].token)
    /\ SetCall(c, [googleCall[c] EXCEPT !.pc = "refused", !.age = 0])
    /\ UNCHANGED GoogleShared

RefreshOn401(c) ==
    LET retries == Refreshes /\ ~googleCall[c].stream /\ ~googleCall[c].again IN
    /\ CallAt(c, "send") /\ ~GoogleAccepts(googleCall[c].token)
    /\ SetCall(c, [googleCall[c] EXCEPT
         !.pc = IF retries THEN "lookup" ELSE "refused", !.again = TRUE,
         !.refused = googleCall[c].token, !.age = 0])
    /\ UNCHANGED GoogleShared

FailUnauthorized(c) ==
    /\ CallAt(c, "refused")
    /\ SetCall(c, CallIdle)
    /\ UNCHANGED GoogleShared

-----------------------------------------------------------------------------
(* Time, and the owner of the account *)

Sooner(n) == IF n = 0 THEN 0 ELSE n - 1

\* The HTTP client's timeout ends an exchange before a second tick.
ClockTick ==
    /\ \A c \in GoogleRequests :
         CallAt(c, "idle") \/ (googleCall[c].pc \in {"mint", "store", "send"}
                               /\ googleCall[c].age = 0)
    /\ issued' = [t \in 1..MaxTokens |-> [issued[t] EXCEPT !.left = Sooner(@)]]
    /\ tokenCache' = [a \in AccountSet |-> [tokenCache[a] EXCEPT !.left = Sooner(@)]]
    /\ googleCall' = [c \in GoogleRequests |->
         IF CallAt(c, "idle") THEN CallIdle ELSE [googleCall[c] EXCEPT !.age = 1]]
    /\ UNCHANGED <<googleAdapter, configToken, accountIdx>>

Revoke(t) ==
    /\ issued[t].live
    /\ issued' = [issued EXCEPT ![t].live = FALSE]
    /\ UNCHANGED <<googleAdapter, configToken, tokenCache, accountIdx, googleCall>>

GoogleStep(c) ==
    \/ \E a \in AccountSet, stream \in BOOLEAN : GoogleAttempt(c, a, stream)
    \/ resolveGoogleCredentials(c) \/ resolveVertexCredentials(c)
    \/ LookupToken(c) \/ IssueToken(c) \/ StoreToken(c) \/ RefreshFails(c)
    \/ SendSucceeds(c) \/ TryNextURL(c) \/ RefreshOn401(c) \/ FailUnauthorized(c)

GoogleNext ==
    \/ \E c \in GoogleRequests : GoogleStep(c)
    \/ ClockTick
    \/ \E t \in 1..MaxTokens : Revoke(t)

GoogleSpec == GoogleInit /\ [][GoogleNext]_googleVars

-----------------------------------------------------------------------------
(* Properties *)

\* A request never carries a token after an expiry the router knew of: the lead covers
\* the exchange that obtained the token, the wait at Antigravity's first URL and the
\* difference between Google's clock and the router's (google_oauth.go:61,112,
\* vertex_auth.go:91,179).
KnownTokensAreLive ==
    \A c \in GoogleRequests :
      CallAt(c, "send") /\ googleCall[c].known => issued[googleCall[c].token].left > 0

\* A call that is not a stream fails as unauthorized only when its account's token was
\* withdrawn or no new one was to be had, never because a token had run out: this is
\* what the request after a 401 is for (gemini_cli.go:207, antigravity.go:501).
ExpiryIsNotSeen ==
    \A c \in GoogleRequests :
      LET call == googleCall[c] IN
      CallAt(c, "refused") /\ ~call.stream =>
        call.failed \/ ~issued[call.token].live

\* antigravity.go:507 and gemini_cli.go:214: "Retry request with new token".
RetryUsesNewToken ==
    \A c \in GoogleRequests :
      CallAt(c, "send") /\ googleCall[c].again =>
        googleCall[c].token # googleCall[c].refused

\* README.md:29: "Multi-account rotation"; the request carries the credentials of the
\* account the engine chose, and charges.
ChosenAccountIsUsed ==
    \A c \in GoogleRequests :
      CallAt(c, "send") => googleCall[c].used = googleCall[c].asked
=============================================================================
