---------------------------- MODULE OAuthRegistry ----------------------------
(***************************************************************************)
(* The table of internal/oauth/providers.go: for every provider the flow   *)
(* that logs a user in, the encoding of its requests, and whether its      *)
(* token endpoint is known without data of the login.                      *)
(***************************************************************************)

JSONProviders == {"claude", "cline", "kiro", "kilocode", "codebuddy"}

Registry ==
    [p \in {"claude", "codex", "openai", "gitlab", "gemini-cli", "qoder",
            "iflow", "antigravity", "cline", "qwen", "github", "copilot",
            "kimi-coding", "kiro", "kilocode", "codebuddy", "cursor"} |->
       [flow |-> IF p \in {"claude", "codex", "openai", "gitlab"}
                 THEN "code_pkce"
                 ELSE IF p \in {"gemini-cli", "qoder", "iflow",
                                "antigravity", "cline"} THEN "code"
                 ELSE IF p = "cursor" THEN "import_token"
                 ELSE "device_code",
        form |-> p \notin JSONProviders,
        noPKCE |-> p \in {"github", "copilot", "kiro", "kimi-coding",
                          "kilocode", "codebuddy"},
        tokenURL |-> p \notin {"kiro", "kilocode", "gitlab", "cursor"}]]

Registered(p) == p \in DOMAIN Registry

IsCodeFlow(p) == Registered(p) /\ Registry[p].flow \in {"code", "code_pkce"}
IsDeviceFlow(p) == Registered(p) /\ Registry[p].flow = "device_code"

(* BuildAuthorizeURL sends the challenge only when the flow asks for it;   *)
(* RequestDeviceCode only in a form and when the provider takes one.       *)
AuthorizeSendsChallenge(p) == Registry[p].flow = "code_pkce"
DeviceSendsChallenge(p) == Registry[p].form /\ ~Registry[p].noPKCE

PollSendsVerifierAlways(p, given) == Registry[p].form /\ given \* mutant: no flag
(* PollDeviceToken looks at the flag anew, and at what the client gave: its *)
(* JSON carries no verifier.                                               *)
PollSendsVerifier(p, given) == Registry[p].form /\ given /\ ~Registry[p].noPKCE
=============================================================================
