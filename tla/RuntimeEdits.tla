---------------------------- MODULE RuntimeEdits -----------------------------
(***************************************************************************)
(* The configuration of internal/config/config.go as data: what validate   *)
(* demands of it, and the edits of runtime.go.  An edit maps a             *)
(* configuration to the set of its outcomes: one configuration, or none    *)
(* when the closure that edits the clone returns an error.                 *)
(***************************************************************************)
EXTENDS Integers, Sequences, SequencesExt

CONSTANTS
    Names,       \* names of providers in the file
    Types,       \* provider types, "unknown" standing for one not in the catalog
    HaveUrl,     \* the types whose catalog entry has a default base URL
    RouteNames, AliasNames, ModelNames,
    Keys         \* admin API keys

NoKey == ""

Provider == [type : Types, enabled : BOOLEAN, url : BOOLEAN, secret : BOOLEAN]

Fields == {"proxy", "locale"}  \* two of the fields of the settings
Settings == [Fields -> BOOLEAN]

(* A partial function is a map of the configuration. *)
IsMap(f, D, R) == DOMAIN f \subseteq D /\ f \in [DOMAIN f -> R]

Put(f, k, v) == [x \in DOMAIN f \cup {k} |-> IF x = k THEN v ELSE f[x]]
Drop(f, k) == [x \in DOMAIN f \ {k} |-> f[x]]

(* The edits of the maps: refused when the key is there, when it is not.   *)
Added(f, k, v) == IF k \in DOMAIN f THEN {} ELSE {Put(f, k, v)}
Replaced(f, k, v) == IF k \in DOMAIN f THEN {Put(f, k, v)} ELSE {}
Removed(f, k) == IF k \in DOMAIN f THEN {Drop(f, k)} ELSE {}

-----------------------------------------------------------------------------
(* validate *)

ListAdminAPIKeys(c) ==
    (IF c.apiKey = NoKey THEN <<>> ELSE <<c.apiKey>>) \o c.adminKeys

ValidServer(c) ==
    /\ c.complete   \* port, timeouts, log level: never 0 or empty
    /\ ListAdminAPIKeys(c) # <<>>
    /\ NoKey \notin ToSet(c.adminKeys)
    /\ IsInjective(ListAdminAPIKeys(c))

(* validate writes the catalog's base URL into the configuration it checks *)
(* when there is none.                                                     *)
Endpoint(p) == p.url \/ p.type \in HaveUrl

ValidProviders(c) ==
    \A n \in DOMAIN c.providers :
      LET p == c.providers[n]
      IN  /\ p.type # "unknown"
          /\ p.enabled => Endpoint(p) /\ p.secret

(* Every provider that is referred to is there, enabled or not. *)
ValidRoutes(c) ==
    \A r \in DOMAIN c.routes :
      c.routes[r] # <<>> /\ ToSet(c.routes[r]) \subseteq DOMAIN c.providers

AliasesUnchecked(c) == TRUE  \* mutant: as in configurations without aliases

ValidAliases(c) == \A a \in DOMAIN c.aliases : c.aliases[a] \in DOMAIN c.providers

ValidModels(c) == \A m \in DOMAIN c.models : c.models[m] \in DOMAIN c.providers

validate(c) ==
    /\ ValidServer(c) /\ ValidProviders(c)
    /\ ValidRoutes(c) /\ ValidAliases(c) /\ ValidModels(c)

(* Load fills in what is missing before it validates. *)
applyDefaults(c) == [c EXCEPT !.complete = TRUE]

-----------------------------------------------------------------------------
(* Edits of the entries. *)

AddProvider(c, n, p) ==
    {[c EXCEPT !.providers = f] : f \in Added(c.providers, n, p)}

(* An update may rename; a name taken twice is refused by validate.        *)
UpdateProvider(c, old, n, p) ==
    IF old \notin DOMAIN c.providers \/ n \in DOMAIN c.providers \ {old} THEN {}
    ELSE {[c EXCEPT !.providers = Put(Drop(@, old), n, p)]}

DeleteProvider(c, n) ==
    {[c EXCEPT !.providers = f] : f \in Removed(c.providers, n)}

AddRoute(c, r, t) == {[c EXCEPT !.routes = f] : f \in Added(c.routes, r, t)}
UpdateRoute(c, r, t) == {[c EXCEPT !.routes = f] : f \in Replaced(c.routes, r, t)}
DeleteRoute(c, r) == {[c EXCEPT !.routes = f] : f \in Removed(c.routes, r)}

AddModelAlias(c, a, n) == {[c EXCEPT !.aliases = f] : f \in Added(c.aliases, a, n)}
UpdateModelAlias(c, a, n) ==
    {[c EXCEPT !.aliases = f] : f \in Replaced(c.aliases, a, n)}
DeleteModelAlias(c, a) == {[c EXCEPT !.aliases = f] : f \in Removed(c.aliases, a)}

AddCustomModel(c, m, n) == {[c EXCEPT !.models = f] : f \in Added(c.models, m, n)}
UpdateCustomModel(c, m, n) ==
    {[c EXCEPT !.models = f] : f \in Replaced(c.models, m, n)}
DeleteCustomModel(c, m) == {[c EXCEPT !.models = f] : f \in Removed(c.models, m)}

UpdateSettings(c, s) == {[c EXCEPT !.settings = s]}

-----------------------------------------------------------------------------
(* Edits of the admin keys: the legacy key comes first in the list, but is *)
(* kept apart; deleting it promotes the first of the others.               *)

AddAdminAPIKey(c, k) ==
    IF k \in ToSet(ListAdminAPIKeys(c)) THEN {}
    ELSE {[c EXCEPT !.adminKeys = Append(@, k)]}

(* The first entry that holds the old key; validate keeps them distinct.   *)
UpdateAdminAPIKey(c, old, k) ==
    IF c.apiKey = old THEN {[c EXCEPT !.apiKey = k]}
    ELSE {[c EXCEPT !.adminKeys[i] = k] :
            i \in {j \in DOMAIN c.adminKeys : c.adminKeys[j] = old}}

DeleteAdminAPIKey(c, k) ==
    IF c.apiKey = k
    THEN IF c.adminKeys = <<>> THEN {}
         ELSE {[c EXCEPT !.apiKey = Head(c.adminKeys), !.adminKeys = Tail(@)]}
    ELSE {[c EXCEPT !.adminKeys = RemoveAt(@, i)] :
            i \in {j \in DOMAIN c.adminKeys : c.adminKeys[j] = k}}
=============================================================================
