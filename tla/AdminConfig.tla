---------------------------- MODULE AdminConfig -----------------------------
(***************************************************************************)
(* The handlers of internal/api/server.go that edit the configuration, the *)
(* start and the SIGHUP reload of internal/app/app.go, and the two ways in *)
(* which they build the registry of the routing engine:                    *)
(* BuildRegistryFromConfig (factory.go) after an edit, from the            *)
(* configuration alone, BuildHydratedRegistry (hydration.go) at start and  *)
(* reload, from the configuration and the connections in the database.     *)
(*                                                                         *)
(* How one edit reaches memory, file and engine, and what happens when a   *)
(* step of that fails, is module ConfigStore; here an edit is one step.    *)
(* The requests that read the configuration before they edit it are two.   *)
(***************************************************************************)
EXTENDS RuntimeEdits

CONSTANTS
    Planned,       \* the types whose catalog entry is planned or disabled
    FactoryTypes,  \* the types BuildRegistryFromConfig makes an adapter of
    HydratedTypes, \* the types BuildHydratedRegistry makes an adapter of
    Conns,         \* ids of provider connections
    Admins,        \* goroutines that serve requests of two steps
    Offered,       \* bound: the provider payloads that are posted
    Files,         \* bound: the configurations imported, or put in the file
    Areas          \* bound: the parts of the configuration that are edited

ConfigFields == {"complete", "providers", "routes", "aliases", "models",
                 "settings", "apiKey", "adminKeys"}

IsConfiguration(c) ==
    /\ c = [f \in ConfigFields |-> c[f]]
    /\ c.complete \in BOOLEAN
    /\ IsMap(c.providers, Names, Provider)
    /\ IsMap(c.routes, RouteNames, Seq(Names))
    /\ IsMap(c.aliases, AliasNames, Names)
    /\ IsMap(c.models, ModelNames, Names)
    /\ c.settings \in Settings
    /\ c.apiKey \in Keys \cup {NoKey}
    /\ c.adminKeys \in Seq(Keys)

(* There is a key to start with: the program does not start without one.   *)
ASSUME AdminAssumption ==
    /\ \A c \in Files : IsConfiguration(c)
    /\ Offered \subseteq Provider
    /\ Keys # {} /\ NoKey \notin Keys

VARIABLES
    config,   \* RuntimeConfig in memory
    file,     \* the configuration file
    engine,   \* what the engine was given: routes, aliases, registry, proxy
    active,   \* active connections in the database
    request,  \* what each handler has read
    area      \* the parts edited in this behaviour

adminVars == <<config, file, engine, active, request, area>>

Resting == [op |-> "none", key |-> NoKey, to |-> NoKey,
            settings |-> [f \in Fields |-> FALSE]]

RegistryNames == Names \cup Conns

AdminTypeOK ==
    /\ IsConfiguration(config) /\ IsConfiguration(file)
    /\ engine.registry \subseteq RegistryNames
    /\ engine.proxy \in BOOLEAN
    /\ active \subseteq Conns
    /\ request \in [Admins -> [op : {"none", "key", "delete", "settings"},
                               key : Keys \cup {NoKey}, to : Keys \cup {NoKey},
                               settings : Settings]]

-----------------------------------------------------------------------------
(* The registries. *)

EnabledProviders(c) == {n \in DOMAIN c.providers : c.providers[n].enabled}

(* One provider that cannot be used fails the whole update. *)
Buildable(c) ==
    \A n \in EnabledProviders(c) : c.providers[n].type \in FactoryTypes \ Planned

Given(c, registry) ==
    [routes |-> c.routes, aliases |-> c.aliases, registry |-> registry,
     proxy |-> c.settings["proxy"]]

BuildRegistryFromConfig(c) == EnabledProviders(c)

(* At start such providers are skipped; connections are called db-<id>.    *)
BuildHydratedRegistry(c) ==
    {n \in EnabledProviders(c) : c.providers[n].type \in HydratedTypes \ Planned}
      \cup active

Hydrate(c) == engine' = Given(c, BuildHydratedRegistry(c))

-----------------------------------------------------------------------------
(* The methods of RuntimeConfig that handlers use, given the outcome of    *)
(* the closure.  An error changes nothing.                                 *)

reconfigureFromConfig(c) ==
    /\ Buildable(c)
    /\ engine' = Given(c, BuildRegistryFromConfig(c))

UpdateWithReconfigure(c) ==
    /\ validate(c)
    /\ reconfigureFromConfig(c)
    /\ config' = c /\ file' = c

TransactionalUpdate(c) ==
    /\ validate(c)
    /\ config' = c /\ file' = c
    /\ UNCHANGED engine

UpdateAndPersist(c) == TransactionalUpdate(c)

(* Update keeps the change in memory. *)
Update(c) == validate(c) /\ config' = c /\ UNCHANGED <<file, engine>>

-----------------------------------------------------------------------------
(* Providers of the file. *)

Edit(c) == UpdateWithReconfigure(c) /\ UNCHANGED <<active, request, area>>

handleProvidersCreateNamed(n, p) == \E c \in AddProvider(config, n, p) : Edit(c)

(* A payload without credentials keeps those of the entry. *)
KeepSecret(old, p) ==
    IF old \in DOMAIN config.providers /\ ~p.secret
    THEN [p EXCEPT !.secret = config.providers[old].secret] ELSE p

handleProvidersUpdateNamed(old, n, p) ==
    \E c \in UpdateProvider(config, old, n, KeepSecret(old, p)) : Edit(c)

handleProvidersDeleteNamed(n) == \E c \in DeleteProvider(config, n) : Edit(c)

-----------------------------------------------------------------------------
(* Combos (routes), model aliases, custom models and settings. *)

handleCombosCreate(r, t) == \E c \in AddRoute(config, r, t) : Edit(c)
handleCombosUpdate(r, t) == \E c \in UpdateRoute(config, r, t) : Edit(c)
handleCombosDelete(r) == \E c \in DeleteRoute(config, r) : Edit(c)

handleModelAliasesCreate(a, n) == \E c \in AddModelAlias(config, a, n) : Edit(c)
handleModelAliasesUpdate(a, n) == \E c \in UpdateModelAlias(config, a, n) : Edit(c)
handleModelAliasesDelete(a) == \E c \in DeleteModelAlias(config, a) : Edit(c)

PutAlias(a, n) == [config EXCEPT !.aliases = Put(@, a, n)]

handleModelAliasesPut(a, n) == Edit(PutAlias(a, n))

(* The dashboard's own page saves an alias without telling the engine.     *)
handleDashboardModelAliasPut(a, n) ==
    UpdateAndPersist(PutAlias(a, n)) /\ UNCHANGED <<active, request, area>>

handleModelsCustomCreate(m, n) == \E c \in AddCustomModel(config, m, n) : Edit(c)
handleModelsCustomUpdate(m, n) == \E c \in UpdateCustomModel(config, m, n) : Edit(c)
handleModelsCustomDelete(m) == \E c \in DeleteCustomModel(config, m) : Edit(c)

handleSettingsPut(s) == \E c \in UpdateSettings(config, s) : Edit(c)

handleLocaleSet(on) ==
    /\ UpdateAndPersist([config EXCEPT !.settings["locale"] = on])
    /\ UNCHANGED <<active, request, area>>

(* PATCH: the current settings are read, and the patched ones written back *)
(* whole by an update of its own.                                          *)
handleSettingsPatch(h, field, on) ==
    /\ request[h].op = "none"
    /\ request' = [request EXCEPT ![h].op = "settings",
                     ![h].settings = [config.settings EXCEPT ![field] = on]]
    /\ UNCHANGED <<config, file, engine, active, area>>

WriteSettings(h) ==
    /\ request[h].op = "settings"
    /\ request' = [request EXCEPT ![h] = Resting]
    /\ \E c \in UpdateSettings(config, request[h].settings) :
         IF validate(c) /\ Buildable(c) THEN UpdateWithReconfigure(c)
         ELSE UNCHANGED <<config, file, engine>>
    /\ UNCHANGED <<active, area>>

-----------------------------------------------------------------------------
(* Admin keys: the index in the URL is looked up in one reading of the     *)
(* list, the key found there is looked for again in the update.            *)

handleKeysCreate(k) ==
    /\ \E c \in AddAdminAPIKey(config, k) : TransactionalUpdate(c)
    /\ UNCHANGED <<active, request, area>>

ReadKey(h, op, i, to) ==
    /\ request[h].op = "none"
    /\ i \in DOMAIN ListAdminAPIKeys(config)
    /\ request' = [request EXCEPT ![h].op = op, ![h].to = to,
                                  ![h].key = ListAdminAPIKeys(config)[i]]
    /\ UNCHANGED <<config, file, engine, active, area>>

handleKeysUpdate(h, i, to) == ReadKey(h, "key", i, to)
handleKeysDelete(h, i) == ReadKey(h, "delete", i, NoKey)

DeleteFirstKey(h) == \* mutant: the key at the index, whichever it is by then
    IF request[h].op = "key"
    THEN UpdateAdminAPIKey(config, request[h].key, request[h].to)
    ELSE DeleteAdminAPIKey(config, Head(ListAdminAPIKeys(config)))

EditedKeys(h) ==
    IF request[h].op = "key"
    THEN UpdateAdminAPIKey(config, request[h].key, request[h].to)
    ELSE DeleteAdminAPIKey(config, request[h].key)

WriteKeys(h) ==
    /\ request[h].op \in {"key", "delete"}
    /\ request' = [request EXCEPT ![h] = Resting]
    /\ LET valid == {c \in EditedKeys(h) : validate(c)}
       IN  IF valid = {} THEN UNCHANGED <<config, file, engine>>
           ELSE \E c \in valid : TransactionalUpdate(c)
    /\ UNCHANGED <<active, area>>

-----------------------------------------------------------------------------
(* The whole configuration; the database; start and reload. *)

(* What is posted replaces memory, without defaults being filled in.       *)
handleConfigImport(c) == Update(c) /\ UNCHANGED <<active, request, area>>

CreateConnection(i) ==
    /\ i \notin active /\ active' = active \cup {i}
    /\ UNCHANGED <<config, file, engine, request, area>>

DeleteConnection(i) ==
    /\ i \in active /\ active' = active \ {i}
    /\ UNCHANGED <<config, file, engine, request, area>>

EditFile(c) == file' = c /\ UNCHANGED <<config, engine, active, request, area>>

(* SIGHUP: a file that is refused changes nothing. *)
Reload ==
    /\ validate(applyDefaults(file))
    /\ config' = applyDefaults(file)
    /\ Hydrate(config')
    /\ UNCHANGED <<file, active, request, area>>

(* The program ends and is started again; requests under way are lost.     *)
RunWithReload ==
    /\ validate(applyDefaults(file))
    /\ config' = applyDefaults(file)
    /\ Hydrate(config')
    /\ request' = [h \in Admins |-> Resting]
    /\ UNCHANGED <<file, active, area>>

AdminInit ==
    /\ config = [complete |-> TRUE,
                 providers |-> [n \in {} |-> {}], routes |-> [r \in {} |-> <<>>],
                 aliases |-> [a \in {} |-> ""], models |-> [m \in {} |-> ""],
                 settings |-> [f \in Fields |-> FALSE],
                 apiKey |-> CHOOSE k \in Keys : TRUE, adminKeys |-> <<>>]
    /\ file = config
    /\ active = {}
    /\ engine = Given(config, {})
    /\ request = [h \in Admins |-> Resting]
    /\ area \in Areas

Routes(t) == {<<n>> : n \in t} \cup {<<m, n>> : m, n \in t}

ProviderRequests ==
    \E n \in Names :
      \/ \E p \in Offered : handleProvidersCreateNamed(n, p)
      \/ \E old \in Names, p \in Offered : handleProvidersUpdateNamed(old, n, p)
      \/ handleProvidersDeleteNamed(n)

ComboRequests ==
    \E r \in RouteNames :
      \/ \E t \in Routes(Names) : handleCombosCreate(r, t)
      \/ \E t \in Routes(Names) : handleCombosUpdate(r, t)
      \/ handleCombosDelete(r)

ModelRequests ==
    \/ \E a \in AliasNames, n \in Names :
         \/ handleModelAliasesCreate(a, n) \/ handleModelAliasesUpdate(a, n)
         \/ handleModelAliasesPut(a, n) \/ handleDashboardModelAliasPut(a, n)
    \/ \E a \in AliasNames : handleModelAliasesDelete(a)
    \/ \E m \in ModelNames, n \in Names :
         handleModelsCustomCreate(m, n) \/ handleModelsCustomUpdate(m, n)
    \/ \E m \in ModelNames : handleModelsCustomDelete(m)

SettingsRequests ==
    \/ \E s \in Settings : handleSettingsPut(s)
    \/ \E on \in BOOLEAN : handleLocaleSet(on)
    \/ \E h \in Admins, f \in Fields, on \in BOOLEAN : handleSettingsPatch(h, f, on)
    \/ \E h \in Admins : WriteSettings(h)

KeyRequests ==
    \/ \E k \in Keys : handleKeysCreate(k)
    \/ \E h \in Admins, i \in 1..(Len(config.adminKeys) + 1) :
         \/ \E k \in Keys : handleKeysUpdate(h, i, k)
         \/ handleKeysDelete(h, i)
    \/ \E h \in Admins : WriteKeys(h)

ConnectionRequests ==
    \E i \in Conns : CreateConnection(i) \/ DeleteConnection(i)

Elsewhere ==
    \/ \E c \in Files : handleConfigImport(c) \/ EditFile(c)
    \/ Reload \/ RunWithReload

AdminNext ==
    \/ "providers" \in area /\ ProviderRequests
    \/ "combos" \in area /\ ComboRequests
    \/ "models" \in area /\ ModelRequests
    \/ "settings" \in area /\ SettingsRequests
    \/ "keys" \in area /\ KeyRequests
    \/ "connections" \in area /\ ConnectionRequests
    \/ "elsewhere" \in area /\ Elsewhere

AdminSpec == AdminInit /\ [][AdminNext]_adminVars

-----------------------------------------------------------------------------
(* Hazard: the list of admin keys changes between the reading that turns   *)
(* an index into a key and the update.  A request that deletes or replaces *)
(* a key takes away the key it read, or nothing, and no other request      *)
(* takes a key away; only an import, a reload or a restart replaces all.   *)
KeysOf(c) == ToSet(ListAdminAPIKeys(c))

KeyActsOnWhatWasRead ==
    [][KeysOf(config) # KeysOf(config') /\ file' # file =>
         \A k \in KeysOf(config) \ KeysOf(config') :
           \E h \in Admins :
             /\ request[h].op \in {"key", "delete"} /\ request[h].key = k
             /\ request'[h] = Resting]_adminVars

(* Whatever order entries are created, renamed, disabled and deleted in,   *)
(* by handlers, imports and reloads, the configuration the program runs    *)
(* with names only providers it has, and an admin can log in.              *)
ReferencesResolve ==
    /\ \A r \in DOMAIN config.routes :
         ToSet(config.routes[r]) \subseteq DOMAIN config.providers
    /\ \A a \in DOMAIN config.aliases : config.aliases[a] \in DOMAIN config.providers
    /\ \A m \in DOMAIN config.models : config.models[m] \in DOMAIN config.providers
    /\ KeysOf(config) # {}

(* "Once providers are enabled, inference requests work immediately": a    *)
(* provider that is enabled in the configuration is one the engine has.    *)
EnabledIsServed == EnabledProviders(config) \subseteq engine.registry
=============================================================================
