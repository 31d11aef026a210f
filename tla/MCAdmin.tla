------------------------------ MODULE MCAdmin -------------------------------
(* The parts of the router that keep accounts, the configuration and files *)
(* of the machine it runs on, checked in one run: the accounts' health and *)
(* credentials, the configuration's editors, the interception helper, the  *)
(* tools' settings and the updater.  They share no state, so a behaviour   *)
(* is one of one part, and the others stay as they are at first.           *)
EXTENDS ProviderHealth, OAuthFlows, AdminConfig, Mitm, CLITools, SelfUpdate, TLC

VARIABLE part

(* Values for the credentials, ... *)
MCProviders == {"codex", "qwen", "github", "codebuddy", "iflow", "kiro", "cursor",
                "kilocode", "gitlab", "grok-web"}
MCOffers == {{p} : p \in MCProviders} \cup {{"n1", "p1"}}
MCPatches == {[provider |-> "", access |-> "empty", refresh |-> "absent",
               clear |-> TRUE, pool |-> "none"]}
(* All pairs are swapped at once, or none: more permutations cost more      *)
(* than they save.                                                         *)
Pairs == {Handlers, ToolModels, Providers, Models}
Symmetry ==
    {p \in Permutations(UNION Pairs) :
        \/ \A v \in UNION Pairs : p[v] = v
        \/ \A pair \in Pairs : \A v \in pair : p[v] \in pair \ {v}}

(* ... and for the configuration.  *)
Entry(type, enabled, secret) ==
    [type |-> type, enabled |-> enabled, url |-> FALSE, secret |-> secret]

MCOffered ==
    {Entry("openai", TRUE, TRUE), Entry("openai", FALSE, FALSE), Entry("openai", TRUE, FALSE),
     Entry("opencode-go", TRUE, TRUE), Entry("planned", TRUE, TRUE), Entry("unknown", FALSE, TRUE)}

Base == [complete |-> TRUE, providers |-> [n \in {} |-> {}],
         routes |-> [r \in {} |-> <<>>], aliases |-> [a \in {} |-> ""],
         models |-> [m \in {} |-> ""], settings |-> [f \in Fields |-> FALSE],
         apiKey |-> NoKey, adminKeys |-> <<"k1">>]

MCFiles ==
    {Base, [Base EXCEPT !.complete = FALSE],
     [Base EXCEPT !.providers = [n \in {"p1"} |-> Entry("planned", TRUE, TRUE)],
                  !.aliases = [a \in {"a"} |-> "p1"]],
     [Base EXCEPT !.aliases = [a \in {"a"} |-> "p2"]]}

MCAreas == {{"providers", "models", "combos"}, {"providers", "models", "elsewhere"},
            {"providers", "connections", "elsewhere"},
            {"settings", "elsewhere"}, {"keys", "elsewhere"}}
-----------------------------------------------------------------------------

Parts == {"health", "credentials", "config", "mitm", "tools", "update"}

managedVars == <<healthVars, credVars, adminVars, mitmVars, toolVars, updateVars, part>>

ManagedInit ==
    /\ part \in Parts
    /\ HealthInit /\ CredInit /\ AdminInit /\ MitmInit /\ ToolInit /\ UpdateInit
    /\ part = "credentials" \/ offered = CHOOSE o \in Offers : TRUE
    /\ part = "config" \/ area = CHOOSE a \in Areas : TRUE
    /\ part = "tools" \/ tool = CHOOSE t \in ToolNames : TRUE

ManagedNext ==
    /\ \/ /\ part = "health" /\ HealthNext
          /\ UNCHANGED <<credVars, adminVars, mitmVars, toolVars, updateVars>>
       \/ /\ part = "credentials" /\ CredNext
          /\ UNCHANGED <<healthVars, adminVars, mitmVars, toolVars, updateVars>>
       \/ /\ part = "config" /\ AdminNext
          /\ UNCHANGED <<healthVars, credVars, mitmVars, toolVars, updateVars>>
       \/ /\ part = "mitm" /\ MitmNext
          /\ UNCHANGED <<healthVars, credVars, adminVars, toolVars, updateVars>>
       \/ /\ part = "tools" /\ ToolNext
          /\ UNCHANGED <<healthVars, credVars, adminVars, mitmVars, updateVars>>
       \/ /\ part = "update" /\ UpdateNext
          /\ UNCHANGED <<healthVars, credVars, adminVars, mitmVars, toolVars>>
    /\ UNCHANGED part

ManagedSpec == ManagedInit /\ [][ManagedNext]_managedVars

ManagedTypeOK ==
    /\ HealthTypeOK /\ CredTypeOK /\ AdminTypeOK
    /\ MitmTypeOK /\ ToolTypeOK /\ UpdateTypeOK
=============================================================================
