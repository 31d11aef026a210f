---------------------------- MODULE PolicyRules -----------------------------
(***************************************************************************)
(* internal/policy/policy.go: rules are looked at in order, the first that *)
(* matches decides.  A rule names the models its prefix covers, the key it *)
(* is for ("" for any) and whether it asks for a provider: callers give    *)
(* none, so a rule that does never matches.                                *)
(***************************************************************************)
EXTENDS Integers, Sequences

matches(rule, model, key) ==
    /\ model \in rule.models
    /\ ~rule.provider
    /\ rule.key \in {"", key}

(* The index of the rule that decides, 0 without one. *)
Evaluate(rules, model, key) ==
    LET hits == {i \in DOMAIN rules : matches(rules[i], model, key)}
    IN  IF hits = {} THEN 0 ELSE CHOOSE i \in hits : \A j \in hits : i <= j

Denied(rules, model, key) ==
    LET i == Evaluate(rules, model, key) IN i # 0 /\ rules[i].action = "deny"

ApplyToRequest(rules, model, key) ==
    LET i == Evaluate(rules, model, key)
    IN  IF i # 0 /\ rules[i].action = "reroute" THEN rules[i].reroute ELSE model
=============================================================================
