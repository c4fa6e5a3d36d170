------------------------------- MODULE Policy -------------------------------
(***************************************************************************)
(* The policy engine (internal/core/policy/policy.go): may a principal     *)
(* perform a verb on a resource?  A principal is [id, tenant, roles,       *)
(* groups], a resource [type, id, tenant, tags, owners], a rule [tenant,   *)
(* type, resource, effect, verbs, conds] and a condition [type, value].    *)
(***************************************************************************)
EXTENDS Integers, FiniteSets

Blank == 0  \* an empty id, where ids are positive numbers

Verbs == {"read", "edit", "propose", "certify", "delete", "run", "admin", "purge", "platform"}

\* The verbs of one role.
RoleVerbs(role) ==
    CASE role = "platform_admin" -> {"platform", "read"}
      [] role = "super_admin"    -> Verbs \ {"platform"}
      [] role = "admin"          -> Verbs \ {"purge", "platform"}
      [] role = "steward"        -> {"read", "edit", "propose", "certify", "run"}
      [] role = "editor"         -> {"read", "edit", "propose", "run"}
      [] role = "viewer"         -> {"read"}
      [] OTHER                   -> {}

RoleAllows(p, verb) == \E role \in p.roles : verb \in RoleVerbs(role)

ConditionMatch(c, p, r) ==
    \/ c.type = "principal.role" /\ c.value \in p.roles
    \/ c.type = "principal.group" /\ c.value \in p.groups
    \/ c.type = "resource.tag" /\ c.value \in r.tags
    \/ c.type = "resource.owner" /\ c.value = "self" /\ p.id \in r.owners

\* A rule without conditions applies to everyone.
Applies(rule, p, verb, r) ==
    /\ verb \in rule.verbs
    /\ \A c \in rule.conds : ConditionMatch(c, p, r)

\* "deny", "allow" or "unmatched".  The loop stops at the first deny, and an
\* allow before it does not count, so the order of the rules is immaterial.
EvaluateRules(rules, p, verb, r) ==
    LET matching == {rule \in rules : Applies(rule, p, verb, r)}
    IN  IF \E rule \in matching : rule.effect = "deny" THEN "deny"
        ELSE IF matching # {} THEN "allow" ELSE "unmatched"

\* MemoryRuleStore ignores the type and the id of the resource ...
RulesForResourceMemory(table, r) == {rule \in table : rule.tenant \in {Blank, r.tenant}}

\* ... PolicyStore selects by them, and has no rules of every tenant.
RulesForResourcePostgres(table, r) ==
    {rule \in table : /\ rule.tenant = r.tenant
                      /\ rule.type \in {"", r.type}
                      /\ rule.resource \in {Blank, r.id}}

\* rules are those the store found; a store that fails counts as one with no
\* rules, so that its denials are not applied.
Allow(p, verb, r, rules) ==
    /\ p.id # Blank
    /\ p.tenant # Blank
    /\ r.tenant \in {Blank, p.tenant}
    /\ IF RoleAllows(p, verb)
       THEN EvaluateRules(rules, p, verb, r) # "deny"
       ELSE EvaluateRules(rules, p, verb, r) = "allow"
=============================================================================
