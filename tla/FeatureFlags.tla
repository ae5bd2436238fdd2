---------------------------- MODULE FeatureFlags ----------------------------
(***************************************************************************)
(* Feature flags (infrastructure/feature_flags/manager.py).  Every method  *)
(* is one section under the lock.  A rule is reduced to the users it names *)
(* and its rollout percentage, in buckets.                                 *)
(***************************************************************************)
EXTENDS Integers

CONSTANTS
  Required,  \* _SAFETY_FLAGS: the value each safety flag must have
  Flags,     \* all names, the safety flags among them
  Users,
  Bucket,    \* _bucket: a number in 0..99 for each flag and user
  Percentages

ASSUME FlagAssumption ==
  /\ DOMAIN Required \subseteq Flags
  /\ \A f \in DOMAIN Required : Required[f] \in BOOLEAN
  /\ Bucket \in [Flags -> [Users -> 0..99]]
  /\ Percentages \subseteq 0..100

VARIABLES
  flags,    \* _flags: the registered ones
  rollout   \* history: who is served by the flag's rules since their last change

flagVars == <<flags, rollout>>

Rules == [users : SUBSET Users, percentage : Percentages]
Flag == [enabled : BOOLEAN, default : BOOLEAN, rules : SUBSET Rules, immutable : BOOLEAN]
NoFlag == [enabled |-> FALSE, default |-> FALSE, rules |-> {}, immutable |-> FALSE]

(* One rule at most, which is enough for every verdict of evaluate.        *)
SmallFlags == [enabled : BOOLEAN, default : BOOLEAN, immutable : BOOLEAN,
               rules : {{}} \cup {{r} : r \in Rules}]

FlagInit ==
  /\ flags = [f \in {} |-> NoFlag]
  /\ rollout = [f \in Flags |-> {}]

FlagTypeOK ==
  /\ DOMAIN flags \subseteq Flags
  /\ \A f \in DOMAIN flags : flags[f] \in Flag
  /\ rollout \in [Flags -> SUBSET Users]

(* _matches: no users named means every user; the percentage takes the     *)
(* buckets below it.                                                       *)
Matches(rule, f, u) ==
  /\ rule.users = {} \/ u \in rule.users
  /\ Bucket[f][u] < rule.percentage

Evaluate(f, u) ==
  /\ flags[f].enabled
  /\ (\E rule \in flags[f].rules : Matches(rule, f, u)) \/ flags[f].default

ValidSafetyFlag(f, flag) ==
  f \in DOMAIN Required =>
    /\ flag.immutable /\ flag.rules = {}
    /\ flag.enabled = Required[f] /\ flag.default = Required[f]

Served(f, flag) == {u \in Users : \E rule \in flag.rules : Matches(rule, f, u)}

PutFlag(f, flag) ==
  /\ flags' = [g \in DOMAIN flags \cup {f} |-> IF g = f THEN flag ELSE flags[g]]
  /\ rollout' = [rollout EXCEPT ![f] = Served(f, flag)]

RegisterFlag(f, flag, replace) ==
  /\ ValidSafetyFlag(f, flag)
  /\ f \in DOMAIN flags => replace /\ ~flags[f].immutable
  /\ PutFlag(f, flag)

SetState(f, enabled) ==
  /\ f \in DOMAIN flags /\ ~flags[f].immutable
  /\ PutFlag(f, [flags[f] EXCEPT !.enabled = enabled])

UpdateRules(f, rules) ==
  /\ f \in DOMAIN flags /\ ~flags[f].immutable
  /\ PutFlag(f, [flags[f] EXCEPT !.rules = rules])

FlagNext ==
  \E f \in Flags :
    \/ \E flag \in SmallFlags, replace \in BOOLEAN : RegisterFlag(f, flag, replace)
    \/ \E enabled \in BOOLEAN : SetState(f, enabled)
    \/ \E rules \in {{}} \cup {{r} : r \in Rules} : UpdateRules(f, rules)

(* A registered safety flag evaluates to its required value for every      *)
(* user, whatever was registered, replaced, switched or rolled out before  *)
(* (_validate_safety_flag, register, set_state, update_rules).             *)
SafetyFlagsHold ==
  \A f \in DOMAIN flags \cap DOMAIN Required, u \in Users :
    Evaluate(f, u) = Required[f]

(* Raising the percentage of a rollout takes no user out of it: a user's   *)
(* bucket depends on the flag and the user alone (_bucket, _matches).      *)
RolloutsGrow ==
  [][\A f \in DOMAIN flags :
       \A old \in flags[f].rules, new \in flags'[f].rules :
         old.users = new.users /\ old.percentage <= new.percentage
           => rollout[f] \subseteq rollout'[f]]_flagVars
=============================================================================
