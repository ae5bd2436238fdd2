--------------------------- MODULE Configuration ----------------------------
(***************************************************************************)
(* Layered configuration (infrastructure/configuration/manager.py): values *)
(* merge all or nothing, a layer replaces only what came from its own or a *)
(* lower layer, and freeze ends all changes.  apply_runtime_overrides      *)
(* checks under the lock and merges under the lock, but not in between.    *)
(***************************************************************************)
EXTENDS Integers

CONSTANTS
  Settings,     \* flattened keys
  Values,
  Good,         \* the values a registered validator accepts
  Loaders       \* threads inside apply_runtime_overrides

ASSUME ConfigAssumption == Good \subseteq Values /\ "unset" \notin Values

VARIABLES
  setting,      \* _values and _sources
  checks,       \* _validators, _required, _immutable_keys
  frozen,
  override,     \* the values each loader has checked and is about to merge
  highest       \* history: the highest layer that merged each key

configVars == <<setting, checks, frozen, override, highest>>

Layers == 0..3                  \* DEFAULTS, FILE, ENVIRONMENT, RUNTIME
Runtime == 3
NoLayer == -1
Unset == [value |-> "unset", layer |-> NoLayer]
NoCheck == [validated |-> FALSE, required |-> FALSE, immutable |-> FALSE]

(* What one load may bring: a value for each key of a part of the keys.    *)
Loads == UNION {[ks -> Values] : ks \in SUBSET Settings \ {{}}}

ConfigTypeOK ==
  /\ setting \in [Settings -> [value : Values \cup {"unset"}, layer : {NoLayer} \cup Layers]]
  /\ checks \in [Settings -> [validated : BOOLEAN, required : BOOLEAN, immutable : BOOLEAN]]
  /\ frozen \in BOOLEAN
  /\ override \in [Loaders -> Loads \cup {<<>>}]
  /\ highest \in [Settings -> {NoLayer} \cup Layers]

ConfigInit ==
  /\ setting = [s \in Settings |-> Unset]
  /\ checks = [s \in Settings |-> NoCheck]
  /\ frozen = FALSE
  /\ override = [l \in Loaders |-> <<>>]
  /\ highest = [s \in Settings |-> NoLayer]

RegisterValidator(s, required, immutable) ==
  /\ ~frozen
  /\ checks' = [checks EXCEPT ![s] =
       [validated |-> TRUE, required |-> @.required \/ required,
        immutable |-> @.immutable \/ immutable]]
  /\ UNCHANGED <<setting, frozen, override, highest>>

Applicable(values, layer) == {s \in DOMAIN values : layer >= setting[s].layer}

Accepts(s, value) ==
  /\ checks[s].immutable /\ setting[s] # Unset => value = setting[s].value
  /\ checks[s].validated => value \in Good

(* _merge: refused when frozen, and as a whole when one key is refused.    *)
Merges(values, layer) ==
  /\ ~frozen
  /\ \A s \in Applicable(values, layer) : Accepts(s, values[s])

Merge(values, layer) ==
  /\ setting' = [s \in Settings |->
       IF s \in Applicable(values, layer)
       THEN [value |-> values[s], layer |-> layer] ELSE setting[s]]
  /\ highest' = [s \in Settings |->
       IF s \in DOMAIN values /\ layer > highest[s] THEN layer ELSE highest[s]]

(* load_defaults, load_file, load_environment.                             *)
LoadLayer(values, layer) ==
  /\ layer # Runtime /\ Merges(values, layer)
  /\ Merge(values, layer)
  /\ UNCHANGED <<checks, frozen, override>>

OverrideCheck(l, values) ==
  /\ override[l] = <<>> /\ ~frozen
  /\ \A s \in DOMAIN values : ~checks[s].immutable
  /\ override' = [override EXCEPT ![l] = values]
  /\ UNCHANGED <<setting, checks, frozen, highest>>

OverrideMerge(l) ==
  /\ override[l] # <<>>
  /\ override' = [override EXCEPT ![l] = <<>>]
  /\ IF Merges(override[l], Runtime)
     THEN Merge(override[l], Runtime)
     ELSE UNCHANGED <<setting, highest>>
  /\ UNCHANGED <<checks, frozen>>

Sound(s) ==
  IF setting[s] = Unset THEN ~checks[s].required
  ELSE checks[s].validated => setting[s].value \in Good

Freeze ==
  /\ ~frozen /\ \A s \in Settings : Sound(s)
  /\ frozen' = TRUE
  /\ UNCHANGED <<setting, checks, override, highest>>

ConfigNext ==
  \/ \E s \in Settings, required, immutable \in BOOLEAN :
       RegisterValidator(s, required, immutable)
  \/ \E values \in Loads, layer \in Layers : LoadLayer(values, layer)
  \/ \E l \in Loaders : (\E values \in Loads : OverrideCheck(l, values)) \/ OverrideMerge(l)
  \/ Freeze

(* A frozen configuration has every required key and only values their     *)
(* validators accept, although an override that was checked before the     *)
(* freeze merges after it (freeze, _merge).                                *)
FrozenIsSound == frozen => \A s \in Settings : Sound(s)

(* A key's value comes from the highest layer that was ever merged for it: *)
(* a lower layer loaded later does not take it back.                       *)
HighestLayerWins == \A s \in Settings : setting[s].layer = highest[s]

(* A key that is immutable and set keeps its value, also when it became    *)
(* immutable between the check of an override and its merge.               *)
ImmutableKept ==
  [][\A s \in Settings :
       checks[s].immutable /\ setting[s] # Unset
         => setting'[s].value = setting[s].value]_configVars
=============================================================================
