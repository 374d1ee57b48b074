---------------------------- MODULE ConfigRegistry ----------------------------
(* ConfigRegistry: which configuration there is, and what may be in it.     *)
(* Required keys have no default; a switch that is on needs further keys.   *)
EXTENDS Functions, FiniteSets

CONSTANTS
  Key, Value,
  Valid,     \* Valid[k]: what validate_value accepts for k
  Default,   \* the factory values, of the keys that have one
  Required,  \* keys that must be set before the device is used
  Switch, On, Needs  \* the switch, its position, and the keys it then needs

Unset == ""  \* the empty text

ASSUME RegistryAssumption ==
  /\ Unset \in Value /\ On \in Value
  /\ Valid \in [Key -> SUBSET Value]
  /\ Required \cup {Switch} \cup Needs \subseteq Key
  /\ Default \in [Key \ Required -> Value]
  /\ \A k \in DOMAIN Default : Default[k] \in Valid[k]
  /\ \A k \in Required : Unset \notin Valid[k]

\* A configuration gives some keys a value.
Configurations == UNION {[K -> Value] : K \in SUBSET Key}
Nothing == [k \in {} |-> Unset]

\* is_missing.
IsMissing(values, k) == k \notin DOMAIN values \/ values[k] = Unset

\* missing_required, for a release that knows some of the keys.
MissingRequired(values, known) ==
  {k \in Required \cap known : IsMissing(values, k)} \cup
  {k \in Needs \cap known : /\ Switch \in DOMAIN values /\ values[Switch] = On
                            /\ IsMissing(values, k)}

\* validate_value: a key that the release does not know is not valid.
ValidValue(k, value, known) == k \in known /\ value \in Valid[k]
AllValid(values, known) == \A k \in DOMAIN values : ValidValue(k, values[k], known)

DefaultsOf(known) == Restrict(Default, DOMAIN Default \cap known)
=============================================================================
