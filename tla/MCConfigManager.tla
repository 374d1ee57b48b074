---------------------------- MODULE MCConfigManager ----------------------------
(* Three keys: a required one, a switch, and a key that the switch needs.   *)
(* The first release does not know the last of them.                        *)
EXTENDS ConfigManager

MCKey == {"port", "enabled", "host"}
MCValue == {"", "on", "off", "a", "b", "bad"}
MCValid == [k \in MCKey |-> CASE k = "port" -> {"a", "b"}
                              [] k = "enabled" -> {"on", "off"}
                              [] k = "host" -> {"", "a"}]
MCDefault == [k \in {"enabled", "host"} |-> IF k = "enabled" THEN "off" ELSE ""]
MCRequired == {"port"}
MCNeeds == {"host"}
MCKeysOf == [c \in Client |-> {"enabled", "host"}]
MCUpdates ==
  {[k \in {"port"} |-> "bad"], [k \in {"enabled"} |-> "on"],
   [k \in {"port", "enabled"} |-> IF k = "port" THEN "b" ELSE "off"],
   [k \in {"port", "enabled", "host"} |-> IF k = "enabled" THEN "on" ELSE "a"]}
TwoReleases == {MCKey, MCKey \ {"host"}}
=============================================================================
