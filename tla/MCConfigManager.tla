-------------------------- MODULE MCConfigManager ---------------------------
(* Instances of ConfigManager for TLC: the local sources of a few users, and *)
(* the answers of a collector that gates, sets and leaves out settings.      *)
EXTENDS ConfigManager

CONSTANTS few, many

Defaults == [None EXCEPT ![Enabled] = "on", ![Limit] = many, ![Method] = "auto"]
Local(above, manual) ==
  [l \in Layers |-> CASE l = "environment" -> above [] l = "manual" -> manual
                      [] l = "default" -> Defaults [] OTHER -> None]

\* A setting of the environment's, which the collector's does not override, or
\* one of the manual source's, which it does.
MCConfigurations ==
  {Local([None EXCEPT ![Limit] = few], [None EXCEPT ![Enabled] = "off"]),
   Local(None, [None EXCEPT ![Limit] = few])}

Answer(gate, enabled, limit) == [gate |-> gate, enabled |-> enabled, limit |-> limit]
MCReplies == {Answer("on", Absent, few), Answer("off", Absent, many),
              Answer("on", "on", many), Answer(Absent, Absent, Absent)}
=============================================================================
