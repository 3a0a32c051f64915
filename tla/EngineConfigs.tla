---------------------------- MODULE EngineConfigs ----------------------------
(***************************************************************************)
(* The versioned engine configurations of the canister and the version     *)
(* currently in force (game/engine_config.rs, the accessors in state.rs    *)
(* and the entry points of lib.rs).  A version string is a model value, as *)
(* is the JSON text stored under it.                                       *)
(***************************************************************************)
EXTENDS Integers

CONSTANTS
    Versions,        \* well-formed version strings (1 to 16 bytes)
    Jsons,           \* config texts within the size limit
    DEFAULT_VERSION, \* what CURRENT_CONFIG_VERSION starts as ("1.2.2")
    None             \* an absent map entry

(* The default is a version like any other. *)
ASSUME VersionAssumption == DEFAULT_VERSION \in Versions /\ None \notin Jsons

VARIABLES
    engine_configs,        \* ENGINE_CONFIGS: version -> JSON
    current_config_version \* CURRENT_CONFIG_VERSION

configVars == <<engine_configs, current_config_version>>

ConfigTypeOK ==
    /\ engine_configs \in [Versions -> Jsons \cup {None}]
    /\ current_config_version \in Versions

ConfigInit ==
    /\ engine_configs = [v \in Versions |-> None]
    /\ current_config_version = DEFAULT_VERSION

ConfigExists(v) == engine_configs[v] # None

add_engine_config(v, json) ==
    /\ ~ConfigExists(v)
    /\ engine_configs' = [engine_configs EXCEPT ![v] = json]
    /\ UNCHANGED current_config_version

update_engine_config(v, json) ==
    /\ ConfigExists(v)
    /\ engine_configs' = [engine_configs EXCEPT ![v] = json]
    /\ UNCHANGED current_config_version

\* Faulty variant: the version is not looked up first.
Set_any_version(v) ==
    /\ current_config_version' = v
    /\ UNCHANGED engine_configs

set_current_config_version(v) ==
    /\ ConfigExists(v)
    /\ current_config_version' = v
    /\ UNCHANGED engine_configs

\* The deployment script adds a config, or updates it if it exists already
\* or if told to.
push_config(v, json) == add_engine_config(v, json) \/ update_engine_config(v, json)

PublishConfig ==
    \E v \in Versions :
        \/ \E json \in Jsons : push_config(v, json)
        \/ set_current_config_version(v)

=============================================================================
