---------------------------- MODULE PlayerConfigs ----------------------------
(***************************************************************************)
(* The player config records of v2 rounds (game/player_config.rs): keyed   *)
(* by round, tier and commitment hash, written once, private until the     *)
(* seed of their round is revealed.  Spawn and allocation are one value,   *)
(* the outcome of the game; a hash is the number that orders it among the  *)
(* others, since listings are in key order.                                *)
(***************************************************************************)
EXTENDS JoinData, KeyOrder, SequencesExt

CONSTANTS
    Hashes,  \* player_config_hash values, by byte order
    Presets, \* tp_preset values a caller may send
    MAX_PLAYER_CONFIGS_LIST \* records a listing returns at most (100)

(* A hash has 32 bytes. *)
ASSUME HashAssumption == Hashes \subseteq Nat /\ IsFiniteSet(Hashes)

(* A preset arrives as a u16. *)
ASSUME PresetAssumption == Presets \subseteq Nat

(* The limit is a usize. *)
ASSUME LimitAssumption == MAX_PLAYER_CONFIGS_LIST \in Nat

VARIABLE player_configs \* PLAYER_CONFIGS

MAX_TP_PRESET == 4

ConfigKeys == RoundIds \X Tiers \X Hashes

PlayerConfigRecord == [hash : Hashes, player : Players,
                       tp_preset : 0 .. MAX_TP_PRESET, outcome : Outcomes,
                       created_at : 0 .. MaxTime]

PlayerConfigsTypeOK ==
    player_configs \in [ConfigKeys -> PlayerConfigRecord \cup {None}]

PlayerConfigsInit == player_configs = [k \in ConfigKeys |-> None]

player_config_key(r, t, h) == <<r, t, h>>

get_player_config(r, t, h) == player_configs[player_config_key(r, t, h)]

\* Faulty variants: a second submission replaces the first; any preset is
\* taken.
Overwrite_player_config(r, t, h, p, preset, outcome, time) ==
    /\ preset <= MAX_TP_PRESET
    /\ player_configs' = [player_configs EXCEPT
           ![player_config_key(r, t, h)] =
               [hash |-> h, player |-> p, tp_preset |-> preset,
                outcome |-> outcome, created_at |-> time]]
Any_preset(r, t, h, p, preset, outcome, time) ==
    /\ get_player_config(r, t, h) = None
    /\ player_configs' = [player_configs EXCEPT
           ![player_config_key(r, t, h)] =
               [hash |-> h, player |-> p, tp_preset |-> preset,
                outcome |-> outcome, created_at |-> time]]

\* The first record under a key stays: a second one is refused.
set_player_config(r, t, h, p, preset, outcome, time) ==
    /\ preset <= MAX_TP_PRESET
    /\ get_player_config(r, t, h) = None
    /\ player_configs' = [player_configs EXCEPT
           ![player_config_key(r, t, h)] =
               [hash |-> h, player |-> p, tp_preset |-> preset,
                outcome |-> outcome, created_at |-> time]]

-----------------------------------------------------------------------------
(* Listings *)

player_config_prefix(k) == <<k[1], k[2]>>

\* The records of a round in key order: under one prefix, that of the hashes.
list_player_configs_internal(r, t) ==
    LET keys == {k \in ConfigKeys : /\ player_configs[k] # None
                                    /\ player_config_prefix(k) = <<r, t>>}
        sorted == in_key_order(keys, [k \in keys |-> k[3]])
    IN [i \in DOMAIN sorted |-> player_configs[sorted[i]]]

\* The entry points return no more than the limit, lowest hashes first.
list_player_configs(r, t) ==
    LET all == list_player_configs_internal(r, t)
    IN IF Len(all) > MAX_PLAYER_CONFIGS_LIST
       THEN SubSeq(all, 1, MAX_PLAYER_CONFIGS_LIST)
       ELSE all

is_revealed(t, r) == revealed_seeds[t][r] # None

\* The public listing: an error, here None, before the revelation.
list_player_configs_if_revealed(r, t) ==
    IF is_revealed(t, r) THEN list_player_configs(r, t) ELSE None

=============================================================================
