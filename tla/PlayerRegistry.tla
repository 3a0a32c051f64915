--------------------------- MODULE PlayerRegistry ---------------------------
(***************************************************************************)
(* The registry of players (game/players.rs, and the limits of lib.rs).  A *)
(* public key is the number that orders it among the others; keys of       *)
(* another length are whatever is not in Players.                          *)
(***************************************************************************)
EXTENDS Paging, KeyOrder, SequencesExt

CONSTANTS
    Players,          \* 32-byte public keys, by byte order
    MAX_PLAYERS_BATCH \* keys of a call at most (200)

(* Keys of 32 bytes, by the number they spell. *)
ASSUME PlayersAssumption == Players \subseteq Nat /\ IsFiniteSet(Players)

VARIABLE registered_players \* PLAYERS

RegistryInit == registered_players = {}

\* All keys of a batch are valid and are added, or none is.
add_players(pubkeys) ==
    /\ Cardinality(pubkeys) <= MAX_PLAYERS_BATCH
    /\ pubkeys \subseteq Players
    /\ registered_players' = registered_players \cup pubkeys

player_exists(p) == p \in registered_players

get_players(offset, limit) ==
    [total |-> Cardinality(registered_players),
     players |-> page(in_key_order(registered_players, [p \in registered_players |-> p]),
                     offset, limit)]

=============================================================================
