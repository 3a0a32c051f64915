------------------------------ MODULE JoinData ------------------------------
(***************************************************************************)
(* What a player brings into a v1 round (game/join_data.rs): the outcome   *)
(* of the matrix game, kept by player, tier and round, and replaced by a   *)
(* second submission; and the seed that game is played on.  The outcome of *)
(* a game (spawn and rotation) is one value, a position is known by how it *)
(* compares with the unit circle, and skill points keep their width.       *)
(***************************************************************************)
EXTENDS SeedReveal

CONSTANTS
    Players,  \* player public keys
    Outcomes, \* what a game may end with
    U8,       \* number of values of a u8 (256)
    MaxTime   \* bound on the clock

(* A u8 holds something, and the clock has a bound. *)
ASSUME WidthAssumption == U8 \in Nat \ {0} /\ MaxTime \in Nat

VARIABLE player_join_data \* PLAYER_JOIN_DATA

\* f32 coordinates: a NaN compares false with everything.  A rotation that is
\* not finite is refused as a position outside the circle is.
Positions == {"inside", "outside", "NaN"}
Points == 0 .. (U8 - 1)
Allocation == [earned_sp : Points, split_aggro : Points, tether_res : Points,
               orb_power : Points]

PlayerJoinData == [outcome : Outcomes, position : Positions, sp : Allocation,
                   stored_at : 0 .. MaxTime]

JoinKeys == Players \X Tiers \X RoundIds

JoinDataTypeOK ==
    player_join_data \in [JoinKeys -> PlayerJoinData \cup {None}]

JoinDataInit == player_join_data = [k \in JoinKeys |-> None]

-----------------------------------------------------------------------------

\* The code refuses dist_sq > 1.0, which is not the same as asking for
\* dist_sq <= 1.0.
position_accepted(position) == position # "outside"

\* Added up in a u16, which three u8 cannot overflow.
total_alloc(sp) == sp.split_aggro + sp.tether_res + sp.orb_power

store_player_join_data(p, t, r, outcome, position, sp, time) ==
    /\ position_accepted(position)
    /\ total_alloc(sp) <= sp.earned_sp
    /\ player_join_data' = [player_join_data EXCEPT
           ![<<p, t, r>>] = [outcome |-> outcome, position |-> position,
                             sp |-> sp, stored_at |-> time]]

get_player_join_data(p, t, r) == player_join_data[<<p, t, r>>]

\* All players of a round, with their data.
get_round_join_data(t, r) ==
    {<<p, get_player_join_data(p, t, r)>> :
        p \in {q \in Players : get_player_join_data(q, t, r) # None}}

-----------------------------------------------------------------------------
(* The seed of a player's game: a hash of the round's seed, while that is  *)
(* in one of the two slots, and of tier, player and round.                 *)

player_seed(seed, t, r, p) == <<seed, t, p, r>>

get_player_round_seed(t, r, p) ==
    LET seed == get_raw_seed_for_round(t, r)
    IN IF seed = None THEN None ELSE player_seed(seed, t, r, p)

=============================================================================
