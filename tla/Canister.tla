------------------------------ MODULE Canister ------------------------------
(***************************************************************************)
(* The canister under all its callers: the engine-runner reveals round     *)
(* after round, matrix-workers read the seed of a round still to come, let *)
(* players play on it and store what came out, admins fetch the public     *)
(* key, upgrade, and clear everything for another Solana program.          *)
(*                                                                         *)
(* Runner and workers are other programs.  Assumed of them: reveals of a   *)
(* tier are serial (EngineRunner), a commitment hash belongs to one game,  *)
(* an answer may be lost, so a result may be sent again, and both are      *)
(* stopped while an admin clears.  The clock only tells before a clearing  *)
(* from after it.                                                          *)
(***************************************************************************)
EXTENDS EngineRunner, PlayerConfigs, Admin

CONSTANTS
    PlayerOf, \* PlayerOf[h]: who commits to hash h
    V1Rounds, \* rounds still played with join data
    Service,  \* the principal runner and workers call as
    Spendings \* skill points a worker may send

VARIABLES
    games, \* the games workers hold open, by hash (not in the canister)
    now    \* the clock

canisterVars == <<stable, calls, player_join_data, player_configs, adminVars,
                  games, now>>

PlayerSeeds ==
    (Masters \X (0 .. (CHUNK_SIZE - 1))) \X Tiers \X Players \X RoundIds

(* Hashes are spoken for, and an outcome is known by the seed behind it. *)
ASSUME GameAssumption ==
    /\ PlayerOf \in [Hashes -> Players]
    /\ V1Rounds \subseteq RoundIds
    /\ Service \in Principals
    /\ Outcomes = PlayerSeeds
    /\ Spendings \subseteq Allocation

Game == [tier : Tiers, round : RoundIds, seed : PlayerSeeds]

CanisterTypeOK ==
    /\ JoinDataTypeOK
    /\ PlayerConfigsTypeOK
    /\ AdminTypeOK
    /\ games \in [Hashes -> Game \cup {None}]
    /\ now \in 0 .. MaxTime

CanisterInit ==
    /\ Init
    /\ JoinDataInit
    /\ PlayerConfigsInit
    /\ AdminInit
    /\ games = [h \in Hashes |-> None]
    /\ now = 0

seedVars == <<stable, calls>>
playVars == <<player_join_data, player_configs>>

-----------------------------------------------------------------------------

\* The engine-runner asks for the next round, once somebody has made it an
\* admin, and its call goes on.
Reveal ==
    /\ \E c \in Calls :
          \/ Authorised(Service) /\ \E t \in Tiers, r \in RoundIds : request_reveal(c, t, r)
          \/ Answered(c)
          \/ call_failed(c)
    /\ UNCHANGED <<playVars, adminVars, games, now>>

\* A worker opens a game under a hash not committed to before, on the seed
\* the canister derives for that player and round: a query, open to anybody.
StartGame(h, t, r) ==
    LET seed == get_player_round_seed(t, r, PlayerOf[h])
    IN /\ games[h] = None
       /\ \A q \in RoundIds, u \in Tiers : get_player_config(q, u, h) = None
       /\ seed # None
       /\ games' = [games EXCEPT ![h] = [tier |-> t, round |-> r, seed |-> seed]]
       /\ UNCHANGED <<seedVars, playVars, adminVars, now>>

\* The worker sends what a game ended with, and may send again, with another
\* preset: it cannot tell a lost call from a lost answer.  The outcome is that
\* of the game, which the seed decides.
SubmitConfig(h) ==
    LET game == games[h]
    IN /\ Authorised(Service)
       /\ game # None
       /\ game.round \notin V1Rounds
       /\ \E preset \in Presets :
             set_player_config(game.round, game.tier, h, PlayerOf[h], preset,
                               game.seed, now)
       /\ UNCHANGED <<seedVars, player_join_data, adminVars, games, now>>

SubmitJoinData(h) ==
    LET game == games[h]
    IN /\ Authorised(Service)
       /\ game # None
       /\ game.round \in V1Rounds
       /\ \E position \in Positions, sp \in Spendings :
             store_player_join_data(PlayerOf[h], game.tier, game.round,
                                    game.seed, position, sp, now)
       /\ UNCHANGED <<seedVars, player_configs, adminVars, games, now>>

\* Admins add admins and fetch the public key.
Administer ==
    /\ \/ \E p \in Principals :
             \/ init_pubkey(p)
             \/ \E q \in Principals : set_admin(p, q)
       \/ pubkey_reply
       \/ pubkey_failed
    /\ UNCHANGED <<seedVars, playVars, games, now>>

\* An upgrade drops every suspended call, of whatever kind.
Upgrade ==
    /\ \E p \in Principals : AdminUpgrade(p)
    /\ \/ upgrade
       \/ (\A c \in Calls : calls[c] = None) /\ UNCHANGED seedVars
    /\ UNCHANGED <<playVars, games, now>>

\* Faulty variant: the public key is cleared too.
Clear_key_too ==
    /\ \E p \in Principals : Authorised(p)
    /\ now < MaxTime
    /\ \A c \in Calls : calls[c] = None
    /\ clear_all_data
    /\ games' = [h \in Hashes |-> None]
    /\ now' = now + 1
    /\ pubkey_cell' = EmptyCell
    /\ UNCHANGED <<playVars, admins, key_calls>>

\* Switching to another Solana program: runner and workers are stopped, the
\* seed maps are cleared, what players brought into rounds is not.
SwitchProgram ==
    /\ \E p \in Principals : Authorised(p)
    /\ now < MaxTime
    /\ \A c \in Calls : calls[c] = None
    /\ clear_all_data
    /\ games' = [h \in Hashes |-> None]
    /\ now' = now + 1
    /\ UNCHANGED <<playVars, adminVars>>

CanisterNext ==
    \/ Reveal
    \/ \E h \in Hashes :
          \/ \E t \in Tiers, r \in RoundIds : StartGame(h, t, r)
          \/ SubmitConfig(h)
          \/ SubmitJoinData(h)
    \/ Administer
    \/ Upgrade
    \/ SwitchProgram

CanisterSpec == CanisterInit /\ [][CanisterNext]_canisterVars

-----------------------------------------------------------------------------
(* Properties *)

\* What players brought into a round that is revealed - the records stored
\* for this program - was played on the seed that was revealed: a replay from
\* the public proof gives the result that was recorded.  (The seed is read
\* from the slots before the reveal; promotions, failed reveals, upgrades,
\* repeated submissions and clearings come in between.)
ReplayMatches ==
    \A t \in Tiers, r \in RoundIds : is_revealed(t, r) =>
        LET round_seed == Seed(revealed_seeds[t][r])
            Replays(outcome, p) == outcome = player_seed(round_seed, t, r, p)
        IN /\ \A h \in Hashes :
                 LET rec == get_player_config(r, t, h)
                 IN rec # None /\ rec.created_at = now => Replays(rec.outcome, rec.player)
           /\ \A entry \in get_round_join_data(t, r) :
                 entry[2].stored_at = now => Replays(entry[2].outcome, entry[1])

\* While the program is not switched, what is public of a round stays public,
\* and the records listed for it - to the public or, before the reveal, to
\* an admin - stay listed as they are, up to the limit on a listing: an answer
\* read from a replica that is behind, or before an upgrade, is never wrong,
\* only short.
ListingsOnlyGrow ==
    [][~SwitchProgram => \A t \in Tiers, r \in RoundIds :
          /\ is_revealed(t, r) => is_revealed(t, r)'
          /\ Len(list_player_configs_internal(r, t)') <= MAX_PLAYER_CONFIGS_LIST =>
                ToSet(list_player_configs(r, t)) \subseteq
                    ToSet(list_player_configs(r, t)')]_canisterVars

\* The key that verifiers are given never changes or disappears: not with
\* overlapping or failing init_pubkey calls, an upgrade or a clearing.
PubkeyStable ==
    [][get_pubkey_hex # EmptyCell => get_pubkey_hex' = get_pubkey_hex]_canisterVars

(* A claim of the documentation *)

\* All data is cleared for another program: what is listed of one of its
\* rounds was stored for that program.
ListedIsOfThisProgram ==
    \A t \in Tiers, r \in RoundIds : is_revealed(t, r) =>
        LET listed == list_player_configs_if_revealed(r, t)
        IN \A i \in DOMAIN listed : listed[i].created_at = now

=============================================================================
