---------------------------- MODULE RoundHistory ----------------------------
(***************************************************************************)
(* Round snapshots, the shared history entries and the per-player round    *)
(* references (game/rounds.rs), which store_round_snapshot keeps in step   *)
(* in one atomic call, and the engine-config version pinned into a         *)
(* snapshot.  A composite key (tier << 64 | round) is a pair.              *)
(***************************************************************************)
EXTENDS EngineConfigs, PlayerRegistry

CONSTANTS
    Keys,            \* the <<tier_id, round_id>> pairs in play
    Seasons,         \* season ids
    Results,         \* placement, kills and payouts of a player in a round
    MaxTs,           \* bound on join_ts
    Sigs,            \* emission transaction signatures
    MAX_PLAYERS_PER_CALL,
    MigratedKey,     \* (0, 283): the round post_upgrade re-pins
    MigratedVersion  \* "2.0.0"

VARIABLES
    round_snapshots,       \* ROUND_SNAPSHOTS
    round_history_entries, \* ROUND_HISTORY_ENTRIES: the season of a round
    player_round_refs      \* PLAYER_ROUND_REFS

recordVars == <<round_snapshots, round_history_entries, player_round_refs>>
historyVars == <<configVars, recordVars, registered_players>>

\* What a caller sends for one player.
PlayerResult == [player : Players, join_ts : 0 .. MaxTs, result : Results]

\* What PLAYER_ROUND_REFS keeps of it.
PlayerRoundRef == [round_key : Keys, join_ts : 0 .. MaxTs, result : Results]

RoundSnapshot == [season_id : Seasons, players : Seq(PlayerResult),
                  did_emit : BOOLEAN, emit_tx_sig : Sigs \cup {None},
                  config_version : Versions]

(* Keys and timestamps are numbers, an absent value is none of the values, *)
(* and the migration is about a round and a version there may be.          *)
ASSUME RecordAssumption ==
    /\ Keys \subseteq Nat \X Nat
    /\ IsFiniteSet(Keys)
    /\ MaxTs \in Nat
    /\ None \notin RoundSnapshot
    /\ None \notin PlayerResult
    /\ None \notin Seasons \cup Sigs
    /\ MigratedKey \in Keys
    /\ MigratedVersion \in Versions

HistoryTypeOK ==
    /\ ConfigTypeOK
    /\ registered_players \subseteq Players
    /\ round_snapshots \in [Keys -> RoundSnapshot \cup {None}]
    /\ round_history_entries \in [Keys -> Seasons \cup {None}]
    /\ player_round_refs \in [Players -> Seq(PlayerRoundRef)]

HistoryInit ==
    /\ ConfigInit
    /\ RegistryInit
    /\ round_snapshots = [k \in Keys |-> None]
    /\ round_history_entries = [k \in Keys |-> None]
    /\ player_round_refs = [p \in Players |-> << >>]

-----------------------------------------------------------------------------
(* store_round_snapshot *)

HasPlayer(records, p) == \E i \in DOMAIN records : records[i].player = p

\* Faulty variant: a batch is appended as it is.
Append_all(players, batch) == players \o batch

\* Appending to a snapshot: a record is dropped if its player is there.
append_players(players, batch) ==
    LET merged[n \in 0 .. Len(batch)] ==
            IF n = 0 THEN players
            ELSE IF HasPlayer(merged[n - 1], batch[n].player) THEN merged[n - 1]
            ELSE Append(merged[n - 1], batch[n])
    IN merged[Len(batch)]

\* Faulty variants: the version in force is pinned again by every batch; a
\* batch that reports no emission clears the mark.
Repin_snapshot(old, season, batch, did_emit, sig) ==
    IF old = None
    THEN [season_id |-> season, players |-> batch, did_emit |-> did_emit,
          emit_tx_sig |-> sig, config_version |-> current_config_version]
    ELSE [old EXCEPT !.players = append_players(@, batch),
                     !.did_emit = @ \/ did_emit,
                     !.emit_tx_sig = IF sig = None THEN @ ELSE sig,
                     !.config_version = current_config_version]
Unmark_snapshot(old, season, batch, did_emit, sig) ==
    IF old = None
    THEN [season_id |-> season, players |-> batch, did_emit |-> did_emit,
          emit_tx_sig |-> sig, config_version |-> current_config_version]
    ELSE [old EXCEPT !.players = append_players(@, batch),
                     !.did_emit = did_emit,
                     !.emit_tx_sig = sig]

\* Faulty variant: a version without a config is not pinned.
Pin_uploaded_only(old, season, batch, did_emit, sig) ==
    IF old = None
    THEN [season_id |-> season, players |-> batch, did_emit |-> did_emit,
          emit_tx_sig |-> sig,
          config_version |-> IF ConfigExists(current_config_version)
                             THEN current_config_version ELSE None]
    ELSE [old EXCEPT !.players = append_players(@, batch),
                     !.did_emit = @ \/ did_emit,
                     !.emit_tx_sig = IF sig = None THEN @ ELSE sig]

\* The snapshot after the call.  The first batch creates it, as it came, and
\* pins the config version in force; later ones merge into it.
stored_snapshot(old, season, batch, did_emit, sig) ==
    IF old = None
    THEN [season_id |-> season, players |-> batch, did_emit |-> did_emit,
          emit_tx_sig |-> sig, config_version |-> current_config_version]
    ELSE [old EXCEPT !.players = append_players(@, batch),
                     !.did_emit = @ \/ did_emit,
                     !.emit_tx_sig = IF sig = None THEN @ ELSE sig]

\* Faulty variants: the reference of a round is replaced by a later batch;
\* every batch adds another one.
Replace_ref(refs, ref) ==
    SelectSeq(refs, LAMBDA x : x.round_key # ref.round_key) \o <<ref>>
Another_ref(refs, ref) == <<ref>> \o refs

\* A round is referenced once; references are kept most recent first, equal
\* timestamps in the order they came (the code sorts stably).
add_ref(refs, ref) ==
    IF \E i \in DOMAIN refs : refs[i].round_key = ref.round_key
    THEN refs
    ELSE LET before == {i \in DOMAIN refs : refs[i].join_ts >= ref.join_ts}
         IN InsertAt(refs, Cardinality(before) + 1, ref)

ref_of(k, rec) ==
    [round_key |-> k, join_ts |-> rec.join_ts, result |-> rec.result]

updated_refs(k, batch) ==
    LET refs[n \in 0 .. Len(batch)] ==
            IF n = 0 THEN player_round_refs
            ELSE [refs[n - 1] EXCEPT
                     ![batch[n].player] = add_ref(@, ref_of(k, batch[n]))]
    IN refs[Len(batch)]

\* A record whose player is not the base58 of 32 bytes has no storage form.
into_storage(rec) == IF rec.player \in Players THEN rec ELSE None

\* One record that cannot be converted refuses the batch.
store_round_snapshot(k, season, batch, did_emit, sig) ==
    /\ Len(batch) <= MAX_PLAYERS_PER_CALL
    /\ \A i \in DOMAIN batch : into_storage(batch[i]) # None
    /\ round_snapshots' = [round_snapshots EXCEPT
           ![k] = stored_snapshot(@, season, batch, did_emit, sig)]
    /\ round_history_entries' = [round_history_entries EXCEPT
           ![k] = IF @ = None THEN season ELSE @]
    /\ player_round_refs' = updated_refs(k, batch)
    /\ UNCHANGED <<configVars, registered_players>>

-----------------------------------------------------------------------------
(* Repairs, upgrades and clearing *)

update_round_config_version(k, v) ==
    /\ round_snapshots[k] # None
    /\ round_snapshots' = [round_snapshots EXCEPT ![k].config_version = v]
    /\ UNCHANGED <<round_history_entries, player_round_refs, configVars,
                   registered_players>>

\* Every upgrade runs the same migration again.
post_upgrade == update_round_config_version(MigratedKey, MigratedVersion)

\* Of the maps modelled here clear_all_data clears all but the configs.
clear_all_data ==
    /\ round_snapshots' = [k \in Keys |-> None]
    /\ round_history_entries' = [k \in Keys |-> None]
    /\ player_round_refs' = [p \in Players |-> << >>]
    /\ registered_players' = {}
    /\ UNCHANGED configVars

-----------------------------------------------------------------------------
(* Reads *)

\* The references whose round has a history entry.
with_entry(refs) ==
    LET kept[n \in 0 .. Len(refs)] ==
            IF n = 0 THEN << >>
            ELSE IF round_history_entries[refs[n].round_key] # None
                 THEN Append(kept[n - 1], refs[n])
            ELSE kept[n - 1]
    IN kept[Len(refs)]

\* The others are left out of the page but counted in the total.
get_player_round_history(p, offset, limit) ==
    LET refs == player_round_refs[p]
    IN [total |-> Len(refs),
        rounds |-> with_entry(page(refs, offset, limit))]

\* The snapshots of a tier, here their keys, by round: the tier is the high
\* part of a key.
get_round_snapshots_by_tier(tier, offset, limit) ==
    LET stored == {k \in Keys : k[1] = tier /\ round_snapshots[k] # None}
    IN [total |-> Cardinality(stored),
        snapshots |-> page(in_key_order(stored, [k \in stored |-> k[2]]),
                           offset, limit)]

=============================================================================
