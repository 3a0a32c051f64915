--------------------------- MODULE Canister_proof ---------------------------
(***************************************************************************)
(* Proofs about the canister under all its callers, clearing included: the *)
(* engine-runner's invariant survives it all, what players brought into a  *)
(* round was played on the seed that is revealed, and the public key never *)
(* changes.                                                                *)
(***************************************************************************)
EXTENDS Canister, EngineRunner_proof, DataLemmas

-----------------------------------------------------------------------------
(* The seeds: every step is a step of the runner, or clears everything. *)

\* A step of the canister either keeps to what the runner's model allows of
\* the seed maps or is the clearing.
LEMMA SeedStep == CanisterNext => [RunnerNext]_vars \/ SwitchProgram
<1>1. Reveal => RunnerNext
  BY DEF Reveal, RunnerNext
<1>2. Upgrade => [RunnerNext]_vars
  BY DEF Upgrade, RunnerNext, seedVars, vars
<1>3. ASSUME NEW h \in Hashes
      PROVE  /\ \A t \in Tiers, r \in RoundIds : StartGame(h, t, r) => UNCHANGED vars
             /\ SubmitConfig(h) => UNCHANGED vars
             /\ SubmitJoinData(h) => UNCHANGED vars
  BY DEF StartGame, SubmitConfig, SubmitJoinData, seedVars, vars
<1>4. Administer => UNCHANGED vars
  BY DEF Administer, seedVars, vars
<1> QED
  BY <1>1, <1>2, <1>3, <1>4 DEF CanisterNext

\* Clearing leaves the seed maps as they are on a new canister.
LEMMA ClearedIsNew == TypeOK /\ SwitchProgram => Init'
  BY DEF SwitchProgram, clear_all_data, Init, TypeOK

\* The runner's invariant holds through clearings.
LEMMA SeedsThroughStep == RunnerInv /\ [CanisterNext]_canisterVars => RunnerInv'
<1>1. UNCHANGED canisterVars => UNCHANGED vars
  BY DEF canisterVars, vars
<1>2. SwitchProgram /\ RunnerInv => RunnerInv'
  BY ClearedIsNew, RunnerInit, PTL DEF RunnerInv
<1> QED
  BY <1>1, <1>2, SeedStep, RunnerStep

\* Counter, settled round, public rounds, slots and the suspended call of a
\* tier agree in every execution of the canister, for every program it serves.
THEOREM RunnerInvariantOfCanister == CanisterSpec => []RunnerInv
<1>1. CanisterInit => RunnerInv
  BY RunnerInit DEF CanisterInit
<1> QED
  BY <1>1, SeedsThroughStep, PTL DEF CanisterSpec

-----------------------------------------------------------------------------
(* The public key *)

\* Whatever is cached is the one key chunks are signed with.
OneKey == pubkey_cell \in {EmptyCell, get_public_key(0)}

LEMMA KeyStep ==
    OneKey /\ [CanisterNext]_canisterVars =>
        OneKey' /\ (get_pubkey_hex # EmptyCell => get_pubkey_hex' = get_pubkey_hex)
<1> SUFFICES ASSUME OneKey, [CanisterNext]_canisterVars
             PROVE  /\ OneKey'
                    /\ get_pubkey_hex # EmptyCell => get_pubkey_hex' = get_pubkey_hex
  OBVIOUS
<1>1. UNCHANGED adminVars =>
        /\ OneKey'
        /\ get_pubkey_hex # EmptyCell => get_pubkey_hex' = get_pubkey_hex
  BY DEF OneKey, adminVars, get_pubkey_hex
<1>2. CASE Administer
  BY <1>2 DEF Administer, init_pubkey, set_admin, pubkey_reply, pubkey_failed,
              signing_path, OneKey, get_pubkey_hex
<1>3. CASE Upgrade
  BY <1>3 DEF Upgrade, AdminUpgrade, OneKey, get_pubkey_hex
<1>4. CASE UNCHANGED canisterVars
  BY <1>1, <1>4 DEF canisterVars
<1>5. CASE Reveal
  BY <1>1, <1>5 DEF Reveal
<1>6. ASSUME NEW h \in Hashes,
             \/ \E t \in Tiers, r \in RoundIds : StartGame(h, t, r)
             \/ SubmitConfig(h)
             \/ SubmitJoinData(h)
      PROVE  UNCHANGED adminVars
  BY <1>6 DEF StartGame, SubmitConfig, SubmitJoinData
<1>7. CASE SwitchProgram
  BY <1>1, <1>7 DEF SwitchProgram
<1> QED
  BY <1>1, <1>2, <1>3, <1>4, <1>5, <1>6, <1>7 DEF CanisterNext

\* Once the public key can be read it never changes or disappears, whatever
\* init_pubkey calls overlap and whatever is upgraded or cleared.
THEOREM PubkeyNeverChanges == CanisterSpec => PubkeyStable
<1>1. CanisterInit => OneKey
  BY DEF CanisterInit, AdminInit, OneKey
<1>2. OneKey /\ [CanisterNext]_canisterVars =>
        [get_pubkey_hex # EmptyCell => get_pubkey_hex' = get_pubkey_hex]_canisterVars
  BY KeyStep
<1> QED
  BY <1>1, <1>2, KeyStep, PTL DEF CanisterSpec, PubkeyStable

-----------------------------------------------------------------------------
(* Types *)

\* A seed that can be read is one of the seeds of a chunk.
LEMMA RawSeedType ==
    ASSUME TypeOK, NEW t \in Tiers, NEW r \in RoundIds,
           get_raw_seed_for_round(t, r) # None
    PROVE  get_raw_seed_for_round(t, r) \in Masters \X (0 .. (CHUNK_SIZE - 1))
<1>1. /\ seed_chunks[t] \in SeedChunk \cup {None}
      /\ seed_chunks_next[t] \in SeedChunk \cup {None}
  BY DEF TypeOK
<1>2. r \in Nat /\ (r # 0 => (r - 1) % CHUNK_SIZE \in 0 .. (CHUNK_SIZE - 1))
  BY ConstAssumption
<1>3. r # 0
  BY DEF get_raw_seed_for_round
<1>4. CASE Holds(seed_chunks[t], expected_chunk_id(r))
  BY <1>1, <1>2, <1>3, <1>4 DEF get_raw_seed_for_round, Holds, SeedChunk
<1>5. CASE ~Holds(seed_chunks[t], expected_chunk_id(r))
  BY <1>1, <1>2, <1>3, <1>5 DEF get_raw_seed_for_round, Holds, SeedChunk
<1> QED
  BY <1>4, <1>5

LEMMA TypesThroughStep ==
    ASSUME TypeOK, CanisterTypeOK, [CanisterNext]_canisterVars
    PROVE  CanisterTypeOK'
<1> DEFINE kept == UNCHANGED <<player_join_data, player_configs, games, now>>
<1>1. ASSUME kept, AdminTypeOK'
      PROVE  CanisterTypeOK'
  BY <1>1 DEF CanisterTypeOK, JoinDataTypeOK, PlayerConfigsTypeOK
<1>2. UNCHANGED adminVars => AdminTypeOK'
  BY DEF CanisterTypeOK, AdminTypeOK, adminVars
<1>3. CASE UNCHANGED canisterVars
  BY <1>1, <1>2, <1>3 DEF canisterVars
<1>4. CASE Reveal
  BY <1>1, <1>2, <1>4 DEF Reveal, playVars
<1>5. CASE Administer
  <2>1. AdminTypeOK'
    BY <1>5, PrincipalAssumption DEF Administer, init_pubkey, set_admin, pubkey_reply,
       pubkey_failed, signing_path, CanisterTypeOK, AdminTypeOK
  <2> QED
    BY <1>1, <1>5, <2>1 DEF Administer, playVars
<1>6. CASE Upgrade
  <2>1. AdminTypeOK'
    BY <1>6, PrincipalAssumption DEF Upgrade, AdminUpgrade, CanisterTypeOK, AdminTypeOK
  <2> QED
    BY <1>1, <1>6, <2>1 DEF Upgrade, playVars
<1>7. CASE SwitchProgram
  BY <1>2, <1>7, WidthAssumption DEF SwitchProgram, playVars, CanisterTypeOK,
     JoinDataTypeOK, PlayerConfigsTypeOK
<1>8. ASSUME NEW h \in Hashes, NEW t \in Tiers, NEW r \in RoundIds, StartGame(h, t, r)
      PROVE  CanisterTypeOK'
  <2> DEFINE raw == get_raw_seed_for_round(t, r)
  <2>1. raw # None
    BY <1>8 DEF StartGame, get_player_round_seed
  <2>2. player_seed(raw, t, r, PlayerOf[h]) \in PlayerSeeds
    BY <2>1, RawSeedType, GameAssumption DEF player_seed, PlayerSeeds
  <2>3. games' = [games EXCEPT ![h] = [tier |-> t, round |-> r,
                                seed |-> player_seed(raw, t, r, PlayerOf[h])]]
    BY <1>8, <2>1 DEF StartGame, get_player_round_seed
  <2>4. [tier |-> t, round |-> r, seed |-> player_seed(raw, t, r, PlayerOf[h])] \in Game
    BY <2>2 DEF Game
  <2>5. games' \in [Hashes -> Game \cup {None}]
    BY <2>3, <2>4 DEF CanisterTypeOK
  <2> QED
    BY <1>2, <1>8, <2>5 DEF StartGame, playVars, CanisterTypeOK, JoinDataTypeOK,
       PlayerConfigsTypeOK
<1>9. ASSUME NEW h \in Hashes, SubmitConfig(h)
      PROVE  CanisterTypeOK'
  <2>1. games[h] \in Game
    BY <1>9 DEF SubmitConfig, CanisterTypeOK
  <2>2. PICK preset \in Presets :
          set_player_config(games[h].round, games[h].tier, h, PlayerOf[h], preset,
                            games[h].seed, now)
    BY <1>9 DEF SubmitConfig
  <2>3. [hash |-> h, player |-> PlayerOf[h], tp_preset |-> preset,
         outcome |-> games[h].seed, created_at |-> now] \in PlayerConfigRecord
    BY <2>1, <2>2, GameAssumption, PresetAssumption
       DEF set_player_config, MAX_TP_PRESET, PlayerConfigRecord, Game, CanisterTypeOK
  <2>4. PlayerConfigsTypeOK'
    BY <2>2, <2>3 DEF set_player_config, PlayerConfigsTypeOK, CanisterTypeOK
  <2> QED
    BY <1>2, <1>9, <2>4 DEF SubmitConfig, CanisterTypeOK, JoinDataTypeOK
<1>10. ASSUME NEW h \in Hashes, SubmitJoinData(h)
       PROVE  CanisterTypeOK'
  <2>1. games[h] \in Game
    BY <1>10 DEF SubmitJoinData, CanisterTypeOK
  <2>2. PICK position \in Positions, sp \in Spendings :
          store_player_join_data(PlayerOf[h], games[h].tier, games[h].round,
                                 games[h].seed, position, sp, now)
    BY <1>10 DEF SubmitJoinData
  <2>3. [outcome |-> games[h].seed, position |-> position, sp |-> sp,
         stored_at |-> now] \in PlayerJoinData
    BY <2>1, GameAssumption DEF PlayerJoinData, Game, CanisterTypeOK
  <2>4. JoinDataTypeOK'
    BY <2>2, <2>3 DEF store_player_join_data, JoinDataTypeOK, CanisterTypeOK
  <2> QED
    BY <1>2, <1>10, <2>4 DEF SubmitJoinData, CanisterTypeOK, PlayerConfigsTypeOK
<1> QED
  BY <1>3, <1>4, <1>5, <1>6, <1>7, <1>8, <1>9, <1>10 DEF CanisterNext

\* Every map of the canister holds what its Rust type allows, whoever calls.
THEOREM CanisterTypesCorrect == CanisterSpec => []CanisterTypeOK
<1>1. CanisterInit => CanisterTypeOK
  <2>1. CanisterInit => AdminTypeOK
    BY PrincipalAssumption DEF CanisterInit, AdminInit, init, AdminTypeOK
  <2> QED
    BY <2>1, WidthAssumption DEF CanisterInit, CanisterTypeOK, JoinDataInit,
       JoinDataTypeOK, PlayerConfigsInit, PlayerConfigsTypeOK
<1>2. RunnerInv => TypeOK
  BY DEF RunnerInv
<1> QED
  BY <1>1, <1>2, TypesThroughStep, RunnerInvariantOfCanister, PTL DEF CanisterSpec

-----------------------------------------------------------------------------
(* Replays *)

\* s is the seed of a round: the one published or, before that, the one read
\* from the slots.
Follows(t, r, s) ==
    IF Revealed(t, r) THEN Seed(revealed_seeds[t][r]) = s
                      ELSE get_raw_seed_for_round(t, r) = s

\* A seed stays the seed of its round in every step of the runner.
LEMMA FollowsOn ==
    ASSUME RunnerInv, [RunnerNext]_vars, NEW t \in Tiers, NEW r \in Rounds,
           NEW s, s # None, Follows(t, r, s)
    PROVE  Follows(t, r, s)'
<1>1. CASE Revealed(t, r)
  <2>1. revealed_seeds'[t][r] = revealed_seeds[t][r]
    BY <1>1, ProofStays DEF Rounds
  <2> QED
    BY <1>1, <2>1 DEF Follows, Revealed, Seed
<1>2. CASE ~Revealed(t, r)
  <2>1. s = SeedIn(seed_chunks[t], seed_chunks_next[t], r)
    BY <1>2, RawSeedIsIn DEF Follows
  <2>2. IF revealed_seeds'[t][r] = None
        THEN SeedIn(seed_chunks'[t], seed_chunks_next'[t], r) = s
        ELSE Seed(revealed_seeds'[t][r]) = s
    BY <1>2, <2>1, StepEffect, SeedStaysPut
  <2>3. get_raw_seed_for_round(t, r)' =
            SeedIn(seed_chunks'[t], seed_chunks_next'[t], r)
    BY RawSeedIsIn
  <2> QED
    BY <2>2, <2>3 DEF Follows, Revealed, Seed
<1> QED
  BY <1>1, <1>2

\* What a worker reads is the seed of its round, before the reveal and after.
LEMMA ReadFollows ==
    ASSUME RunnerInv, NEW t \in Tiers, NEW r \in Rounds,
           get_raw_seed_for_round(t, r) # None
    PROVE  Follows(t, r, get_raw_seed_for_round(t, r))
<1> DEFINE cur == seed_chunks[t]
           next == seed_chunks_next[t]
           last == last_settled_rounds[t]
           proof == revealed_seeds[t][r]
<1> SUFFICES ASSUME Revealed(t, r)
             PROVE  Seed(proof) = get_raw_seed_for_round(t, r)
  BY DEF Follows
<1>1. /\ r \in RoundIds
      /\ r \in Nat
      /\ last \in Nat
      /\ 1 <= r
      /\ r <= last
  BY TierFacts, ConstAssumption DEF RunnerInv, RevealedUpToSettled, Rounds
<1>2. /\ proof.chunk_id = ChunkOf(r)
      /\ proof.offset = (r - 1) % CHUNK_SIZE
      /\ Holds(cur, ChunkOf(r)) => proof.master = cur.master
  BY <1>1 DEF RunnerInv, ProofsAgree
<1>3. /\ ChunkOf(r) \in Nat
      /\ ChunkOf(last) \in Nat
      /\ ChunkOf(r) <= ChunkOf(last)
  BY <1>1, ChunkMono, ChunkStep
<1>4. cur.chunk_id \in Nat /\ ChunkOf(r) <= cur.chunk_id
  BY <1>1, <1>3, CurrentChunk DEF SeedChunk
<1>5. ~Holds(next, ChunkOf(r))
  BY <1>3, <1>4 DEF Holds, RunnerInv, NextIsOneAhead
<1>6. get_raw_seed_for_round(t, r) = SeedIn(cur, next, r)
  BY RawSeedIsIn
<1> QED
  BY <1>2, <1>5, <1>6 DEF SeedIn, Seed

\* The outcome was played by p on the seed of the round.
Match(t, r, p, outcome) ==
    /\ t \in Tiers
    /\ r \in Rounds
    /\ \E s : s # None /\ outcome = player_seed(s, t, r, p) /\ Follows(t, r, s)

GameFits(h) ==
    games[h] # None =>
        Match(games[h].tier, games[h].round, PlayerOf[h], games[h].seed)

ConfigFits(k) ==
    LET rec == player_configs[k]
    IN rec # None =>
          /\ rec.created_at \in Nat
          /\ rec.created_at <= now
          /\ rec.created_at = now => Match(k[2], k[1], rec.player, rec.outcome)

JoinFits(k) ==
    LET data == player_join_data[k]
    IN data # None =>
          /\ data.stored_at \in Nat
          /\ data.stored_at <= now
          /\ data.stored_at = now => Match(k[2], k[3], k[1], data.outcome)

\* Every open game and every record of this program is played on the seed of
\* its round; what is older is dated before the clearing.
PlayInv ==
    /\ now \in Nat
    /\ DOMAIN games = Hashes
    /\ DOMAIN player_configs = ConfigKeys
    /\ DOMAIN player_join_data = JoinKeys
    /\ \A h \in Hashes : GameFits(h)
    /\ \A k \in ConfigKeys : ConfigFits(k)
    /\ \A k \in JoinKeys : JoinFits(k)

LEMMA MatchOn ==
    ASSUME RunnerInv, [RunnerNext]_vars, NEW t, NEW r, NEW p, NEW outcome,
           Match(t, r, p, outcome)
    PROVE  Match(t, r, p, outcome)'
<1>1. PICK s : s # None /\ outcome = player_seed(s, t, r, p) /\ Follows(t, r, s)
  BY DEF Match
<1>2. Follows(t, r, s)'
  BY <1>1, FollowsOn DEF Match
<1> QED
  BY <1>1, <1>2 DEF Match, player_seed

\* What does not change goes on fitting.
LEMMA FitsOn ==
    ASSUME PlayInv, RunnerInv, [RunnerNext]_vars, now' = now
    PROVE  /\ \A h \in Hashes : games'[h] = games[h] => GameFits(h)'
           /\ \A k \in ConfigKeys :
                 player_configs'[k] = player_configs[k] => ConfigFits(k)'
           /\ \A k \in JoinKeys :
                 player_join_data'[k] = player_join_data[k] => JoinFits(k)'
<1>1. ASSUME NEW h \in Hashes, games'[h] = games[h]
      PROVE  GameFits(h)'
  BY <1>1, MatchOn DEF PlayInv, GameFits
<1>2. ASSUME NEW k \in ConfigKeys, player_configs'[k] = player_configs[k]
      PROVE  ConfigFits(k)'
  BY <1>2, MatchOn DEF PlayInv, ConfigFits
<1>3. ASSUME NEW k \in JoinKeys, player_join_data'[k] = player_join_data[k]
      PROVE  JoinFits(k)'
  BY <1>3, MatchOn DEF PlayInv, JoinFits
<1> QED
  BY <1>1, <1>2, <1>3

\* A game is opened on a seed that follows its round.
LEMMA GameOpened ==
    ASSUME PlayInv, RunnerInv, NEW h \in Hashes, NEW t \in Tiers,
           NEW r \in RoundIds, StartGame(h, t, r)
    PROVE  PlayInv'
<1> DEFINE raw == get_raw_seed_for_round(t, r)
           p == PlayerOf[h]
<1>1. /\ raw # None
      /\ get_player_round_seed(t, r, p) = player_seed(raw, t, r, p)
  BY DEF StartGame, get_player_round_seed
<1>2. r \in Rounds
  BY <1>1 DEF get_raw_seed_for_round, Rounds
<1>3. PICK seed : seed = player_seed(raw, t, r, p)
  OBVIOUS
<1>4. /\ UNCHANGED <<vars, player_configs, player_join_data, now>>
      /\ games' = [games EXCEPT ![h] = [tier |-> t, round |-> r, seed |-> seed]]
  BY <1>1, <1>3 DEF StartGame, seedVars, playVars, vars
<1>5. Match(t, r, p, seed)'
  <2>1. Match(t, r, p, seed)
    BY <1>1, <1>2, <1>3, ReadFollows DEF Match
  <2> QED
    BY <1>4, <2>1, MatchOn
<1>6. GameFits(h)'
  BY <1>4, <1>5 DEF GameFits, PlayInv
<1>7. \A g \in Hashes : g # h => games'[g] = games[g]
  BY <1>4 DEF PlayInv
<1>8. \A g \in Hashes : GameFits(g)'
  BY <1>4, <1>6, <1>7, FitsOn
<1>9. /\ \A k \in ConfigKeys : ConfigFits(k)'
      /\ \A k \in JoinKeys : JoinFits(k)'
  BY <1>4, FitsOn
<1> QED
  BY <1>4, <1>8, <1>9 DEF PlayInv

\* A config record is stored under its game's round, with its game's outcome.
LEMMA ConfigSubmitted ==
    ASSUME PlayInv, RunnerInv, NEW h \in Hashes, SubmitConfig(h)
    PROVE  PlayInv'
<1> DEFINE game == games[h]
           key == <<game.round, game.tier, h>>
<1>1. /\ game # None
      /\ UNCHANGED <<vars, player_join_data, games, now>>
  BY DEF SubmitConfig, seedVars, vars
<1>2. Match(game.tier, game.round, PlayerOf[h], game.seed)
  BY <1>1 DEF PlayInv, GameFits
<1>3. key \in ConfigKeys
  BY <1>2 DEF Match, ConfigKeys, Rounds
<1>4. PICK preset \in Presets :
        player_configs' = [player_configs EXCEPT ![key] =
            [hash |-> h, player |-> PlayerOf[h], tp_preset |-> preset,
             outcome |-> game.seed, created_at |-> now]]
  BY DEF SubmitConfig, set_player_config, player_config_key
<1>5. Match(game.tier, game.round, PlayerOf[h], game.seed)'
  BY <1>1, <1>2, MatchOn
<1>6. ConfigFits(key)'
  <2>1. player_configs'[key] =
            [hash |-> h, player |-> PlayerOf[h], tp_preset |-> preset,
             outcome |-> game.seed, created_at |-> now]
    BY <1>3, <1>4 DEF PlayInv
  <2>2. Match(key[2], key[1], PlayerOf[h], game.seed)'
    BY <1>1, <1>5
  <2> QED
    BY <1>1, <2>1, <2>2 DEF ConfigFits, PlayInv
<1>7. \A k \in ConfigKeys : k # key => player_configs'[k] = player_configs[k]
  BY <1>4 DEF PlayInv
<1>8. \A k \in ConfigKeys : ConfigFits(k)'
  BY <1>1, <1>6, <1>7, FitsOn
<1>9. /\ \A g \in Hashes : GameFits(g)'
      /\ \A k \in JoinKeys : JoinFits(k)'
  BY <1>1, FitsOn
<1> QED
  BY <1>1, <1>4, <1>8, <1>9 DEF PlayInv

\* Join data is stored under its game's player and round.
LEMMA JoinDataSubmitted ==
    ASSUME PlayInv, RunnerInv, NEW h \in Hashes, SubmitJoinData(h)
    PROVE  PlayInv'
<1> DEFINE game == games[h]
           key == <<PlayerOf[h], game.tier, game.round>>
<1>1. /\ game # None
      /\ UNCHANGED <<vars, player_configs, games, now>>
  BY DEF SubmitJoinData, seedVars, vars
<1>2. Match(game.tier, game.round, PlayerOf[h], game.seed)
  BY <1>1 DEF PlayInv, GameFits
<1>3. key \in JoinKeys
  BY <1>2, GameAssumption DEF Match, JoinKeys, Rounds
<1>4. PICK position \in Positions, sp \in Spendings :
        player_join_data' = [player_join_data EXCEPT ![key] =
            [outcome |-> game.seed, position |-> position, sp |-> sp,
             stored_at |-> now]]
  BY DEF SubmitJoinData, store_player_join_data
<1>5. Match(game.tier, game.round, PlayerOf[h], game.seed)'
  BY <1>1, <1>2, MatchOn
<1>6. JoinFits(key)'
  <2>1. player_join_data'[key] =
            [outcome |-> game.seed, position |-> position, sp |-> sp,
             stored_at |-> now]
    BY <1>3, <1>4 DEF PlayInv
  <2>2. Match(key[2], key[3], key[1], game.seed)'
    BY <1>1, <1>5
  <2> QED
    BY <1>1, <2>1, <2>2 DEF JoinFits, PlayInv
<1>7. \A k \in JoinKeys : k # key => player_join_data'[k] = player_join_data[k]
  BY <1>4 DEF PlayInv
<1>8. \A k \in JoinKeys : JoinFits(k)'
  BY <1>1, <1>6, <1>7, FitsOn
<1>9. /\ \A g \in Hashes : GameFits(g)'
      /\ \A k \in ConfigKeys : ConfigFits(k)'
  BY <1>1, FitsOn
<1> QED
  BY <1>1, <1>4, <1>8, <1>9 DEF PlayInv

\* After a clearing no game is open and every record is of an older program.
LEMMA ClearedIsOlder ==
    ASSUME PlayInv, SwitchProgram
    PROVE  PlayInv'
<1>1. /\ games' = [h \in Hashes |-> None]
      /\ now' = now + 1
      /\ UNCHANGED <<player_configs, player_join_data>>
  BY DEF SwitchProgram, playVars
<1>2. \A h \in Hashes : GameFits(h)'
  BY <1>1 DEF GameFits
<1>3. ASSUME NEW k \in ConfigKeys
      PROVE  ConfigFits(k)'
  BY <1>1 DEF PlayInv, ConfigFits
<1>4. ASSUME NEW k \in JoinKeys
      PROVE  JoinFits(k)'
  BY <1>1 DEF PlayInv, JoinFits
<1> QED
  BY <1>1, <1>2, <1>3, <1>4 DEF PlayInv

LEMMA PlayStep ==
    ASSUME PlayInv, RunnerInv, [CanisterNext]_canisterVars
    PROVE  PlayInv'
<1>1. ASSUME [RunnerNext]_vars, UNCHANGED <<playVars, games, now>>
      PROVE  PlayInv'
  BY <1>1, FitsOn DEF PlayInv, playVars
<1>2. CASE UNCHANGED canisterVars
  BY <1>1, <1>2 DEF canisterVars, playVars, vars
<1>3. CASE Reveal
  BY <1>1, <1>3 DEF Reveal, RunnerNext
<1>4. CASE Administer
  BY <1>1, <1>4 DEF Administer, seedVars, vars
<1>5. CASE Upgrade
  BY <1>1, <1>5 DEF Upgrade, RunnerNext, seedVars, vars
<1>6. CASE SwitchProgram
  BY <1>6, ClearedIsOlder
<1>7. ASSUME NEW h \in Hashes,
             \/ \E t \in Tiers, r \in RoundIds : StartGame(h, t, r)
             \/ SubmitConfig(h)
             \/ SubmitJoinData(h)
      PROVE  PlayInv'
  BY <1>7, GameOpened, ConfigSubmitted, JoinDataSubmitted
<1> QED
  BY <1>2, <1>3, <1>4, <1>5, <1>6, <1>7 DEF CanisterNext

\* A record of this program, for a round that is revealed, replays.
LEMMA PlayGivesReplays ==
    ASSUME PlayInv, RunnerInv
    PROVE  ReplayMatches
<1> SUFFICES ASSUME NEW t \in Tiers, NEW r \in RoundIds, is_revealed(t, r)
             PROVE  LET round_seed == Seed(revealed_seeds[t][r])
                        Replays(outcome, p) == outcome = player_seed(round_seed, t, r, p)
                    IN /\ \A h \in Hashes :
                             LET rec == get_player_config(r, t, h)
                             IN rec # None /\ rec.created_at = now =>
                                   Replays(rec.outcome, rec.player)
                       /\ \A entry \in get_round_join_data(t, r) :
                             entry[2].stored_at = now =>
                                Replays(entry[2].outcome, entry[1])
  BY DEF ReplayMatches
<1>1. Revealed(t, r)
  BY DEF is_revealed, Revealed
<1>2. ASSUME NEW p, NEW outcome, Match(t, r, p, outcome)
      PROVE  outcome = player_seed(Seed(revealed_seeds[t][r]), t, r, p)
  BY <1>1, <1>2 DEF Match, Follows
<1>3. ASSUME NEW h \in Hashes,
             get_player_config(r, t, h) # None,
             get_player_config(r, t, h).created_at = now
      PROVE  get_player_config(r, t, h).outcome =
                player_seed(Seed(revealed_seeds[t][r]), t, r,
                            get_player_config(r, t, h).player)
  <2> DEFINE k == <<r, t, h>>
  <2>1. k \in ConfigKeys
    BY DEF ConfigKeys
  <2>2. ConfigFits(k)
    BY <2>1 DEF PlayInv
  <2>3. get_player_config(r, t, h) = player_configs[k]
    BY DEF get_player_config, player_config_key
  <2> QED
    BY <1>2, <1>3, <2>2, <2>3 DEF ConfigFits
<1>4. ASSUME NEW entry \in get_round_join_data(t, r), entry[2].stored_at = now
      PROVE  entry[2].outcome =
                player_seed(Seed(revealed_seeds[t][r]), t, r, entry[1])
  <2>1. PICK p \in Players : /\ entry = <<p, player_join_data[<<p, t, r>>]>>
                             /\ player_join_data[<<p, t, r>>] # None
    BY <1>4 DEF get_round_join_data, get_player_join_data
  <2> DEFINE k == <<p, t, r>>
  <2>2. k \in JoinKeys
    BY DEF JoinKeys
  <2>3. JoinFits(k)
    BY <2>2 DEF PlayInv
  <2> QED
    BY <1>2, <1>4, <2>1, <2>3 DEF JoinFits
<1> QED
  BY <1>3, <1>4

\* Every record stored for this program was played on the seed its round was
\* revealed with, whatever promotions, failures, upgrades, repeated
\* submissions and clearings came in between.
THEOREM ReplaysMatch == CanisterSpec => []ReplayMatches
<1>1. CanisterInit => RunnerInv /\ PlayInv
  BY RunnerInit DEF CanisterInit, PlayInv, GameFits, ConfigFits, JoinFits,
     PlayerConfigsInit, JoinDataInit
<1>2. RunnerInv /\ PlayInv /\ [CanisterNext]_canisterVars => (RunnerInv /\ PlayInv)'
  BY SeedsThroughStep, PlayStep
<1>3. RunnerInv /\ PlayInv => ReplayMatches
  BY PlayGivesReplays
<1> QED
  BY <1>1, <1>2, <1>3, PTL DEF CanisterSpec

-----------------------------------------------------------------------------
(* Listings *)

\* The keys of a round, and its listing, as functions of the stored map.
ListedKeys(configs, r, t) ==
    {k \in ConfigKeys : /\ configs[k] # None
                        /\ player_config_prefix(k) = <<r, t>>}

ListingOf(configs, r, t) ==
    LET keys == ListedKeys(configs, r, t)
        sorted == in_key_order(keys, [k \in keys |-> k[3]])
    IN [i \in DOMAIN sorted |-> configs[sorted[i]]]

Listing(all, configs, keys) ==
    /\ Len(all) \in Nat
    /\ DOMAIN all = 1 .. Len(all)
    /\ \A i \in DOMAIN all : \E k \in keys : all[i] = configs[k]
    /\ \A k \in keys : \E i \in DOMAIN all : all[i] = configs[k]

\* The keys of a round are ordered by their hashes.
LEMMA ConfigsRanked ==
    ASSUME NEW configs, NEW r, NEW t
    PROVE  Ranked(ListedKeys(configs, r, t),
                  [k \in ListedKeys(configs, r, t) |-> k[3]])
<1> DEFINE keys == ListedKeys(configs, r, t)
           hash == [k \in keys |-> k[3]]
<1>1. /\ \A k \in keys : k = <<r, t, k[3]>>
      /\ \A k \in keys : k[3] \in Hashes
  BY DEF ListedKeys, ConfigKeys, player_config_prefix
<1> HIDE DEF keys
<1>2. hash \in Injection(keys, Hashes)
  BY <1>1 DEF Injection, IsInjective
<1>3. IsFiniteSet(keys)
  BY <1>2, FS_Injection, HashAssumption
<1>4. \A k \in keys : hash[k] \in Int
  <2>1. \A h \in Hashes : h \in Int
    BY HashAssumption
  <2> QED
    BY <1>1, <2>1
<1>5. \A j, k \in keys : hash[j] = hash[k] => j = k
  BY <1>1
<1>6. Ranked(keys, hash)
  BY <1>3, <1>4, <1>5 DEF Ranked
<1> QED
  BY <1>6 DEF keys

\* A listing has the record of every key of its round, and no other.
LEMMA ListingHasAll ==
    ASSUME NEW configs, NEW r, NEW t
    PROVE  Listing(ListingOf(configs, r, t), configs, ListedKeys(configs, r, t))
<1> DEFINE keys == ListedKeys(configs, r, t)
           hash == [k \in keys |-> k[3]]
           sorted == in_key_order(keys, hash)
           all == [i \in DOMAIN sorted |-> configs[sorted[i]]]
<1>1. Ranked(keys, hash)
  BY ConfigsRanked
<1> HIDE DEF keys, hash
<1>2. /\ sorted \in Seq(keys)
      /\ \A k \in keys : \E i \in 1 .. Len(sorted) : sorted[i] = k
  BY <1>1, KeyList
<1> HIDE DEF sorted
<1>3. Len(sorted) \in Nat /\ DOMAIN sorted = 1 .. Len(sorted)
  BY <1>2
<1>4. Len(all) = Len(sorted) /\ DOMAIN all = 1 .. Len(sorted)
  BY <1>3
<1>5. Listing(all, configs, keys)
  BY <1>2, <1>3, <1>4 DEF Listing
<1> QED
  BY <1>5 DEF ListingOf, keys, hash, sorted

\* A record is written once: no step of any caller changes it.
LEMMA RecordsStay ==
    ASSUME CanisterTypeOK, [CanisterNext]_canisterVars, NEW k \in ConfigKeys,
           player_configs[k] # None
    PROVE  player_configs'[k] = player_configs[k]
<1>1. ASSUME NEW h \in Hashes, SubmitConfig(h)
      PROVE  player_configs'[k] = player_configs[k]
  <2> DEFINE key == <<games[h].round, games[h].tier, h>>
  <2>1. player_configs[key] = None
    BY <1>1 DEF SubmitConfig, set_player_config, get_player_config, player_config_key
  <2>2. \E rec : player_configs' = [player_configs EXCEPT ![key] = rec]
    BY <1>1 DEF SubmitConfig, set_player_config, player_config_key
  <2>3. DOMAIN player_configs = ConfigKeys
    BY DEF CanisterTypeOK, PlayerConfigsTypeOK
  <2> QED
    BY <2>1, <2>2, <2>3
<1>2. ~(\E h \in Hashes : SubmitConfig(h)) => UNCHANGED player_configs
  BY DEF CanisterNext, canisterVars, playVars, Reveal, StartGame, SubmitJoinData,
     Administer, Upgrade, SwitchProgram
<1> QED
  BY <1>1, <1>2

\* What is listed goes on being listed as long as the listing is not cut.
LEMMA ListingGrows ==
    ASSUME CanisterTypeOK, [CanisterNext]_canisterVars,
           NEW r \in RoundIds, NEW t \in Tiers,
           Len(list_player_configs_internal(r, t)') <= MAX_PLAYER_CONFIGS_LIST
    PROVE  ToSet(list_player_configs(r, t)) \subseteq
               ToSet(list_player_configs(r, t)')
<1>1. PICK configs, configs2 : configs = player_configs /\ configs2 = player_configs'
  OBVIOUS
<1> DEFINE all == ListingOf(configs, r, t)
           all2 == ListingOf(configs2, r, t)
           keys == ListedKeys(configs, r, t)
           keys2 == ListedKeys(configs2, r, t)
           cut == list_player_configs(r, t)
<1>2. /\ list_player_configs_internal(r, t) = all
      /\ list_player_configs_internal(r, t)' = all2
  BY <1>1 DEF list_player_configs_internal, ListingOf, ListedKeys
<1>3. Listing(all, configs, keys) /\ Listing(all2, configs2, keys2)
  BY ListingHasAll
<1>4. \A k \in keys : k \in keys2 /\ configs2[k] = configs[k]
  BY <1>1, RecordsStay DEF ListedKeys
<1> HIDE DEF all, all2, keys, keys2
<1>5. ToSet(all) \subseteq ToSet(all2)
  BY <1>3, <1>4 DEF Listing, ToSet
<1>6. list_player_configs(r, t)' = all2
  <2>1. Len(all2) \in Nat /\ Len(all2) <= MAX_PLAYER_CONFIGS_LIST
    BY <1>2, <1>3 DEF Listing
  <2>2. ~(Len(all2) > MAX_PLAYER_CONFIGS_LIST)
    BY <2>1, LimitAssumption
  <2>3. list_player_configs(r, t)' =
            IF Len(all2) > MAX_PLAYER_CONFIGS_LIST
            THEN SubSeq(all2, 1, MAX_PLAYER_CONFIGS_LIST) ELSE all2
    BY <1>2 DEF list_player_configs
  <2> QED
    BY <2>2, <2>3
<1>7. cut = IF Len(all) > MAX_PLAYER_CONFIGS_LIST
            THEN SubSeq(all, 1, MAX_PLAYER_CONFIGS_LIST) ELSE all
  BY <1>2 DEF list_player_configs
<1>8. ToSet(cut) \subseteq ToSet(all)
  <2> HIDE DEF cut
  <2>1. CASE Len(all) > MAX_PLAYER_CONFIGS_LIST
    <3>1. /\ Len(all) \in Nat
          /\ DOMAIN all = 1 .. Len(all)
      BY <1>3 DEF Listing
    <3>2. cut = [i \in 1 .. MAX_PLAYER_CONFIGS_LIST |-> all[i]]
      BY <1>7, <2>1, <3>1, LimitAssumption
    <3> QED
      BY <2>1, <3>1, <3>2, LimitAssumption DEF ToSet
  <2>2. CASE ~(Len(all) > MAX_PLAYER_CONFIGS_LIST)
    BY <1>7, <2>2
  <2> QED
    BY <2>1, <2>2
<1> QED
  BY <1>5, <1>6, <1>8

\* Until the program is switched, a round that is public stays public and every
\* record listed for it stays listed as it was, whoever calls, whatever fails
\* or is upgraded, as long as the listing is within its limit.
THEOREM ListingsGrow == CanisterSpec => ListingsOnlyGrow
<1> DEFINE Grows ==
        ~SwitchProgram => \A t \in Tiers, r \in RoundIds :
          /\ is_revealed(t, r) => is_revealed(t, r)'
          /\ Len(list_player_configs_internal(r, t)') <= MAX_PLAYER_CONFIGS_LIST =>
                ToSet(list_player_configs(r, t)) \subseteq
                    ToSet(list_player_configs(r, t)')
<1>1. ASSUME RunnerInv, CanisterTypeOK, [CanisterNext]_canisterVars
      PROVE  [Grows]_canisterVars
  <2> SUFFICES ASSUME ~SwitchProgram, NEW t \in Tiers, NEW r \in RoundIds
               PROVE  /\ is_revealed(t, r) => is_revealed(t, r)'
                      /\ Len(list_player_configs_internal(r, t)')
                            <= MAX_PLAYER_CONFIGS_LIST =>
                          ToSet(list_player_configs(r, t)) \subseteq
                              ToSet(list_player_configs(r, t)')
    OBVIOUS
  <2>1. [RunnerNext]_vars
    BY <1>1, SeedStep DEF canisterVars, vars
  <2>2. is_revealed(t, r) => is_revealed(t, r)'
    BY <1>1, <2>1, ProofStays DEF is_revealed, Revealed
  <2> QED
    BY <1>1, <2>2, ListingGrows
<1> QED
  BY <1>1, RunnerInvariantOfCanister, CanisterTypesCorrect, PTL
     DEF CanisterSpec, ListingsOnlyGrow

=============================================================================
