# Verification of the orbs_backend canister

TLA+ models of the `orbs_backend` canister (`src/src/orbs_backend`), the TLC
runs that check them on small instances, and TLAPS proofs of the results that
matter most. Paths below are relative to `src/src/orbs_backend/src/` unless
they start with `docs/` or `scripts/`.

## 1. The system

The canister is a randomness oracle and the archive of a game. Seeds are
generated fifty at a time (a *chunk*): a random master value is drawn, seeds are
derived from it, their Merkle root is signed with threshold ECDSA, and the seed
of each round is revealed later, in order, with a proof. All state is in stable
memory and survives upgrades. All updates are reserved to admins.

A canister runs one message at a time. An update that awaits a
management-canister call is cut at the await: what it wrote before stays, other
messages run, and it resumes with whatever state it finds. This is the only
concurrency of the system, and only chunk generation (two awaits, `raw_rand` and
`sign_with_ecdsa`) and `init_pubkey` (one) have it.

| Component | State | Operations that change it | What is hard | What makes it correct |
|---|---|---|---|---|
| Seed revelation, `seeds/reveal.rs` | `SEED_CHUNKS` (CURRENT), `SEED_CHUNKS_NEXT` (NEXT), `CHUNK_OFFSETS`, `LAST_SETTLED_ROUNDS`, `REVEALED_SEEDS` | `reveal_seed`, `refresh_chunks_for_tier`, `set_chunk_offset`, `set_last_settled_round`, `clear_revealed_seed` | checks made before an await and relied on after it; publication before the last awaits; round 0; a counter and a round number that must agree | proofs belong to their rounds, are unique, immutable and in order; one root per chunk; player seeds are stable; every round is revealed in the end |
| Chunk generation, `seeds/chunks.rs` | none of its own | `generate_seed_chunk` | failure at either await; padding of the tree | a proof verifies for its seed, round and tier and for nothing else |
| Round history, `game/rounds.rs` | `ROUND_SNAPSHOTS`, `ROUND_HISTORY_ENTRIES`, `PLAYER_ROUND_REFS` | `store_round_snapshot`, `update_round_config_version` | batches lost, repeated, reordered, contradicting each other | snapshots merge and only grow; the three maps agree |
| Engine configurations, `game/engine_config.rs` | `ENGINE_CONFIGS`, `CURRENT_CONFIG_VERSION` | add, update, set current | the version in force changes while a round is delivered | a round keeps the config version it was first stored under |
| Clearing and migration, `admin/data.rs`, `lib.rs` | all of the above, and the player registry | `clear_all_data`, `post_upgrade` | a suspended reveal outlives the clearing; every seed map has to be cleared | nothing already public is reused; the next program starts like a new canister |
| Player configs, `game/player_config.rs` | `PLAYER_CONFIGS` | `set_player_config` | private until the round is revealed; sent again after a lost answer; a listing has a limit; clearing | written once, listed as written, and the result of a game on the seed that is revealed |
| Join data, `game/join_data.rs` | `PLAYER_JOIN_DATA` | `store_player_join_data` | the seed a game is played on is read before the revelation, the result stored after any number of other steps | a replay from the public proof gives the recorded result |
| Player registry, `game/players.rs` | `PLAYERS` | `add_players` | paging through a list that grows | a reader misses nobody |
| Admin, `admin/core.rs`, `crypto/address.rs` | `ADMINS`, `PUBKEY_CELL` | `init`, `set_admin`, `init_pubkey` | check, await, set | the key verifiers are given never changes |

How they interact: reading a player's seed before the revelation
(`get_player_round_seed`) goes through the two slots of seed revelation, and the
game played on it comes back as join data (v1 rounds) or a player config (v2);
player configs become public when `REVEALED_SEEDS` has the round; a snapshot
pins the config version in force when it is created; `clear_all_data` empties
the seed maps, the round maps and the registry together but leaves engine
configurations, player configs, join data, admins and the key alone; an upgrade
drops every suspended call and runs the migration with the upgrader's rights.
The engine-runner (which asks for reveals and reports results) and the
matrix-worker (which reads player seeds and stores results) are other programs:
the models say what is assumed of them.

## 2. The modules

| Module | Models | Extends |
|---|---|---|
| `SeedReveal` | seed revelation and chunk generation, cut at every await; admin recovery | |
| `EngineRunner` | the same, driven by one caller per tier; fairness; the inductive invariant; the refinement mapping | `SeedReveal` |
| `SeedOracle` | the abstract promise: a chunk is bound to one random value, then its rounds are published in order | |
| `JoinData` | join data, its validation, the seed of a player's game | `SeedReveal` |
| `PlayerConfigs` | player configs and their listings | `JoinData`, `KeyOrder` |
| `Admin` | admins, `init_pubkey`, who may upgrade | |
| `Canister` | runner, workers, admins, upgrades and clearing on one canister | `EngineRunner`, `PlayerConfigs`, `Admin` |
| `EngineConfigs` | configurations and the version in force | |
| `Paging` | the page cut by every paged query | |
| `KeyOrder` | the order of keys in a StableBTreeMap, which all listings are in | |
| `PlayerRegistry` | registered players | `Paging`, `KeyOrder` |
| `RoundHistory` | snapshots, history entries, player references | `EngineConfigs`, `PlayerRegistry` |
| `ResultDelivery` | `RoundHistory` under a caller that repeats and reorders batches, and a reader | `RoundHistory` |
| `MerkleTree` | the tree of a chunk, its proofs and a verifier's walk | |
| `MCSeedReveal`, `MCEngineRunner`, `MCCanister`, `MCResultDelivery` | small instances for TLC | |
| `SeedReveal_proof`, `EngineRunner_proof`, `Canister_proof`, `ResultDelivery_proof`, `MerkleTree_proof` | the theorems | the module they are named after |
| `DataLemmas` | induction over the naturals, existence of what a recursive function computes, keys in order; used by the last three | `KeyOrder` |
| `SeedCounter_proof` | that the counter covers overlapping reveals | `SeedReveal_proof` |
| `SeedOracle_proof` | that `EngineRunner` implements `SeedOracle` | `EngineRunner_proof` |

### SeedReveal

A chunk is its `chunk_id` and its random `master`; a seed is a master and an
offset; a proof is a chunk and an offset. Seed derivation, hashes and signatures
are functions of these. That two draws of `raw_rand` never coincide is modelled
by drawing a master that is not stored or travelling anywhere (`MastersInUse`).
`calls[c]` is the suspended future of an update call: which of the two
management calls it awaits, in which place of the code (`phase`), and its locals.

| Action | Code, as one atomic step |
|---|---|
| `reveal_seed` | `reveal_seed` from its start to its first await: refused and already-revealed rounds change nothing and are no step; if CURRENT is the right chunk, the round is published, the slots maintained and the call cut at the prefetch |
| `raw_rand_reply` | `generate_seed_chunk` between its awaits |
| `ensure_chunk_signed` | the end of `generate_chunk` (CURRENT is overwritten without a look) and all of `reveal_seed` after it, up to the next await |
| `boundary_signed` | the cold boundary: store NEXT unless present, promote, ask for the one after |
| `prefetch_signed` | the end of `ensure_next_chunk` |
| `call_failed` | an error of either management call, at any phase |
| `upgrade` | stable maps stay, suspended calls are gone |
| `refresh_chunks_for_tier`, `refresh_signed`, `set_chunk_offset`, `set_last_settled_round`, `clear_revealed_seed`, `clear_all_data` | admin recovery |

The u64 arithmetic wraps at `U64`, as the release build does (the profile has no
overflow checks); round 0 is therefore an input like any other. Its offset is
`(2^64 - 1) % 50`; the runs use a `U64` that is not a multiple of `CHUNK_SIZE`
so that it falls inside the chunk as it does there.

`RevealSpec` has reveals, failures and upgrades only. `Spec` adds admin recovery
with any arguments, at any time.

### EngineRunner

`RunnerSpec` restricts `SeedReveal` to what the comments at `seeds/reveal.rs:136-139`
say of the engine-runner: it asks for the next round of every tier at every
settlement. The model lets it have one call per tier in flight and never ask for
round 0. Calls still fail at each await and the canister is still upgraded under
them. The two halves of the picture belong together: `RunnerSpec` shows what the
canister guarantees to a serial caller, the violation runs show which of the
documented guarantees it does not give to callers whose reveals overlap.

A call may publish its round and fail afterwards. Its retry is then answered with
success from `REVEALED_SEEDS`, whatever the slots hold. That answer changes
nothing, so it is a condition (`answered_again`) and not a step, and the two
claims about the seed of the next round are kept apart: `SeedReadyAfterReveal` is
about the call that publishes and is itself answered with success, and holds;
`SeamlessAcrossBoundaries` is the claim of the documentation, is about the retry
too, and is refuted by `cold_boundary`.

### SeedOracle

Two variables: the master a chunk is bound to and the last round settled. A
binding is written once, with a master no other chunk has, at most one chunk
ahead; rounds are settled in order, each from a bound chunk. `ImplementsOracle`
maps `SeedReveal` to it: the binding of a chunk is what CURRENT or NEXT holds or
what its published proofs carry. It is the statement that a regenerated chunk
never changes a seed that anyone has seen.

### Canister, PlayerConfigs, JoinData, Admin

`Canister` puts all callers of the seed maps on one canister:

| Action | Code or caller |
|---|---|
| `Reveal` | the engine-runner's reveals, once it is an admin, with all their steps and failures |
| `StartGame` | a worker reads `get_player_round_seed` and lets a player play on it |
| `SubmitConfig`, `SubmitJoinData` | it sends what came out to `set_player_config` or `store_player_join_data`, and may send again, with another preset too (the outcome is that of the game) |
| `Administer` | `set_admin`; `init_pubkey` up to its await, its answer, its failure |
| `Upgrade` | `post_upgrade`: refused to anybody but an admin, drops suspended calls of both kinds |
| `SwitchProgram` | `clear_all_data` for another Solana program |

An outcome (spawn, rotation, allocation) is known by the seed of its game: two
games on different seeds end differently, so that `ReplayMatches` can ask
whether a recorded result is the one a replay from the public proof gives.
`games` is the workers' own state, not the canister's. `now` only tells what was
stored before a clearing from what was stored after it. Hashes are numbers in
key order because listings are in that order and cut at a limit. Positions are
three values, since the code refuses `dist_sq > 1.0` and NaN is not greater than
anything. Skill points keep their width.

Every update that changes state is refused to the anonymous principal and to
whoever is no admin (`Authorised`). Runner and workers call as one principal,
`Service`, which may be among the admins the canister is installed with or be made
one later; until then the calls of both are refused. Administration, upgrades and
clearing come from any principal that passes.

Assumed of the other programs: reveals of a tier are serial (as in
`EngineRunner`), a commitment hash belongs to one game, and runner and workers
are stopped while an admin clears. Answers may be lost, calls may fail, and
upgrades come at any time.

### RoundHistory, EngineConfigs, PlayerRegistry, Paging, ResultDelivery

`store_round_snapshot` is one atomic call that writes three maps, and one action.
A player's placement, kills and payouts are one model value, so that two reports
can contradict each other. `ResultDelivery` sends any batch of any round, any
number of times, in any order, each with any of the round's `Reports`: season,
emission mark and signature are arguments the code takes independently, and in
the run an emission comes with a signature and without one, a signature without an
emission, and batches of one round with two seasons. The batches are chosen so that they overlap and
contradict each other, tie on the join time and arrive out of its order, and one
has a record that cannot be converted, which refuses the whole call. A reader
walks through a history, the snapshots of a tier or the players page by page
while all this goes on (`StartWalk`, `NextPage`, `EndWalk`); clearing the
canister ends the walk. `Paging` keeps the width of `usize`.
`PublishConfig` is `scripts/push-config.ts`, with its fallback from adding a
version to updating it. Repairs, the migration of `post_upgrade` and
`clear_all_data` are in `RepairSpec`.

### MerkleTree

SHA-256 is a free constructor, so hashes are equal only if built from equal
parts. The behaviour is a verifier's walk over one proof (the one of
`test_merkle_proof_verification`); the initial states are all claims (seed,
round, tier, leaf). `Path` halves the index layer by layer, as the loop of
`generate_merkle_proof` does. `Subtree` is a second definition of the tree, by
halving, that the layered construction is compared with.

## 3. The runs

| Run | Specification, bounds | States | Question |
|---|---|---|---|
| `interleaved` | `RevealSpec`, 2 calls, 4 rounds, chunks of 2 | 2991 | what holds however reveals overlap; does the first of two prefetches stay |
| `recovery` | `Spec`, 2 calls, 3 rounds, chunks of 2 | 511170 | can any repair make a seed be used twice |
| `runner` | `FairRunnerSpec`, 8 rounds, chunks of 3 | 4340 | the guarantees to a serial caller, progress included |
| `oracle` | `RunnerSpec`, 2 tiers, 4 rounds, chunks of 2 | 361 | the inductive invariant and the refinement |
| `canister` | `CanisterSpec`, 1 tier, 3 rounds, chunks of 2, 2 games, listings of 1, 1 clearing, 3 principals, 2 key calls | 344630 | do recorded results replay, listings grow, the key stay, through failures, upgrades and a switch of program |
| `delivery` | `RepairSpec`, 2 rounds, 3 players, 2 versions, 4 reports of one round, pages of 1, one reader | 391746 | do batches merge, histories agree, versions stay pinned, readers miss nothing |
| `merkle` | 11 seeds padded to 16, 2 tiers, 3 chunks | 39930 | is the genuine claim the only one accepted |

`delivery` also checks that the canister can always go on (deadlock); the other
specifications stop at their bounds.

Why the bounds are enough: the round arithmetic depends on the position in a
chunk and on the chunk before and after it. Two chunks and a half (`runner`:
8 rounds of 3) have a first round, an inner round, a last round, a boundary with
NEXT warm, one with NEXT cold and one after a failed boundary. Two overlapping
calls are enough for every check-await-act race on one tier. Tiers share nothing
but the suspended calls, which `oracle` checks with two. `MaxReveals` bounds the
counter and cuts no behaviour of a serial caller: there the counter is the last
settled round. In `dup_wedge` it is out of reach too: two calls publish each of
three rounds twice at most, and a reveal may start as long as the counter is below
7. In `recovery` it cuts longer histories, and the theorem
`SeedsAreUnique` covers them. `canister` has one call, since its reveals are
serial, and the two calls of `init_pubkey` that its check-await-set race needs.
Three rounds of chunks of two cross a boundary, so that a game is played on a
seed from NEXT and its chunk is promoted, or the reveal fails, before the result
comes in; the first round is played with join data, the others with player
configs. Two hashes and a limit of one reach the case beyond the limit, and one
clearing has a before and an after. In `delivery` a page holds one entry, so that
every walk of two entries is cut in the middle. The number of masters is the number of chunks and
calls alive at once. Symmetric calls, masters and tiers are reduced only in runs
without liveness.

Runs that show a disagreement between code and documentation (each is an entry
under `findings` in PROJECT.json, with the line quoted):

| Run | What TLC finds |
|---|---|
| `dup_proof` | two overlapping first reveals of a round return different proofs, and the second replaces the first |
| `dup_wedge` | a late duplicate moves the settled round back; no round is accepted any more |
| `cold_boundary` | after a boundary that failed, the retry of its round is answered with success while no slot has the seed of the next round |
| `round_zero` | the proof for round 0 carries the seed of a later round |
| `survives_clear` | player configs stored for one program are listed with the rounds of the next |

`dup_proof`, `dup_wedge` and `round_zero` need overlapping reveals of one tier,
or round 0. A caller that serialises its calls and starts at round 1 meets none
of these three: that is what `runner` and the theorems show. `cold_boundary`
happens to a serial caller too. It takes the prefetches of a chunk and the boundary
call to fail; the round that follows is then still revealed, but its seed does not
exist before the call that reveals it.

Some comments are narrower than the code and are modelled as the code is: the
stored offset is a running total and never wraps (`seeds/reveal.rs:246` says it
does); CURRENT is generated inline after a failed boundary too, and not only at
the first reveal (`:400-402`); the batch that creates a snapshot is stored
without deduplication (`game/rounds.rs:72`), so `BatchesMerge` is stated for
batches that name a player once. `docs/ICP_ORBS_WHITEPAPER.md:104` hashes a
`season_id` into every leaf; the code removed it (`seeds/reveal.rs:14`), and
`compute_leaf_hash` is modelled without it: no run is spent on a stale formula.
`game/engine_config.rs:4` and `docs/ICP_ORBS_WHITEPAPER.md:243` say that a config
cannot be modified once added; `update_engine_config` replaces it unconditionally,
and `scripts/push-config.ts:75-78` falls back to it. A stored round therefore keeps
its version (`ConfigPinned`) and not what the version means.

## 4. Fairness

`EveryRoundRevealed` in `runner` assumes: the runner keeps asking for the next round while it may
(weak fairness: the settlement of a round repeats the call until it is
answered), and a management call that is made again and again is answered in the
end, each of the two (strong fairness: any finite number of failures and
upgrades may come before). Nothing is assumed about how long a call takes, about
the order of answers of different tiers, or that upgrades stop. `dup_wedge`
assumes the same of overlapping callers, so that its counterexample is not a
system that merely stopped.

## 5. The proofs

`tlapm` checks every proof. What is assumed of the constants is named in the
module that declares them, and TLC evaluates all of it:

| Assumption | Says |
|---|---|
| `ConstAssumption`, `NoneAssumption` | chunk size and word size are positive, round ids fit the word; an absent entry is not a value |
| `LastRoundAssumption` | there is a last round id, as u64 has one (refinement only) |
| `GameAssumption`, `PresetAssumption`, `WidthAssumption`, `PrincipalAssumption` | hashes are spoken for, outcomes are known by their seeds, `Service` is a principal; types of arguments |
| `HashAssumption`, `PlayersAssumption` | hashes and player keys are finitely many numbers, as values of 32 bytes are |
| `LimitAssumption`, `PagingAssumption` | the limit on a listing is a number; a page is shorter than a `usize` counts |
| `VersionAssumption`, `RecordAssumption` | the default is a version; keys are pairs of numbers and finitely many; the migrated round is one of them |
| `BatchAssumption` | a batch is a sequence, and what it says of a player with a valid key is a result; reports have the types of the arguments |
| `ReaderAssumption` | a reader asks for no more than a page holds, of a list there is |
| `MerkleAssumption` | a chunk has a seed at least |

Nothing is assumed about the number of tiers, calls, masters, rounds or batches,
or about the size of a chunk. Two theorems about deliveries have a hypothesis
beside these, stated in them: `OncePerBatch` (no single batch names a player
twice; the batch that creates a snapshot is stored without deduplication, so
without it the claim is false) and `ListsFitMemory` (fewer rounds and players
than a `usize` counts; beyond that the cast at `game/rounds.rs:137` would start a
reader over). Both hold of the `delivery` instance.

**Induction over data.** The functions of the models that go through a list or
up the layers of a tree are recursive functions on an interval of the naturals.
`DataLemmas` proves what is needed to reason about them: a set of naturals that
is not empty has a least element (`LeastNatural`, from the well-foundedness of
`<`), hence a set that has 0 and is closed under successor has every natural
(`Induction`, `InductionUpTo`), hence a function defined step by step exists
(`RecursionExists`), so that the `CHOOSE` its definition stands for has the
value the definition says. An induction is then a set `T` of the naturals up to
a bound, shown to have 0 and every successor. The order of keys
(`in_key_order`) exists because the place of a key is the number of keys up to
it (`Places`, `OrderExists`); every key is in it (`OrderPlaces`) and moves to a
later place at most when keys are added (`PlacesGrow`).

**For every caller and every repair** (`SeedReveal_proof`):

- `TypeCorrect`: `Spec => []TypeOK`.
- `ProofsBindTheirRound`: `Spec => []ProofBinding`. The invariant is
  strengthened by `WantsItsChunk`: a call suspended for CURRENT wants the chunk
  of its round. It suffices because the offset is computed from the round and
  not from the counter, so no repair of the counter matters.
- `SeedsAreUnique`: `Spec => []SeedsUnique`. The strengthening says that a
  master stands for one chunk of one tier wherever it appears: in either slot, a
  proof or a suspended call. It holds because every chunk a step leaves anywhere
  was somewhere before, except the one whose master was just drawn.
- `RoundsRevealedInOrder`: `RevealSpec => []RevealedInOrder`. The check is
  made before the await and not repeated; it is enough, because the predecessor of
  an awaited round stays public and nothing withdraws it.
- `PrefetchNeverReplaced`: `Spec => PrefetchKept`. The slot is looked at
  again after the prefetch is signed (`next_after_await`); every other step keeps
  NEXT or empties it (`NextKeptOrOther`).

**For reveals that overlap** (`SeedCounter_proof`): `CounterCoversReveals`,
`RevealSpec => []OffsetCoversReveals`, for any number of calls in flight. Its
hypothesis `WordIsLarge` is that the word is larger than `MaxReveals`, up to which
reveals start, plus the calls in flight; a u64 is. The bound alone does not keep
the counter from wrapping: calls that passed the check below it may all publish
later. `CountInv` says so: what is public is at most what is counted, and what is
counted plus the calls still awaiting CURRENT is at most the bound plus the calls.
A publication adds one round at most and counts one (`PublishCounts`); every other
step adds no call that awaits CURRENT (`NoneJoins`, `FewerAwait`).

**For a serial caller** (`EngineRunner_proof`), all from `RunnerInv`:

- `RunnerInv` relates the counter, the settled round, the public rounds, the
  two slots and the suspended call. The properties alone are not inductive: that
  one root covers a chunk depends on CURRENT being the chunk of the last settled
  round or, once that is used up, the next one (`CurrentFollowsSettled`), on
  NEXT being one ahead and empty while CURRENT is used up (`NextIsOneAhead`), on
  CURRENT having the master of the proofs already published from it
  (`ProofsAgree`), and on a suspended call wanting what its phase says
  (`CallsAreSerial`). Every reveal changes one tier, so the invariant is restated
  tier by tier (`InvByTier`) and a step proved once for the tier it changes
  (`OneTierStep`); publishing from CURRENT and from a fresh chunk is one lemma
  (`PublishFits`), the three ways to go on another (`SlotsAfter`).
- Its consequences: `CounterNeedsNoRepair`, `NoGapsNoExtras`, `OneRootEver`,
  `NextIsAhead`, `MidChunkSeedReady`; with `SeedsAreUnique`'s invariant beside it,
  `NoSeedAhead`.
- Action properties: `ProofsNeverChange`, `RoundsSettleByOne`,
  `PlayerSeedNeverChanges`. They rest on `StepEffect`: a step keeps a tier,
  publishes its next round, prefetches its NEXT or replaces its used-up CURRENT.
- `NextSeedAfterReveal`: a reveal that publishes and succeeds ends in a step that either
  publishes inside a chunk (`ReturnsMidChunk`) or ends a prefetch, and a prefetch
  at the end of a chunk starts only once CURRENT has been replaced.

**The refinement** (`SeedOracle_proof`): `OracleImplemented`, `RunnerSpec =>
ImplementsOracle`. What a chunk is bound to is spread over two slots and the
published proofs. `OneMaster` shows that all of them agree under `RunnerInv`, so
that `bound_master`, which chooses one, says what is stored (`BoundMaster`).
`StepMoves` sorts the steps: a step leaves all tiers alone, or moves one by
publishing its next round, filling its NEXT or replacing its used-up CURRENT.
`MoveStores` shows that a move stores its chunk and loses nothing: a CURRENT that
goes has the proof of the last settled round (`UsedUpIsProved`). `NewIsUnbound`
shows that a freshly signed chunk is of an id nothing was stored of, and, by the
invariant of `SeedsAreUnique`, of a master no other chunk has. So publishing from
CURRENT is `Reveal`, publishing from a fresh chunk `CommitAndReveal`, filling and
replacing `Commit`, and everything else a stutter.

**For the whole canister** (`Canister_proof`), under `CanisterSpec`:

- `RunnerInvariantOfCanister`: `RunnerInv` holds through clearings. Every step is
  a step of the runner or leaves the seed maps alone, but for the clearing, which
  leaves them as they are on a new canister (`ClearedIsNew`); the theorems above
  therefore hold for every program the canister serves in turn.
- `ReplaysMatch`: `ReplayMatches`. The invariant `PlayInv` says that every open
  game and every record of this program is played on a seed that *follows* its
  round: the one published or, before that, the one read from the slots. That a
  seed goes on following its round in every step (`FollowsOn`) is
  `PlayerSeedNeverChanges` once more; records of an earlier program are dated
  before the clearing.
- `PubkeyNeverChanges`: `PubkeyStable`. The cell only ever holds the key of the
  path chunks are signed with (`OneKey`), so a second `init_pubkey` that resumes
  late overwrites it with itself.
- `CanisterTypesCorrect`: `CanisterTypeOK`.
- `ListingsGrow`: `ListingsOnlyGrow`. A record is written once (`RecordsStay`), a
  listing has the record of every key of its round and no other
  (`ListingHasAll`), and a proof that is public stays public
  (`ProofsNeverChange` in every step but the clearing).

**For deliveries** (`ResultDelivery_proof`), under `RepairSpec`, from two
inductive invariants.

`PinInv`: stored snapshots have all fields, and the version in force is uploaded
or the default.

- `RoundsStayPinned`: `ConfigPinned`, whichever versions come into force between
  the batches of a round.
- `PinsAreUploaded`: `PinnedOrDefault`. It rests on configurations never being
  deleted, by a clearing neither.

`DeliveryInv` says how the stored maps follow from what was delivered
(`StoreInv`) and where a reader is (`WalkOn`). The properties alone are not
inductive. That a player has at most one reference to a round depends on
references pointing only to stored rounds and to the *first* record of the
player there (`RefsFollow`): a later batch drops a second record and a second
reference by separate tests, and only this makes both keep the same one. That a
snapshot has what was sent depends on the empty set of deliveries being the same
as no snapshot (`SnapshotFollows`).

- `TypesStored`: `TypeOK`.
- `BatchesAreMerged`: `OncePerBatch => BatchesMerge`. Appending a batch is an
  induction over it (`AppendSteps`, `AppendEffect`): it keeps what is there as a
  prefix, adds only records of the batch, adds every player of it, and adds no
  player twice.
- `HistoryFollows`: `HistoryInStep`, without any hypothesis on the batches. The
  references after a batch are another induction (`RefsEffect`), each step of
  which inserts one reference behind the later ones (`AddRefEffect`,
  `Insertion`).
- `SnapshotsGrow`: `SnapshotOnlyGrows`, whatever is reported: nothing ties an
  emission to its signature, so each is merged, and kept, by itself.
- `HistoryIsComplete`: `ListsFitMemory => HistoryComplete`. Every reference has
  its history entry, so that leaving out those without one leaves out none
  (`AllWithEntry`), and a page is a cut of the list (`PageCut`).
- `WalksMissNothing`: `ListsFitMemory => WalkMissesNothing`. What a reader has
  not seen is at or after the offset the reader is at (`WalkOn`); every list a
  step may change keeps its entries at their place or a later one (`ListsGrow`,
  for references by `Insertion`, for keys by `PlacesGrow`), and a page takes
  away what it shows (`ReadShows`). The reader stops at the total that came with
  the page, when nothing is left.

**For the tree of a chunk** (`MerkleTree_proof`), for every chunk size: the runs
have 11 seeds, the code has 50.

- `OnlyGenuineAccepted`: `AcceptedIffGenuine`. The invariant `WalkInv` says that
  the hash computed so far is the node above the offset exactly if the claim is
  genuine. A step combines both with the same sibling on the same side
  (`WalkUp`), and a parent has only one pair of children. It rests on the shape of
  the tree: powers of two grow past every size (`PowersGrow`), so that the least
  one that the leaves fit exists (`HeightFits`); every layer is half as wide as
  the one below (`LayerWidths`); and the path of a leaf stays inside every layer
  (`PathPlaces`), so that every node but the root has a sibling
  (`EntryIsSibling`) and the `unwrap_or` and `if let` of the code never take
  their other branch.
- `GenuineWalkClimbs`: `WalkClimbsTree`, from `GroupsAreNodes`: bottom-up and
  top-down give the same hashes.
- `FlagsSpellOffset`: `PositionsSpellOffset`. What the flags add up to and what
  the path has still to climb are together the offset (`FlagsSpell`).

**Only model-checked**: liveness (`EveryRoundRevealed`), because it needs fairness
and ENABLED. Every other property of a passing run is stated by a theorem. The
properties of the five runs that show a disagreement are refuted, not proved.

## 6. What is left out

- Contents: seed bytes, hashes, signatures, CBOR, Solana addresses, Candid types.
- Error texts, and queries that only copy a value (`get_current_config_version`,
  `get_chunk_offset` and the like).
- The order of version strings (`get_latest_engine_config_version` returns the
  lexicographically last one): nothing in the canister acts on it.
- `update_round_config_version` takes up to 32 characters and does not look the
  version up, while configs are keyed by 16 bytes: versions are values of at most
  16, and the properties about pinned versions exclude repairs.
- A NaN position is accepted, as in the code; no property depends on it, because
  nothing in the canister computes with a stored position.
- A suspended reveal that outlives a clearing is in `recovery`, where only the
  reuse of seeds is asked about; `canister` assumes that nothing is suspended
  while an admin clears.
- `clear_all_data` in one module and another: `SeedReveal` has its seed maps,
  `RoundHistory` its round maps and the registry. The two families of maps share
  no variable and no property, so no module composes them.
- Traps after an await behave like an error at that await (`call_failed`): the
  code after the last await of a step cannot trap half way, since the runtime
  rolls the step back.
- Cycles and memory limits, and the command-line handling of the scripts.

## 7. Plan

Done, in this order: `SeedReveal` with its runs, `EngineRunner`, `SeedOracle`,
`EngineConfigs`, `RoundHistory`, `ResultDelivery`, `MerkleTree`, the first two
proof modules; then `Paging`, `PlayerRegistry`, the reader's walk, `JoinData`,
`PlayerConfigs`, `Admin` and `Canister`, and the proofs about the canister, the
refinement, the pinned versions and the counter.

Then the proofs of what is stored and read back: `ResultDelivery` under every
batch, repair and clearing, the listings of the canister, and the Merkle tree for
every chunk size, with `KeyOrder` and `DataLemmas`.

What is left:

1. A clearing while a reveal is suspended, with what the resumed reveal leaves in
   the cleared maps as a property.
2. The order of version strings.
