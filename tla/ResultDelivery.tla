--------------------------- MODULE ResultDelivery ---------------------------
(***************************************************************************)
(* RoundHistory as its caller uses it.  The caller (not part of this       *)
(* repository) reports the results of a round in batches.  It cannot tell  *)
(* a lost call from a lost answer, so it may send a batch again, in any    *)
(* order and interleaved with other rounds; meanwhile the config version   *)
(* in force may change, players are registered, a reader pages through one *)
(* of the lists, and an admin may repair or clear.                         *)
(***************************************************************************)
EXTENDS RoundHistory

CONSTANTS
    Batches,  \* Batches[k]: the batches of round k, sequences of PlayerResult
    Reports,  \* Reports[k]: what else may come with a batch of round k
    Signups,  \* the batches of players to register
    Lists,    \* what is read page by page: <<"history", player>>,
              \* <<"snapshots", tier>> or <<"players">>
    PageSize

\* The arguments of a call that are about the round and not about a player.
\* Nothing in the code ties them to each other or to those of other calls: an
\* emission may come without its signature, and batches of one round with
\* different seasons.
Report == [season_id : Seasons, did_emit : BOOLEAN, emit_tx_sig : Sigs \cup {None}]

(* What is sent for a player whose key can be converted is a result. *)
ASSUME BatchAssumption ==
    \A k \in Keys :
        /\ Reports[k] \subseteq Report
        /\ \A b \in Batches[k] :
              /\ b \in Seq(Range(b))
              /\ {rec \in Range(b) : rec.player \in Players} \subseteq PlayerResult

(* A reader asks for no more than a page holds, and for lists there are. *)
ASSUME ReaderAssumption ==
    /\ PageSize \in 1 .. MAX_PAGE_LIMIT
    /\ \A list \in Lists : \/ list[1] = "history" /\ list[2] \in Players
                           \/ list[1] \in {"snapshots", "players"}

VARIABLES
    delivered, \* the batches of each round that have been stored
    walk       \* how far a reader is: the list, the next offset, the entries
               \* there from the start and not seen yet, whether at the end

vars == <<historyVars, delivered, walk>>

Init ==
    /\ HistoryInit
    /\ delivered = [k \in Keys |-> {}]
    /\ walk = None

\* One page of a list: the total, and what tells its entries apart.
Read(list, offset) ==
    CASE list[1] = "history" ->
            LET got == get_player_round_history(list[2], offset, PageSize)
            IN [total |-> got.total, entries |-> {x.round_key : x \in Range(got.rounds)}]
      [] list[1] = "snapshots" ->
            LET got == get_round_snapshots_by_tier(list[2], offset, PageSize)
            IN [total |-> got.total, entries |-> Range(got.snapshots)]
      [] list[1] = "players" ->
            LET got == get_players(offset, PageSize)
            IN [total |-> got.total, entries |-> Range(got.players)]

\* Everything that is in a list at the moment.
Entries(list) ==
    CASE list[1] = "history" -> {x.round_key : x \in Range(player_round_refs[list[2]])}
      [] list[1] = "snapshots" -> {k \in Keys : k[1] = list[2] /\ round_snapshots[k] # None}
      [] list[1] = "players" -> registered_players

\* A batch of a round, with any of the round's reports.
Deliver(k, b) ==
    /\ \E report \in Reports[k] :
          store_round_snapshot(k, report.season_id, b, report.did_emit,
                               report.emit_tx_sig)
    /\ delivered' = [delivered EXCEPT ![k] = @ \cup {b}]
    /\ UNCHANGED walk

SignUp(batch) ==
    /\ add_players(batch)
    /\ UNCHANGED <<configVars, recordVars, delivered, walk>>

StartWalk(list) ==
    /\ walk = None
    /\ walk' = [list |-> list, offset |-> 0, missing |-> Entries(list), done |-> FALSE]
    /\ UNCHANGED <<historyVars, delivered>>

\* The next page; the reader stops at the total that came with it.
NextPage ==
    /\ walk # None
    /\ ~walk.done
    /\ LET got == Read(walk.list, walk.offset)
       IN walk' = [walk EXCEPT !.offset = @ + PageSize,
                               !.missing = @ \ got.entries,
                               !.done = walk.offset + PageSize >= got.total]
    /\ UNCHANGED <<historyVars, delivered>>

EndWalk ==
    /\ walk # None
    /\ walk.done
    /\ walk' = None
    /\ UNCHANGED <<historyVars, delivered>>

DeliverNext ==
    \/ \E k \in Keys : \E b \in Batches[k] : Deliver(k, b)
    \/ PublishConfig /\ UNCHANGED <<recordVars, registered_players, delivered, walk>>
    \/ \E batch \in Signups : SignUp(batch)
    \/ \E list \in Lists : StartWalk(list)
    \/ NextPage
    \/ EndWalk

RepairNext ==
    \/ /\ \/ \E k \in Keys, v \in Versions : update_round_config_version(k, v)
          \/ post_upgrade
       /\ UNCHANGED <<delivered, walk>>
    \/ /\ clear_all_data
       /\ delivered' = [k \in Keys |-> {}]
       /\ walk' = None

DeliverSpec == Init /\ [][DeliverNext]_vars
RepairSpec == Init /\ [][DeliverNext \/ RepairNext]_vars

-----------------------------------------------------------------------------
(* Properties *)

\* Every record, reference and version is one the code can store.
TypeOK == HistoryTypeOK

Stored(k) == round_snapshots[k] # None

\* Where p has a record in the snapshot of a round, and p's references to it.
RecordsOf(k, p) ==
    {i \in DOMAIN round_snapshots[k].players : round_snapshots[k].players[i].player = p}
RefsTo(k, p) ==
    {i \in DOMAIN player_round_refs[p] : player_round_refs[p][i].round_key = k}

\* All records sent for a round in batches that were stored.
Sent(k) == UNION {Range(b) : b \in delivered[k]}

\* Whatever was sent again, and in whatever order, a snapshot has one record
\* of every player of the batches stored so far, a record that was sent, and
\* of nobody else.
BatchesMerge ==
    \A k \in Keys :
        IF delivered[k] = {} THEN ~Stored(k)
        ELSE /\ Stored(k)
             /\ Range(round_snapshots[k].players) \subseteq Sent(k)
             /\ \A p \in Players :
                   (\E x \in Sent(k) : x.player = p) => Cardinality(RecordsOf(k, p)) = 1

\* A player's history and the snapshot of a round tell one story: the player
\* refers to the round exactly once if the snapshot has a record of the
\* player, with the timestamp and the result of the first one, and not at all
\* otherwise - also when batches disagree about a player.
HistoryInStep ==
    \A k \in Keys, p \in Players :
        IF Stored(k) /\ RecordsOf(k, p) # {}
        THEN \E i \in RecordsOf(k, p), j \in RefsTo(k, p) :
                /\ \A n \in RecordsOf(k, p) : i <= n
                /\ RefsTo(k, p) = {j}
                /\ player_round_refs[p][j] = ref_of(k, round_snapshots[k].players[i])
        ELSE RefsTo(k, p) = {}

\* Paging through a player's history, in pages of any size served, returns
\* every reference that the total counts, most recent first, each with the
\* season its snapshot has.
HistoryComplete ==
    \A p \in Players :
        LET refs == player_round_refs[p]
            got(offset, limit) == get_player_round_history(p, offset, limit)
        IN /\ \A i \in 0 .. Len(refs), size \in 1 .. MAX_PAGE_LIMIT :
                 /\ got(i, size).total = Len(refs)
                 /\ got(i, size).rounds =
                        SubSeq(refs, i + 1, IF i + size <= Len(refs) THEN i + size
                                                                    ELSE Len(refs))
           /\ \A i, j \in DOMAIN refs : i < j => refs[i].join_ts >= refs[j].join_ts
           /\ \A i \in DOMAIN refs :
                 LET k == refs[i].round_key
                 IN Stored(k)
                    /\ round_history_entries[k] = round_snapshots[k].season_id

\* A reader who pages up to the total has seen all that was there when the
\* reading began, although other pages were read before other batches, other
\* players and late results came in: entries may move to a later page, where
\* they are seen again, and never to an earlier one.
WalkMissesNothing == walk # None /\ walk.done => walk.missing = {}

\* A round keeps the config version it was first stored under, although
\* later batches arrive when another version is in force: only a repair
\* changes it.
ConfigPinned ==
    [][~RepairNext => \A k \in Keys : Stored(k) =>
          round_snapshots'[k].config_version
              = round_snapshots[k].config_version]_vars

\* Later batches only add to a snapshot, whatever they report: records stay as
\* and where they are, an emission once recorded stays recorded, a signature
\* is never lost (a later one may replace it), and the season stays the one
\* first reported, which the shared history entry has too (HistoryComplete).
SnapshotOnlyGrows ==
    [][~RepairNext => \A k \in Keys : Stored(k) =>
          /\ IsPrefix(round_snapshots[k].players, round_snapshots'[k].players)
          /\ round_snapshots[k].did_emit => round_snapshots'[k].did_emit
          /\ round_snapshots[k].emit_tx_sig # None =>
                round_snapshots'[k].emit_tx_sig # None
          /\ round_snapshots'[k].season_id = round_snapshots[k].season_id]_vars

\* The version a new round is pinned to is one whose config was uploaded, or
\* the default.
PinnedOrDefault ==
    [][~RepairNext => \A k \in Keys : ~Stored(k) /\ round_snapshots'[k] # None =>
          LET v == round_snapshots'[k].config_version
          IN engine_configs'[v] # None \/ v = DEFAULT_VERSION]_vars

=============================================================================
