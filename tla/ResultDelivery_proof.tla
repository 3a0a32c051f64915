------------------------ MODULE ResultDelivery_proof ------------------------
(***************************************************************************)
(* Proofs for every set of rounds, players, versions and batches, however  *)
(* batches, configuration changes, sign-ups, pages, upgrades, repairs and  *)
(* clearings are interleaved: about the config version a round is pinned   *)
(* to; about what batches leave of a round and of its players' histories;  *)
(* and about a reader who pages through a list that grows.                 *)
(***************************************************************************)
EXTENDS ResultDelivery, DataLemmas, SequenceTheorems, TLAPS

\* The fields of a snapshot.
IsSnapshot(s) ==
    s = [season_id |-> s.season_id, players |-> s.players,
         did_emit |-> s.did_emit, emit_tx_sig |-> s.emit_tx_sig,
         config_version |-> s.config_version]

\* What is stored for a round is a snapshot.
SnapshotsWellFormed ==
    /\ round_snapshots = [k \in Keys |-> round_snapshots[k]]
    /\ \A k \in Keys : Stored(k) => IsSnapshot(round_snapshots[k])

\* The version in force has a config, or is the one the canister starts with,
\* which may have none.
ForceIsUploaded ==
    \/ engine_configs[current_config_version] # None
    \/ current_config_version = DEFAULT_VERSION

PinInv == ConfigTypeOK /\ ForceIsUploaded /\ SnapshotsWellFormed

Next == DeliverNext \/ RepairNext

-----------------------------------------------------------------------------
(* The invariant *)

\* Merging a batch into a snapshot gives a snapshot with the old version; the
\* first batch makes one with the version in force.
LEMMA StoredSnapshot ==
    ASSUME NEW old, old = None \/ IsSnapshot(old), NEW season, NEW batch,
           NEW did_emit, NEW sig
    PROVE  LET new == stored_snapshot(old, season, batch, did_emit, sig)
           IN /\ IsSnapshot(new)
              /\ new.config_version = IF old = None THEN current_config_version
                                                    ELSE old.config_version
<1>1. CASE old = None
  BY <1>1 DEF stored_snapshot, IsSnapshot
<1>2. CASE old # None
  <2> DEFINE merged == append_players(old.players, batch)
             emitted == old.did_emit \/ did_emit
             signed == IF sig = None THEN old.emit_tx_sig ELSE sig
  <2>1. IsSnapshot(old)
    BY <1>2
  <2>2. stored_snapshot(old, season, batch, did_emit, sig) =
            [old EXCEPT !.players = merged, !.did_emit = emitted,
                        !.emit_tx_sig = signed]
    BY <1>2 DEF stored_snapshot
  <2> HIDE DEF merged, emitted, signed
  <2>3. stored_snapshot(old, season, batch, did_emit, sig) =
            [season_id |-> old.season_id, players |-> merged,
             did_emit |-> emitted, emit_tx_sig |-> signed,
             config_version |-> old.config_version]
    BY <2>1, <2>2 DEF IsSnapshot
  <2> QED
    BY <1>2, <2>3 DEF IsSnapshot
<1> QED
  BY <1>1, <1>2

\* What a call of store_round_snapshot does to the snapshots.
LEMMA DeliverEffect ==
    ASSUME PinInv, NEW k \in Keys, NEW b, Deliver(k, b), NEW q \in Keys
    PROVE  /\ round_snapshots' = [j \in Keys |-> round_snapshots'[j]]
           /\ UNCHANGED configVars
           /\ IF q = k
              THEN /\ IsSnapshot(round_snapshots'[q])
                   /\ round_snapshots'[q].config_version =
                         IF Stored(q) THEN round_snapshots[q].config_version
                                      ELSE current_config_version
              ELSE round_snapshots'[q] = round_snapshots[q]
<1>1. PICK season, did_emit, sig : store_round_snapshot(k, season, b, did_emit, sig)
  BY DEF Deliver
<1> DEFINE new == stored_snapshot(round_snapshots[k], season, b, did_emit, sig)
<1>2. round_snapshots' = [round_snapshots EXCEPT ![k] = new] /\ UNCHANGED configVars
  BY <1>1 DEF store_round_snapshot
<1>3. /\ IsSnapshot(new)
      /\ new.config_version = IF Stored(k) THEN round_snapshots[k].config_version
                                           ELSE current_config_version
  BY StoredSnapshot DEF PinInv, SnapshotsWellFormed, Stored
<1> HIDE DEF new
<1> QED
  BY <1>2, <1>3 DEF PinInv, SnapshotsWellFormed

\* Steps that leave the round maps alone.
LEMMA ConfigEffect ==
    ASSUME PinInv, PublishConfig
    PROVE  ConfigTypeOK' /\ ForceIsUploaded'
<1>1. PICK v \in Versions :
         \/ \E json \in Jsons : push_config(v, json)
         \/ set_current_config_version(v)
  BY DEF PublishConfig
<1>2. ASSUME NEW json \in Jsons, push_config(v, json)
      PROVE  ConfigTypeOK' /\ ForceIsUploaded'
  <2>1. /\ engine_configs' = [engine_configs EXCEPT ![v] = json]
        /\ UNCHANGED current_config_version
    BY <1>2 DEF push_config, add_engine_config, update_engine_config
  <2> QED
    BY <2>1, VersionAssumption DEF PinInv, ConfigTypeOK, ForceIsUploaded
<1>3. CASE set_current_config_version(v)
  BY <1>3 DEF PinInv, ConfigTypeOK, ForceIsUploaded, ConfigExists,
              set_current_config_version
<1> QED
  BY <1>1, <1>2, <1>3

\* One step per action.
LEMMA PinStep == PinInv /\ [Next]_vars => PinInv'
<1> SUFFICES ASSUME PinInv, [Next]_vars
             PROVE  PinInv'
  OBVIOUS
<1>1. ASSUME UNCHANGED configVars
      PROVE  ConfigTypeOK' /\ ForceIsUploaded'
  BY <1>1 DEF PinInv, configVars, ConfigTypeOK, ForceIsUploaded
<1>2. ASSUME UNCHANGED round_snapshots
      PROVE  SnapshotsWellFormed'
  BY <1>2 DEF PinInv, SnapshotsWellFormed, Stored, IsSnapshot
<1>3. ASSUME NEW k \in Keys, NEW b, Deliver(k, b)
      PROVE  PinInv'
  <2>1. /\ round_snapshots' = [j \in Keys |-> round_snapshots'[j]]
        /\ UNCHANGED configVars
    BY <1>3, DeliverEffect
  <2>2. ASSUME NEW q \in Keys, round_snapshots'[q] # None
        PROVE  IsSnapshot(round_snapshots'[q])
    BY <1>3, <2>2, DeliverEffect DEF PinInv, SnapshotsWellFormed, Stored
  <2>3. SnapshotsWellFormed'
    BY <2>1, <2>2 DEF SnapshotsWellFormed, Stored, IsSnapshot
  <2> QED
    BY <1>1, <2>1, <2>3 DEF PinInv
<1>4. ASSUME PublishConfig, UNCHANGED recordVars
      PROVE  PinInv'
  BY <1>2, <1>4, ConfigEffect DEF PinInv, recordVars
<1>5. ASSUME UNCHANGED <<configVars, recordVars>>
      PROVE  PinInv'
  BY <1>1, <1>2, <1>5 DEF PinInv, recordVars
<1>6. ASSUME NEW k, NEW v, update_round_config_version(k, v)
      PROVE  PinInv'
  <2>1. /\ round_snapshots' = [round_snapshots EXCEPT ![k].config_version = v]
        /\ UNCHANGED configVars
    BY <1>6 DEF update_round_config_version
  <2>2. ASSUME NEW q \in Keys, round_snapshots'[q] # None
        PROVE  IsSnapshot(round_snapshots'[q])
    <3>1. CASE q # k
      BY <2>1, <2>2, <3>1 DEF PinInv, SnapshotsWellFormed, Stored
    <3>2. CASE q = k
      <4>1. IsSnapshot(round_snapshots[q])
        BY <1>6, <3>2 DEF update_round_config_version, PinInv,
                          SnapshotsWellFormed, Stored
      <4>2. round_snapshots'[q] = [round_snapshots[q] EXCEPT !.config_version = v]
        BY <2>1, <3>2 DEF PinInv, SnapshotsWellFormed
      <4> QED
        BY <4>1, <4>2 DEF IsSnapshot
    <3> QED
      BY <3>1, <3>2
  <2>3. round_snapshots' = [j \in Keys |-> round_snapshots'[j]]
    BY <2>1 DEF PinInv, SnapshotsWellFormed
  <2>4. SnapshotsWellFormed'
    BY <2>2, <2>3 DEF SnapshotsWellFormed, Stored, IsSnapshot
  <2> QED
    BY <1>1, <2>1, <2>4 DEF PinInv
<1>7. CASE clear_all_data
  <2>1. SnapshotsWellFormed'
    BY <1>7 DEF clear_all_data, SnapshotsWellFormed, Stored
  <2> QED
    BY <1>1, <1>7, <2>1 DEF clear_all_data, PinInv
<1>8. CASE UNCHANGED vars
  BY <1>5, <1>8 DEF vars, historyVars
<1>9. ASSUME NEW batch, SignUp(batch)
      PROVE  PinInv'
  BY <1>5, <1>9 DEF SignUp
<1>10. ASSUME UNCHANGED historyVars
       PROVE  PinInv'
  BY <1>5, <1>10 DEF historyVars
<1> QED
  BY <1>3, <1>4, <1>6, <1>7, <1>8, <1>9, <1>10
  DEF Next, DeliverNext, RepairNext, StartWalk, NextPage, EndWalk, post_upgrade

\* The version in force at the start is the default.
LEMMA PinInit == Init => PinInv
BY VersionAssumption
DEF Init, HistoryInit, ConfigInit, PinInv, ConfigTypeOK, ForceIsUploaded,
    SnapshotsWellFormed, Stored

-----------------------------------------------------------------------------
(* What no delivery may do *)

\* What a step that is no repair does to the version of a round.
LEMMA VersionEffect ==
    ASSUME PinInv, [Next]_vars, ~RepairNext, NEW k \in Keys
    PROVE  \/ round_snapshots'[k] = round_snapshots[k]
           \/ /\ UNCHANGED configVars
              /\ round_snapshots'[k].config_version =
                    IF Stored(k) THEN round_snapshots[k].config_version
                                 ELSE current_config_version
<1>1. ASSUME NEW q \in Keys, NEW b, Deliver(q, b)
      PROVE  \/ round_snapshots'[k] = round_snapshots[k]
             \/ /\ UNCHANGED configVars
                /\ round_snapshots'[k].config_version =
                      IF Stored(k) THEN round_snapshots[k].config_version
                                   ELSE current_config_version
  BY <1>1, DeliverEffect
<1>2. CASE UNCHANGED round_snapshots
  BY <1>2
<1>3. \/ \E q \in Keys : \E b \in Batches[q] : Deliver(q, b)
      \/ UNCHANGED round_snapshots
  BY DEF Next, DeliverNext, SignUp, StartWalk, NextPage, EndWalk,
         vars, historyVars, recordVars
<1> QED
  BY <1>1, <1>2, <1>3

\* A round stays pinned to the version it was first stored under, whichever
\* versions come into force while its other batches arrive.
THEOREM RoundsStayPinned == RepairSpec => ConfigPinned
<1>1. PinInv /\ [Next]_vars =>
        [~RepairNext => \A k \in Keys : Stored(k) =>
            round_snapshots'[k].config_version
                = round_snapshots[k].config_version]_vars
  BY VersionEffect
<1> QED
  BY <1>1, PinInit, PinStep, PTL DEF RepairSpec, ConfigPinned, Next

\* A round is never pinned to a version that nobody uploaded a config for, but
\* for the one the canister starts with.
THEOREM PinsAreUploaded == RepairSpec => PinnedOrDefault
<1>1. PinInv /\ [Next]_vars =>
        [~RepairNext => \A k \in Keys : ~Stored(k) /\ round_snapshots'[k] # None =>
            LET v == round_snapshots'[k].config_version
            IN engine_configs'[v] # None \/ v = DEFAULT_VERSION]_vars
  <2> SUFFICES ASSUME PinInv, [Next]_vars, ~RepairNext, NEW k \in Keys,
                      ~Stored(k), round_snapshots'[k] # None
               PROVE  LET v == round_snapshots'[k].config_version
                      IN engine_configs'[v] # None \/ v = DEFAULT_VERSION
    OBVIOUS
  <2>1. /\ UNCHANGED configVars
        /\ round_snapshots'[k].config_version = current_config_version
    BY VersionEffect DEF Stored
  <2> QED
    BY <2>1 DEF PinInv, ForceIsUploaded, configVars
<1> QED
  BY <1>1, PinInit, PinStep, PTL DEF RepairSpec, PinnedOrDefault, Next


-----------------------------------------------------------------------------
(* Merging a batch into the records of a snapshot *)

\* Appending goes through the batch record by record.
LEMMA AppendSteps ==
    ASSUME NEW players \in Seq(PlayerResult), NEW batch \in Seq(PlayerResult)
    PROVE  \E m \in [0 .. Len(batch) -> Seq(PlayerResult)] :
              /\ m[0] = players
              /\ \A n \in 1 .. Len(batch) :
                    m[n] = IF HasPlayer(m[n - 1], batch[n].player) THEN m[n - 1]
                           ELSE Append(m[n - 1], batch[n])
              /\ append_players(players, batch) = m[Len(batch)]
<1> DEFINE S == Seq(PlayerResult)
           next(s, n) == IF HasPlayer(s, batch[n].player) THEN s ELSE Append(s, batch[n])
           step == [x \in S \X (1 .. Len(batch)) |-> next(x[1], x[2])]
           Computes(f) == f = [n \in 0 .. Len(batch) |->
                                  IF n = 0 THEN players ELSE next(f[n - 1], n)]
<1>1. step \in [S \X (1 .. Len(batch)) -> S]
  <2>1. \A s \in S, n \in 1 .. Len(batch) : next(s, n) \in S
    OBVIOUS
  <2> HIDE DEF next, S
  <2> QED
    BY <2>1
<1>2. PICK f : Computed(f, Len(batch), S, players, step)
  <2>1. Len(batch) \in Nat /\ players \in S
    OBVIOUS
  <2> HIDE DEF step, S
  <2> QED
    BY <1>1, <2>1, RecursionExists
<1>3. \A i \in 1 .. Len(batch) : f[i] = next(f[i - 1], i)
  <2> HIDE DEF next, S
  <2> QED
    BY <1>2 DEF Computed
<1>4. Computes(f)
  <2> HIDE DEF next
  <2> QED
    BY <1>2, <1>3 DEF Computed
<1> DEFINE m == CHOOSE g : Computes(g)
<1>5. Computes(m)
  <2> HIDE DEF Computes
  <2> QED BY <1>4
<1>6. append_players(players, batch) = m[Len(batch)]
  BY DEF append_players
<1> HIDE DEF m
<1>7. \A i \in 0 .. Len(batch) : m[i] = f[i]
  <2> DEFINE T == {i \in 0 .. Len(batch) : m[i] = f[i]}
  <2> HIDE DEF next
  <2>1. 0 \in T
    BY <1>2, <1>5 DEF Computed
  <2>2. ASSUME NEW i \in 1 .. Len(batch), i - 1 \in T
        PROVE  i \in T
    BY <1>3, <1>5, <2>2
  <2> HIDE DEF T
  <2>3. Len(batch) \in Nat
    OBVIOUS
  <2>4. \A i \in 0 .. Len(batch) : i \in T
    BY <2>1, <2>2, <2>3, InductionUpTo
  <2> QED
    BY <2>4 DEF T
<1>8. append_players(players, batch) = f[Len(batch)]
  BY <1>6, <1>7
<1> HIDE DEF step
<1> QED
  BY <1>2, <1>3, <1>8 DEF Computed

\* Record m of a batch is the first one of its player.
FirstIn(batch, m) == \A l \in 1 .. (m - 1) : batch[l].player # batch[m].player

\* What the first n records of a batch make of a snapshot's records.
Appended(old, batch, n, new) ==
    /\ new \in Seq(PlayerResult)
    /\ Len(old) <= Len(new)
    /\ \A i \in 1 .. Len(old) : new[i] = old[i]
    /\ \A i \in 1 .. Len(new) : i > Len(old) =>
          /\ FirstIn(new, i)
          /\ \E m \in 1 .. n : new[i] = batch[m] /\ FirstIn(batch, m)
    /\ \A m \in 1 .. n : HasPlayer(new, batch[m].player)

\* A record is appended if its player has none: the records that were there
\* stay, and every player of the batch has one.
LEMMA AppendEffect ==
    ASSUME NEW players \in Seq(PlayerResult), NEW batch \in Seq(PlayerResult)
    PROVE  Appended(players, batch, Len(batch), append_players(players, batch))
<1>1. PICK f \in [0 .. Len(batch) -> Seq(PlayerResult)] :
         /\ f[0] = players
         /\ \A n \in 1 .. Len(batch) :
               f[n] = IF HasPlayer(f[n - 1], batch[n].player) THEN f[n - 1]
                      ELSE Append(f[n - 1], batch[n])
         /\ append_players(players, batch) = f[Len(batch)]
  BY AppendSteps
<1> DEFINE T == {n \in 0 .. Len(batch) : Appended(players, batch, n, f[n])}
<1>2. 0 \in T
  BY <1>1 DEF Appended
<1>3. ASSUME NEW n \in 1 .. Len(batch), n - 1 \in T
      PROVE  n \in T
  <2> DEFINE old == f[n - 1]
             rec == batch[n]
  <2>1. Appended(players, batch, n - 1, old) /\ n - 1 \in 0 .. Len(batch)
    BY <1>3
  <2>2. old \in Seq(PlayerResult) /\ rec \in PlayerResult /\ Len(batch) \in Nat
    OBVIOUS
  <2>3. CASE HasPlayer(old, rec.player)
    <3>1. f[n] = old
      BY <1>1, <2>3
    <3>2. Appended(players, batch, n, old)
      <4>1. \A m \in 1 .. n : m \in 1 .. (n - 1) \/ m = n
        BY <2>2
      <4>2. \A m \in 1 .. (n - 1) : m \in 1 .. n
        BY <2>2
      <4> HIDE DEF old
      <4>3. \A m \in 1 .. n : HasPlayer(old, batch[m].player)
        BY <2>1, <2>3, <4>1 DEF Appended
      <4>4. \A i \in 1 .. Len(old) : i > Len(players) =>
               /\ FirstIn(old, i)
               /\ \E m \in 1 .. n : old[i] = batch[m] /\ FirstIn(batch, m)
        BY <2>1, <4>2 DEF Appended
      <4>5. /\ old \in Seq(PlayerResult)
            /\ Len(players) <= Len(old)
            /\ \A i \in 1 .. Len(players) : old[i] = players[i]
        BY <2>1 DEF Appended
      <4> QED
        BY <4>3, <4>4, <4>5 DEF Appended
    <3> QED
      BY <3>1, <3>2
  <2>4. CASE ~HasPlayer(old, rec.player)
    <3> DEFINE new == Append(old, rec)
    <3>1. f[n] = new
      BY <1>1, <2>4
    <3>2. /\ new \in Seq(PlayerResult)
          /\ Len(new) = Len(old) + 1
          /\ \A i \in 1 .. Len(old) : new[i] = old[i]
          /\ new[Len(old) + 1] = rec
          /\ Len(old) \in Nat
      BY <2>2
    <3> HIDE DEF new, old
    <3>3. \A p : HasPlayer(old, p) => HasPlayer(new, p)
      BY <2>2, <3>2 DEF HasPlayer
    <3>4. HasPlayer(new, rec.player)
      BY <3>2 DEF HasPlayer
    <3>5. FirstIn(new, Len(new))
      BY <2>2, <2>4, <3>2 DEF FirstIn, HasPlayer
    <3>6. FirstIn(batch, n)
      <4> SUFFICES ASSUME NEW l \in 1 .. (n - 1), batch[l].player = rec.player
                   PROVE  FALSE
        BY DEF FirstIn
      <4> QED
        BY <2>1, <2>4 DEF Appended
    <3>7. ASSUME NEW i \in 1 .. Len(new), i > Len(players)
          PROVE  /\ FirstIn(new, i)
                 /\ \E m \in 1 .. n : new[i] = batch[m] /\ FirstIn(batch, m)
      <4>1. CASE i = Len(new)
        BY <3>2, <3>5, <3>6, <4>1
      <4>2. CASE i # Len(new)
        <5>1. i \in 1 .. Len(old) /\ new[i] = old[i]
          BY <3>2, <4>2
        <5>2. FirstIn(old, i)
          BY <2>1, <3>7, <5>1 DEF Appended
        <5>3. \A l \in 1 .. (i - 1) : new[l] = old[l]
          BY <3>2, <5>1
        <5>4. FirstIn(new, i)
          BY <5>1, <5>2, <5>3 DEF FirstIn
        <5> QED
          BY <2>1, <3>7, <5>1, <5>4 DEF Appended
      <4> QED
        BY <4>1, <4>2
    <3>8. Appended(players, batch, n, new)
      BY <2>1, <3>2, <3>3, <3>4, <3>7 DEF Appended
    <3> QED
      BY <3>1, <3>8
  <2> QED
    BY <2>3, <2>4
<1>4. Len(batch) \in Nat
  OBVIOUS
<1> HIDE DEF T
<1>5. \A n \in 0 .. Len(batch) : n \in T
  BY <1>2, <1>3, <1>4, InductionUpTo
<1> QED
  BY <1>1, <1>4, <1>5 DEF T

-----------------------------------------------------------------------------
(* References *)

Refers(refs, k) == \E i \in DOMAIN refs : refs[i].round_key = k

Sorted(refs) ==
    \A i, j \in 1 .. Len(refs) : i < j => refs[i].join_ts >= refs[j].join_ts

NoRoundTwice(refs) ==
    \A i, j \in 1 .. Len(refs) : refs[i].round_key = refs[j].round_key => i = j

\* Inserting an entry.
LEMMA Insertion ==
    ASSUME NEW S, NEW s \in Seq(S), NEW pos \in 1 .. (Len(s) + 1), NEW e \in S
    PROVE  /\ InsertAt(s, pos, e) \in Seq(S)
           /\ Len(InsertAt(s, pos, e)) = Len(s) + 1
           /\ \A i \in 1 .. (Len(s) + 1) :
                 InsertAt(s, pos, e)[i] = IF i < pos THEN s[i]
                                          ELSE IF i = pos THEN e ELSE s[i - 1]
<1> DEFINE before == SubSeq(s, 1, pos - 1)
           after == SubSeq(s, pos, Len(s))
<1>1. /\ before \in Seq(S) /\ Len(before) = pos - 1
      /\ \A i \in 1 .. (pos - 1) : before[i] = s[i]
  OBVIOUS
<1>2. /\ after \in Seq(S) /\ Len(after) = Len(s) + 1 - pos
      /\ \A i \in 1 .. (Len(s) + 1 - pos) : after[i] = s[pos + i - 1]
  OBVIOUS
<1>3. InsertAt(s, pos, e) = before \o <<e>> \o after
  BY DEF InsertAt
<1> HIDE DEF before, after
<1> DEFINE front == before \o <<e>>
<1>4. /\ front \in Seq(S) /\ Len(front) = pos
      /\ \A i \in 1 .. pos : front[i] = IF i < pos THEN s[i] ELSE e
  BY <1>1
<1> HIDE DEF front
<1>5. /\ front \o after \in Seq(S) /\ Len(front \o after) = Len(s) + 1
      /\ \A i \in 1 .. (Len(s) + 1) :
            (front \o after)[i] = IF i <= pos THEN front[i] ELSE after[i - pos]
  <2>1. /\ front \o after \in Seq(S)
        /\ Len(front \o after) = Len(front) + Len(after)
        /\ \A i \in 1 .. Len(front) + Len(after) :
              (front \o after)[i] = IF i <= Len(front) THEN front[i]
                                    ELSE after[i - Len(front)]
    BY <1>2, <1>4, ConcatProperties
  <2>2. Len(front) + Len(after) = Len(s) + 1
    BY <1>2, <1>4
  <2> QED
    BY <1>4, <2>1, <2>2
<1>6. \A i \in 1 .. (Len(s) + 1) :
         (front \o after)[i] = IF i < pos THEN s[i]
                               ELSE IF i = pos THEN e ELSE s[i - 1]
  BY <1>2, <1>4, <1>5
<1> QED
  BY <1>3, <1>5, <1>6 DEF front

\* What adding a reference to a player's references makes of them.
Inserted(refs, ref, pos, new) ==
    /\ new \in Seq(PlayerRoundRef)
    /\ Len(new) = Len(refs) + 1
    /\ pos \in 1 .. Len(new)
    /\ \A i \in 1 .. Len(new) : new[i] = IF i < pos THEN refs[i]
                                         ELSE IF i = pos THEN ref ELSE refs[i - 1]
    /\ \A i \in 1 .. Len(refs) : i < pos <=> refs[i].join_ts >= ref.join_ts

\* A new reference comes after those with its timestamp or a later one.
LEMMA AddRefInserts ==
    ASSUME NEW refs \in Seq(PlayerRoundRef), NEW ref \in PlayerRoundRef,
           Sorted(refs), ~Refers(refs, ref.round_key)
    PROVE  \E pos : Inserted(refs, ref, pos, add_ref(refs, ref))
<1> DEFINE before == {i \in DOMAIN refs : refs[i].join_ts >= ref.join_ts}
           later == {i \in Nat : i \in 1 .. (Len(refs) + 1) /\ i \notin before}
<1>1. Len(refs) \in Nat /\ DOMAIN refs = 1 .. Len(refs)
  OBVIOUS
<1>2. PICK pos \in later : \A i \in later : pos <= i
  <2>1. Len(refs) + 1 \in later
    BY <1>1
  <2> HIDE DEF later
  <2> QED
    BY <2>1, LeastNatural DEF later
<1>3. \A i \in 1 .. Len(refs) : refs[i].join_ts \in Int
  <2>1. \A i \in 1 .. Len(refs) : refs[i] \in PlayerRoundRef
    OBVIOUS
  <2> QED
    BY <2>1, RecordAssumption DEF PlayerRoundRef
<1>4. ref.join_ts \in Int
  BY RecordAssumption DEF PlayerRoundRef
<1>5. \A i \in 1 .. Len(refs) : i \in before <=> i < pos
  <2>1. /\ pos \in 1 .. (Len(refs) + 1) /\ pos \notin before
        /\ \A i \in 1 .. Len(refs) : i \notin before => pos <= i
    BY <1>1, <1>2
  <2>2. \A i \in 1 .. Len(refs) : i \in before <=> refs[i].join_ts >= ref.join_ts
    BY <1>1
  <2>3. \A i, j \in 1 .. Len(refs) : i < j => refs[i].join_ts >= refs[j].join_ts
    BY DEF Sorted
  <2> HIDE DEF before, later
  <2> SUFFICES ASSUME NEW i \in 1 .. Len(refs)
               PROVE  i \in before <=> i < pos
    OBVIOUS
  <2>4. i < pos => i \in before
    BY <1>1, <2>1
  <2>5. ASSUME pos < i
        PROVE  i \notin before
    <3>1. pos \in 1 .. Len(refs)
      BY <1>1, <2>1, <2>5
    <3>2. refs[pos].join_ts < ref.join_ts
      BY <1>3, <1>4, <2>1, <2>2, <3>1
    <3>3. refs[pos].join_ts >= refs[i].join_ts
      BY <2>3, <2>5, <3>1
    <3> QED
      BY <1>3, <1>4, <2>2, <3>1, <3>2, <3>3
  <2> QED
    BY <1>1, <2>1, <2>4, <2>5
<1>6. before = 1 .. (pos - 1) /\ pos \in 1 .. (Len(refs) + 1)
  BY <1>1, <1>2, <1>5
<1>7. Cardinality(before) = pos - 1
  <2>1. Cardinality(1 .. (pos - 1)) = IF 1 > pos - 1 THEN 0 ELSE (pos - 1) - 1 + 1
    BY <1>1, <1>6, FS_Interval
  <2> HIDE DEF before
  <2> QED
    BY <1>1, <1>6, <2>1
<1>8. add_ref(refs, ref) = InsertAt(refs, pos, ref)
  <2>1. add_ref(refs, ref) = InsertAt(refs, Cardinality(before) + 1, ref)
    BY DEF add_ref, Refers
  <2> HIDE DEF before
  <2> QED
    BY <1>6, <1>7, <2>1
<1>9. \A i \in 1 .. Len(refs) : i < pos <=> refs[i].join_ts >= ref.join_ts
  BY <1>1, <1>5
<1>10. pos \in 1 .. (Len(refs) + 1)
  BY <1>6
<1>11. /\ InsertAt(refs, pos, ref) \in Seq(PlayerRoundRef)
       /\ Len(InsertAt(refs, pos, ref)) = Len(refs) + 1
       /\ \A i \in 1 .. (Len(refs) + 1) :
             InsertAt(refs, pos, ref)[i] = IF i < pos THEN refs[i]
                                           ELSE IF i = pos THEN ref ELSE refs[i - 1]
  BY <1>10, Insertion
<1> HIDE DEF before, later
<1> QED
  BY <1>8, <1>9, <1>10, <1>11 DEF Inserted

\* A list of references grows: its entries stay, at later places at most, and
\* what comes in is the new reference, unless its round is there already.
RefAdded(refs, ref, new) ==
    /\ new \in Seq(PlayerRoundRef)
    /\ Sorted(new)
    /\ NoRoundTwice(new)
    /\ \A i \in 1 .. Len(refs) : \E j \in 1 .. Len(new) : i <= j /\ new[j] = refs[i]
    /\ \A j \in 1 .. Len(new) :
          \/ \E i \in 1 .. Len(refs) : new[j] = refs[i]
          \/ ~Refers(refs, ref.round_key) /\ new[j] = ref
    /\ Refers(new, ref.round_key)

\* References stay in order and are to different rounds.
LEMMA AddRefEffect ==
    ASSUME NEW refs \in Seq(PlayerRoundRef), NEW ref \in PlayerRoundRef,
           Sorted(refs), NoRoundTwice(refs)
    PROVE  RefAdded(refs, ref, add_ref(refs, ref))
<1>1. CASE Refers(refs, ref.round_key)
  BY <1>1 DEF RefAdded, add_ref, Refers
<1>2. CASE ~Refers(refs, ref.round_key)
  <2> DEFINE new == add_ref(refs, ref)
  <2>1. PICK pos : Inserted(refs, ref, pos, new)
    BY <1>2, AddRefInserts
  <2> HIDE DEF new
  <2>2. /\ new \in Seq(PlayerRoundRef) /\ pos \in 1 .. Len(new)
        /\ Len(refs) \in Nat /\ Len(new) = Len(refs) + 1
        /\ \A i \in 1 .. Len(new) : new[i] = IF i < pos THEN refs[i]
                                             ELSE IF i = pos THEN ref ELSE refs[i - 1]
    BY <2>1 DEF Inserted
  <2>3. /\ ref.join_ts \in Int
        /\ \A i \in 1 .. Len(refs) : refs[i].join_ts \in Int
    <3>1. \A i \in 1 .. Len(refs) : refs[i] \in PlayerRoundRef
      OBVIOUS
    <3> QED
      BY <3>1, RecordAssumption DEF PlayerRoundRef
  <2>4. Sorted(new)
    <3> SUFFICES ASSUME NEW i \in 1 .. Len(new), NEW j \in 1 .. Len(new), i < j
                 PROVE  new[i].join_ts >= new[j].join_ts
      BY DEF Sorted
    <3>1. CASE i < pos /\ j = pos
      <4>1. i \in 1 .. Len(refs) /\ new[i] = refs[i] /\ new[j] = ref
        BY <2>2, <3>1
      <4> QED
        BY <2>1, <2>3, <3>1, <4>1 DEF Inserted
    <3>2. CASE i = pos
      <4>1. j - 1 \in 1 .. Len(refs) /\ new[j] = refs[j - 1] /\ ~(j - 1 < pos) /\ new[i] = ref
        BY <2>2, <3>2
      <4> QED
        BY <2>1, <2>3, <4>1 DEF Inserted
    <3>3. CASE i # pos /\ j # pos
      <4> DEFINE a == IF i < pos THEN i ELSE i - 1
                 b == IF j < pos THEN j ELSE j - 1
      <4>1. /\ a \in 1 .. Len(refs) /\ b \in 1 .. Len(refs) /\ a < b
            /\ new[i] = refs[a] /\ new[j] = refs[b]
        BY <2>2, <3>3
      <4> QED
        BY <4>1 DEF Sorted
    <3> QED
      BY <2>2, <3>1, <3>2, <3>3
  <2>5. NoRoundTwice(new)
    <3> SUFFICES ASSUME NEW i \in 1 .. Len(new), NEW j \in 1 .. Len(new), i < j,
                        new[i].round_key = new[j].round_key
                 PROVE  FALSE
      BY DEF NoRoundTwice
    <3>1. \A n \in 1 .. Len(refs) : refs[n].round_key # ref.round_key
      BY <1>2 DEF Refers
    <3>2. i # pos /\ j # pos
      <4>1. CASE i = pos
        <5>1. j - 1 \in 1 .. Len(refs) /\ new[j] = refs[j - 1] /\ new[i] = ref
          BY <2>2, <4>1
        <5> QED
          BY <3>1, <5>1
      <4>2. CASE j = pos
        <5>1. i \in 1 .. Len(refs) /\ new[i] = refs[i] /\ new[j] = ref
          BY <2>2, <4>2
        <5> QED
          BY <3>1, <5>1
      <4> QED
        BY <4>1, <4>2
    <3> DEFINE a == IF i < pos THEN i ELSE i - 1
               b == IF j < pos THEN j ELSE j - 1
    <3>3. /\ a \in 1 .. Len(refs) /\ b \in 1 .. Len(refs) /\ a < b
          /\ new[i] = refs[a] /\ new[j] = refs[b]
      BY <2>2, <3>2
    <3> QED
      BY <3>3 DEF NoRoundTwice
  <2>6. ASSUME NEW i \in 1 .. Len(refs)
        PROVE  \E j \in 1 .. Len(new) : i <= j /\ new[j] = refs[i]
    <3>1. CASE i < pos
      BY <2>2, <3>1
    <3>2. CASE ~(i < pos)
      <4>1. i + 1 \in 1 .. Len(new) /\ new[i + 1] = refs[i]
        BY <2>2, <3>2
      <4> QED
        BY <4>1
    <3> QED
      BY <3>1, <3>2
  <2>7. ASSUME NEW j \in 1 .. Len(new)
        PROVE  \/ \E i \in 1 .. Len(refs) : new[j] = refs[i]
               \/ ~Refers(refs, ref.round_key) /\ new[j] = ref
    <3>1. CASE j < pos
      BY <2>2, <3>1
    <3>2. CASE j = pos
      BY <1>2, <2>2, <3>2
    <3>3. CASE j > pos
      <4>1. j - 1 \in 1 .. Len(refs) /\ new[j] = refs[j - 1]
        BY <2>2, <3>3
      <4> QED
        BY <4>1
    <3> QED
      BY <2>2, <3>1, <3>2, <3>3
  <2>8. Refers(new, ref.round_key)
    <3>1. new[pos] = ref /\ pos \in DOMAIN new
      BY <2>2
    <3> QED
      BY <3>1 DEF Refers
  <2>9. RefAdded(refs, ref, new)
    BY <2>2, <2>4, <2>5, <2>6, <2>7, <2>8 DEF RefAdded
  <2> QED
    BY <2>9 DEF new
<1> QED
  BY <1>1, <1>2

\* Added or not, the round of the reference is referred to.
LEMMA AddRefType ==
    ASSUME NEW refs \in Seq(PlayerRoundRef), NEW ref \in PlayerRoundRef
    PROVE  /\ add_ref(refs, ref) \in Seq(PlayerRoundRef)
           /\ Refers(add_ref(refs, ref), ref.round_key)
<1>1. CASE Refers(refs, ref.round_key)
  BY <1>1 DEF add_ref, Refers
<1>2. CASE ~Refers(refs, ref.round_key)
  <2> DEFINE before == {i \in DOMAIN refs : refs[i].join_ts >= ref.join_ts}
             pos == Cardinality(before) + 1
  <2>1. add_ref(refs, ref) = InsertAt(refs, pos, ref)
    BY <1>2 DEF add_ref, Refers
  <2>2. /\ Len(refs) \in Nat /\ before \subseteq 1 .. Len(refs)
        /\ IsFiniteSet(1 .. Len(refs)) /\ Cardinality(1 .. Len(refs)) = Len(refs)
    <3>1. Len(refs) \in Nat /\ before \subseteq 1 .. Len(refs)
      OBVIOUS
    <3>2. /\ IsFiniteSet(1 .. Len(refs))
          /\ Cardinality(1 .. Len(refs)) = IF 1 > Len(refs) THEN 0 ELSE Len(refs) - 1 + 1
      BY <3>1, FS_Interval
    <3> QED
      BY <3>1, <3>2
  <2> HIDE DEF before
  <2>3. Cardinality(before) \in Nat /\ Cardinality(before) <= Len(refs)
    BY <2>2, FS_Subset, FS_CardinalityType
  <2>4. pos \in 1 .. (Len(refs) + 1)
    BY <2>2, <2>3
  <2> HIDE DEF pos
  <2> DEFINE new == InsertAt(refs, pos, ref)
  <2>5. new \in Seq(PlayerRoundRef) /\ Len(new) = Len(refs) + 1 /\ new[pos] = ref
    BY <2>4, Insertion
  <2> HIDE DEF new
  <2>6. pos \in DOMAIN new
    BY <2>2, <2>4, <2>5
  <2>7. Refers(new, ref.round_key)
    BY <2>5, <2>6 DEF Refers
  <2> QED
    BY <2>1, <2>5, <2>7 DEF new
<1> QED
  BY <1>1, <1>2

\* Referring to the records of a batch goes through it record by record.
LEMMA RefSteps ==
    ASSUME HistoryTypeOK, NEW k \in Keys, NEW batch \in Seq(PlayerResult)
    PROVE  \E f \in [0 .. Len(batch) -> [Players -> Seq(PlayerRoundRef)]] :
              /\ f[0] = player_round_refs
              /\ \A n \in 1 .. Len(batch) :
                    f[n] = [f[n - 1] EXCEPT ![batch[n].player] =
                               add_ref(f[n - 1][batch[n].player], ref_of(k, batch[n]))]
              /\ updated_refs(k, batch) = f[Len(batch)]
<1> DEFINE S == [Players -> Seq(PlayerRoundRef)]
           next(s, n) == [s EXCEPT ![batch[n].player] = add_ref(@, ref_of(k, batch[n]))]
           step == [x \in S \X (1 .. Len(batch)) |-> next(x[1], x[2])]
           Computes(f) == f = [n \in 0 .. Len(batch) |->
                                  IF n = 0 THEN player_round_refs ELSE next(f[n - 1], n)]
<1>1. step \in [S \X (1 .. Len(batch)) -> S]
  <2>1. ASSUME NEW s \in S, NEW n \in 1 .. Len(batch)
        PROVE  next(s, n) \in S
    <3> DEFINE p == batch[n].player
               new == add_ref(s[p], ref_of(k, batch[n]))
    <3>1. batch[n] \in PlayerResult
      OBVIOUS
    <3>2. p \in Players /\ ref_of(k, batch[n]) \in PlayerRoundRef
      BY <3>1 DEF PlayerResult, PlayerRoundRef, ref_of
    <3>3. new \in Seq(PlayerRoundRef)
      BY <3>2, AddRefType
    <3>4. next(s, n) = [s EXCEPT ![p] = new]
      OBVIOUS
    <3> HIDE DEF new, next
    <3> QED
      BY <3>3, <3>4
  <2> HIDE DEF next, S
  <2> QED
    BY <2>1
<1>2. PICK f : Computed(f, Len(batch), S, player_round_refs, step)
  <2>1. Len(batch) \in Nat /\ player_round_refs \in S
    BY DEF HistoryTypeOK
  <2> HIDE DEF step, S
  <2> QED
    BY <1>1, <2>1, RecursionExists
<1>3. \A i \in 1 .. Len(batch) : f[i] = next(f[i - 1], i)
  <2> HIDE DEF next, S
  <2> QED
    BY <1>2 DEF Computed
<1>4. Computes(f)
  <2> HIDE DEF next
  <2> QED
    BY <1>2, <1>3 DEF Computed
<1> DEFINE m == CHOOSE g : Computes(g)
<1>5. Computes(m)
  <2> HIDE DEF Computes
  <2> QED
    BY <1>4
<1>6. updated_refs(k, batch) = m[Len(batch)]
  BY DEF updated_refs
<1> HIDE DEF m
<1>7. \A i \in 0 .. Len(batch) : m[i] = f[i]
  <2> DEFINE T == {i \in 0 .. Len(batch) : m[i] = f[i]}
  <2> HIDE DEF next
  <2>1. 0 \in T
    BY <1>2, <1>5 DEF Computed
  <2>2. ASSUME NEW i \in 1 .. Len(batch), i - 1 \in T
        PROVE  i \in T
    BY <1>3, <1>5, <2>2
  <2>3. Len(batch) \in Nat
    OBVIOUS
  <2> HIDE DEF T
  <2>4. \A i \in 0 .. Len(batch) : i \in T
    BY <2>1, <2>2, <2>3, InductionUpTo
  <2> QED
    BY <2>4 DEF T
<1>8. updated_refs(k, batch) = f[Len(batch)]
  BY <1>6, <1>7
<1>9. f \in [0 .. Len(batch) -> S] /\ f[0] = player_round_refs
  BY <1>2 DEF Computed
<1> HIDE DEF step
<1> QED
  BY <1>3, <1>8, <1>9

\* A player's references after the first n records of a batch: the first
\* record of the player counts.
Referred(k, batch, n, p, refs, new) ==
    \/ /\ new = refs
       /\ \A m \in 1 .. n : batch[m].player # p
    \/ \E m \in 1 .. n : /\ batch[m].player = p
                         /\ FirstIn(batch, m)
                         /\ new = add_ref(refs, ref_of(k, batch[m]))

\* Each player of a batch gets at most one reference, from the first record.
LEMMA RefsEffect ==
    ASSUME HistoryTypeOK, NEW k \in Keys, NEW batch \in Seq(PlayerResult)
    PROVE  /\ updated_refs(k, batch) \in [Players -> Seq(PlayerRoundRef)]
           /\ \A p \in Players : Referred(k, batch, Len(batch), p,
                                          player_round_refs[p], updated_refs(k, batch)[p])
<1>1. PICK f \in [0 .. Len(batch) -> [Players -> Seq(PlayerRoundRef)]] :
         /\ f[0] = player_round_refs
         /\ \A n \in 1 .. Len(batch) :
               f[n] = [f[n - 1] EXCEPT ![batch[n].player] =
                          add_ref(f[n - 1][batch[n].player], ref_of(k, batch[n]))]
         /\ updated_refs(k, batch) = f[Len(batch)]
  BY RefSteps
<1>2. Len(batch) \in Nat
  OBVIOUS
<1>3. ASSUME NEW p \in Players
      PROVE  Referred(k, batch, Len(batch), p, player_round_refs[p], f[Len(batch)][p])
  <2> DEFINE R(n) == Referred(k, batch, n, p, player_round_refs[p], f[n][p])
             T == {n \in 0 .. Len(batch) : R(n)}
  <2>1. 0 \in T
    BY <1>1, <1>2 DEF Referred
  <2>2. ASSUME NEW n \in 1 .. Len(batch), n - 1 \in T
        PROVE  n \in T
    <3> DEFINE rec == batch[n]
               ref == ref_of(k, rec)
    <3>1. R(n - 1) /\ n - 1 \in 0 .. Len(batch) /\ rec \in PlayerResult
      BY <2>2
    <3>2. f[n] = [f[n - 1] EXCEPT ![rec.player] = add_ref(f[n - 1][rec.player], ref)]
      BY <1>1
    <3>3. f[n - 1] \in [Players -> Seq(PlayerRoundRef)]
      BY <3>1
    <3>4. CASE rec.player # p
      <4>1. f[n][p] = f[n - 1][p]
        BY <3>2, <3>3, <3>4
      <4>2. \A m \in 1 .. n : m \in 1 .. (n - 1) \/ m = n
        OBVIOUS
      <4> HIDE DEF ref
      <4>3. R(n)
        BY <3>1, <3>4, <4>1, <4>2 DEF Referred
      <4> QED
        BY <4>3
    <3>5. CASE rec.player = p
      <4>1. f[n][p] = add_ref(f[n - 1][p], ref)
        BY <3>2, <3>3, <3>5
      <4>2. CASE \A m \in 1 .. (n - 1) : batch[m].player # p
        <5>1. f[n - 1][p] = player_round_refs[p]
          BY <3>1, <4>2 DEF Referred
        <5>2. FirstIn(batch, n)
          BY <3>5, <4>2 DEF FirstIn
        <5>3. R(n)
          BY <3>5, <4>1, <5>1, <5>2 DEF Referred
        <5> QED
          BY <5>3
      <4>3. CASE ~ \A m \in 1 .. (n - 1) : batch[m].player # p
        <5>1. PICK m \in 1 .. (n - 1) :
                 /\ batch[m].player = p
                 /\ FirstIn(batch, m)
                 /\ f[n - 1][p] = add_ref(player_round_refs[p], ref_of(k, batch[m]))
          BY <3>1, <4>3 DEF Referred
        <5>2. Refers(f[n - 1][p], k)
          <6>1. batch[m] \in PlayerResult
            BY <1>2
          <6>2. ref_of(k, batch[m]) \in PlayerRoundRef /\ ref_of(k, batch[m]).round_key = k
            BY <6>1 DEF PlayerResult, PlayerRoundRef, ref_of
          <6>3. player_round_refs[p] \in Seq(PlayerRoundRef)
            BY DEF HistoryTypeOK
          <6> QED
            BY <5>1, <6>2, <6>3, AddRefType
        <5>3. f[n][p] = f[n - 1][p]
          BY <4>1, <5>2 DEF add_ref, Refers, ref_of
        <5>4. m \in 1 .. n
          BY <1>2
        <5>5. R(n)
          BY <5>1, <5>3, <5>4 DEF Referred
        <5> QED
          BY <5>5
      <4> QED
        BY <4>2, <4>3
    <3> QED
      BY <3>4, <3>5
  <2> HIDE DEF T
  <2>3. \A n \in 0 .. Len(batch) : n \in T
    BY <1>2, <2>1, <2>2, InductionUpTo
  <2> QED
    BY <1>2, <2>3 DEF T
<1> QED
  BY <1>1, <1>2, <1>3

-----------------------------------------------------------------------------
(* What is stored of what was delivered *)

\* No batch names a player twice.
OncePerBatch ==
    \A k \in Keys : \A b \in Batches[k] :
        \A i, j \in 1 .. Len(b) : b[i].player = b[j].player => i = j

\* A list the reader walks through has a place for every offset in a usize.
ListsFitMemory == Cardinality(Keys) < USIZE /\ Cardinality(Players) < USIZE

NoPlayerTwice(s) == \A i, j \in 1 .. Len(s) : s[i].player = s[j].player => i = j

\* The first record of a player.
FirstOf(s, p, i) == i \in 1 .. Len(s) /\ s[i].player = p /\ FirstIn(s, i)

\* What is stored of a round is what was delivered of it.
SnapshotFollows(k) ==
    LET s == round_snapshots[k]
    IN /\ \A b \in delivered[k] : b \in Batches[k] /\ b \in Seq(PlayerResult)
       /\ delivered[k] = {} <=> ~Stored(k)
       /\ ~Stored(k) => round_history_entries[k] = None
       /\ Stored(k) =>
             /\ round_history_entries[k] = s.season_id
             /\ \A i \in 1 .. Len(s.players) : s.players[i] \in Sent(k)
             /\ \A x \in Sent(k) : HasPlayer(s.players, x.player)
             /\ OncePerBatch => NoPlayerTwice(s.players)

\* A player's references are those to the rounds with a record of the player.
RefsFollow(p) ==
    LET refs == player_round_refs[p]
    IN /\ Sorted(refs)
       /\ NoRoundTwice(refs)
       /\ \A j \in 1 .. Len(refs) :
             LET k == refs[j].round_key
                 records == round_snapshots[k].players
             IN /\ Stored(k)
                /\ \E i : FirstOf(records, p, i) /\ refs[j] = ref_of(k, records[i])
       /\ \A k \in Keys :
             Stored(k) /\ HasPlayer(round_snapshots[k].players, p) => Refers(refs, k)

StoreInv ==
    /\ HistoryTypeOK
    /\ delivered = [k \in Keys |-> delivered[k]]
    /\ \A k \in Keys : SnapshotFollows(k)
    /\ \A p \in Players : RefsFollow(p)

\* A list, as its pages show it.
StoredKeys(tier) == {k \in Keys : k[1] = tier /\ round_snapshots[k] # None}

ListOf(list) ==
    CASE list[1] = "history" ->
            [i \in 1 .. Len(player_round_refs[list[2]]) |->
                player_round_refs[list[2]][i].round_key]
      [] list[1] = "snapshots" ->
            in_key_order(StoredKeys(list[2]), [k \in StoredKeys(list[2]) |-> k[2]])
      [] list[1] = "players" ->
            in_key_order(registered_players, [p \in registered_players |-> p])

\* A reader who is not at the end: what was not seen yet is still to come.
WalkOn ==
    walk # None =>
        /\ walk = [list |-> walk.list, offset |-> walk.offset,
                   missing |-> walk.missing, done |-> walk.done]
        /\ walk.list \in Lists
        /\ walk.offset \in Nat
        /\ walk.done => walk.missing = {}
        /\ ~walk.done =>
              LET all == ListOf(walk.list)
              IN /\ walk.offset = 0 \/ walk.offset < Len(all)
                 /\ \A e \in walk.missing :
                       \E i \in 1 .. Len(all) : walk.offset < i /\ all[i] = e

DeliveryInv == StoreInv /\ (ListsFitMemory => WalkOn)

\* A batch that is stored consists of results.
LEMMA StoredBatch ==
    ASSUME NEW k \in Keys, NEW b \in Batches[k], Deliver(k, b)
    PROVE  b \in Seq(PlayerResult)
<1>1. \A i \in DOMAIN b : into_storage(b[i]) # None
  BY DEF Deliver, store_round_snapshot
<1>2. b \in Seq(Range(b)) /\ {rec \in Range(b) : rec.player \in Players} \subseteq PlayerResult
  BY BatchAssumption
<1>3. \A i \in DOMAIN b : b[i] \in PlayerResult
  BY <1>1, <1>2 DEF into_storage, Range
<1>4. DOMAIN b = 1 .. Len(b) /\ Len(b) \in Nat /\ b = [i \in 1 .. Len(b) |-> b[i]]
  BY <1>2
<1>5. b \in [1 .. Len(b) -> PlayerResult]
  BY <1>3, <1>4
<1> QED
  BY <1>4, <1>5

\* Merging a batch into what is stored of its round.
Merged(old, b, new) ==
    /\ new \in RoundSnapshot
    /\ IF old = None
       THEN new.players = b
       ELSE /\ Appended(old.players, b, Len(b), new.players)
            /\ new.season_id = old.season_id
            /\ old.did_emit => new.did_emit
            /\ old.emit_tx_sig # None => new.emit_tx_sig # None

\* What is stored for a batch is a merged snapshot.
LEMMA MergeEffect ==
    ASSUME current_config_version \in Versions,
           NEW old \in RoundSnapshot \cup {None},
           NEW season \in Seasons, NEW b \in Seq(PlayerResult),
           NEW did_emit \in BOOLEAN, NEW sig \in Sigs \cup {None}
    PROVE  /\ Merged(old, b, stored_snapshot(old, season, b, did_emit, sig))
           /\ old = None => stored_snapshot(old, season, b, did_emit, sig).season_id = season
<1>1. CASE old = None
  <2> DEFINE new == [season_id |-> season, players |-> b, did_emit |-> did_emit,
                     emit_tx_sig |-> sig, config_version |-> current_config_version]
  <2>1. stored_snapshot(old, season, b, did_emit, sig) = new
    BY <1>1 DEF stored_snapshot
  <2>2. new \in RoundSnapshot
    BY DEF RoundSnapshot
  <2>3. Merged(old, b, new)
    BY <1>1, <2>2 DEF Merged
  <2> QED
    BY <2>1, <2>3
<1>2. CASE old # None
  <2> DEFINE merged == append_players(old.players, b)
             emitted == old.did_emit \/ did_emit
             signed == IF sig = None THEN old.emit_tx_sig ELSE sig
             new == [season_id |-> old.season_id, players |-> merged,
                     did_emit |-> emitted, emit_tx_sig |-> signed,
                     config_version |-> old.config_version]
  <2>1. /\ old \in RoundSnapshot
        /\ old = [season_id |-> old.season_id, players |-> old.players,
                  did_emit |-> old.did_emit, emit_tx_sig |-> old.emit_tx_sig,
                  config_version |-> old.config_version]
    BY <1>2 DEF RoundSnapshot
  <2>2. stored_snapshot(old, season, b, did_emit, sig) =
            [old EXCEPT !.players = merged, !.did_emit = emitted, !.emit_tx_sig = signed]
    BY <1>2 DEF stored_snapshot
  <2>3. Appended(old.players, b, Len(b), merged)
    BY <2>1, AppendEffect DEF RoundSnapshot
  <2>4. /\ old.season_id \in Seasons /\ old.config_version \in Versions
        /\ emitted \in BOOLEAN /\ signed \in Sigs \cup {None}
        /\ old.did_emit => emitted
        /\ old.emit_tx_sig # None => signed # None
    BY <1>2, <2>1 DEF RoundSnapshot
  <2> HIDE DEF merged, emitted, signed
  <2>5. stored_snapshot(old, season, b, did_emit, sig) = new
    BY <2>1, <2>2
  <2>6. merged \in Seq(PlayerResult)
    BY <2>3 DEF Appended
  <2>7. new \in RoundSnapshot
    BY <2>4, <2>6 DEF RoundSnapshot
  <2>8. Merged(old, b, new)
    BY <1>2, <2>3, <2>4, <2>7 DEF Merged
  <2> QED
    BY <1>2, <2>5, <2>8
<1> QED
  BY <1>1, <1>2

\* What a call of store_round_snapshot does.
LEMMA DeliveryEffect ==
    ASSUME StoreInv, NEW k \in Keys, NEW b \in Batches[k], Deliver(k, b)
    PROVE  /\ b \in Seq(PlayerResult)
           /\ round_snapshots' = [round_snapshots EXCEPT ![k] = round_snapshots'[k]]
           /\ Merged(round_snapshots[k], b, round_snapshots'[k])
           /\ round_history_entries' = [round_history_entries EXCEPT
                  ![k] = IF Stored(k) THEN @ ELSE round_snapshots'[k].season_id]
           /\ player_round_refs' = updated_refs(k, b)
           /\ delivered' = [delivered EXCEPT ![k] = @ \cup {b}]
           /\ UNCHANGED <<configVars, registered_players, walk>>
<1>1. b \in Seq(PlayerResult)
  BY StoredBatch
<1>2. PICK season \in Seasons, did_emit \in BOOLEAN, sig \in Sigs \cup {None} :
         store_round_snapshot(k, season, b, did_emit, sig)
  BY BatchAssumption DEF Deliver, Report
<1> DEFINE old == round_snapshots[k]
           new == stored_snapshot(old, season, b, did_emit, sig)
<1>3. /\ current_config_version \in Versions
      /\ old \in RoundSnapshot \cup {None}
      /\ round_history_entries[k] = None <=> ~Stored(k)
  <2>1. SnapshotFollows(k)
    BY DEF StoreInv
  <2>2. old \in RoundSnapshot \cup {None} /\ current_config_version \in Versions
    BY DEF StoreInv, HistoryTypeOK, ConfigTypeOK
  <2>3. Stored(k) => old.season_id \in Seasons
    BY <2>2 DEF Stored, RoundSnapshot
  <2> QED
    BY <2>1, <2>2, <2>3, RecordAssumption DEF SnapshotFollows, Stored
<1>4. Merged(old, b, new) /\ (old = None => new.season_id = season)
  BY <1>1, <1>2, <1>3, MergeEffect
<1>5. round_snapshots' = [round_snapshots EXCEPT ![k] = new]
  BY <1>2 DEF store_round_snapshot
<1> HIDE DEF new
<1>6. round_snapshots'[k] = new
  BY <1>5 DEF StoreInv, HistoryTypeOK
<1>7. /\ round_history_entries' = [round_history_entries EXCEPT
             ![k] = IF @ = None THEN season ELSE @]
      /\ player_round_refs' = updated_refs(k, b)
      /\ UNCHANGED <<configVars, registered_players>>
  BY <1>2 DEF store_round_snapshot
<1>8. /\ delivered' = [delivered EXCEPT ![k] = @ \cup {b}]
      /\ UNCHANGED walk
  BY DEF Deliver
<1>9. round_history_entries' = [round_history_entries EXCEPT
         ![k] = IF Stored(k) THEN @ ELSE round_snapshots'[k].season_id]
  BY <1>3, <1>4, <1>6, <1>7 DEF Stored
<1> QED
  BY <1>1, <1>4, <1>5, <1>6, <1>7, <1>8, <1>9

\* A stored batch leaves values of the right types.
LEMMA DeliveryKeepsTypes ==
    ASSUME StoreInv, NEW k \in Keys, NEW b \in Batches[k], Deliver(k, b)
    PROVE  HistoryTypeOK' /\ delivered' = [q \in Keys |-> delivered'[q]]
<1>1. /\ HistoryTypeOK
      /\ delivered = [q \in Keys |-> delivered[q]]
  BY DEF StoreInv
<1>2. /\ b \in Seq(PlayerResult)
      /\ round_snapshots' = [round_snapshots EXCEPT ![k] = round_snapshots'[k]]
      /\ round_snapshots'[k] \in RoundSnapshot
      /\ round_history_entries' = [round_history_entries EXCEPT
             ![k] = IF Stored(k) THEN @ ELSE round_snapshots'[k].season_id]
      /\ player_round_refs' = updated_refs(k, b)
      /\ delivered' = [delivered EXCEPT ![k] = @ \cup {b}]
      /\ UNCHANGED <<configVars, registered_players>>
  BY DeliveryEffect DEF Merged
<1>3. updated_refs(k, b) \in [Players -> Seq(PlayerRoundRef)]
  BY <1>1, <1>2, RefsEffect
<1>4. round_snapshots' \in [Keys -> RoundSnapshot \cup {None}]
  BY <1>1, <1>2 DEF HistoryTypeOK
<1>5. round_history_entries' \in [Keys -> Seasons \cup {None}]
  BY <1>1, <1>2 DEF HistoryTypeOK, RoundSnapshot
<1>6. ConfigTypeOK' /\ registered_players' \subseteq Players
  BY <1>1, <1>2 DEF HistoryTypeOK, ConfigTypeOK, configVars
<1>7. delivered' = [q \in Keys |-> delivered'[q]]
  BY <1>1, <1>2
<1> QED
  BY <1>2, <1>3, <1>4, <1>5, <1>6, <1>7 DEF HistoryTypeOK

\* The snapshot of the round that was reported, and those of others.
LEMMA DeliveryKeepsSnapshots ==
    ASSUME StoreInv, NEW k \in Keys, NEW b \in Batches[k], Deliver(k, b), NEW q \in Keys
    PROVE  SnapshotFollows(q)'
<1>1. SnapshotFollows(q)
  BY DEF StoreInv
<1>2. /\ round_snapshots \in [Keys -> RoundSnapshot \cup {None}]
      /\ round_history_entries \in [Keys -> Seasons \cup {None}]
      /\ delivered = [j \in Keys |-> delivered[j]]
  BY DEF StoreInv, HistoryTypeOK
<1>3. /\ b \in Seq(PlayerResult)
      /\ round_snapshots' = [round_snapshots EXCEPT ![k] = round_snapshots'[k]]
      /\ Merged(round_snapshots[k], b, round_snapshots'[k])
      /\ round_history_entries' = [round_history_entries EXCEPT
             ![k] = IF Stored(k) THEN @ ELSE round_snapshots'[k].season_id]
      /\ delivered' = [delivered EXCEPT ![k] = @ \cup {b}]
  BY DeliveryEffect
<1>4. CASE q # k
  <2>1. /\ round_snapshots'[q] = round_snapshots[q]
        /\ round_history_entries'[q] = round_history_entries[q]
        /\ delivered'[q] = delivered[q]
    BY <1>2, <1>3, <1>4
  <2> QED
    BY <1>1, <2>1 DEF SnapshotFollows, Stored, Sent
<1>5. CASE q = k
  <2> DEFINE old == round_snapshots[k]
             new == round_snapshots'[k]
  <2>1. /\ round_history_entries'[k] = IF Stored(k) THEN round_history_entries[k]
                                                     ELSE new.season_id
        /\ delivered'[k] = delivered[k] \cup {b}
    BY <1>2, <1>3
  <2>2. new \in RoundSnapshot /\ new # None
    BY <1>3, RecordAssumption DEF Merged
  <2>3. Sent(k)' = Sent(k) \cup Range(b)
    BY <2>1 DEF Sent
  <2>4. /\ \A j \in 1 .. Len(b) : b[j] \in Range(b)
        /\ \A x \in Range(b) : \E j \in 1 .. Len(b) : x = b[j]
        /\ Len(b) \in Nat
    BY <1>3 DEF Range
  <2>5. round_history_entries'[k] = new.season_id
    BY <1>1, <1>3, <1>5, <2>1 DEF Merged, SnapshotFollows, Stored
  <2>6. CASE ~Stored(k)
    <3>1. new.players = b /\ delivered[k] = {} /\ Sent(k) = {}
      BY <1>1, <1>3, <1>5, <2>6 DEF Merged, Stored, SnapshotFollows, Sent
    <3>2. \A i \in 1 .. Len(b) : b[i] \in Sent(k)'
      BY <2>3, <2>4
    <3>3. \A x \in Sent(k)' : HasPlayer(b, x.player)
      <4>1. DOMAIN b = 1 .. Len(b)
        BY <1>3
      <4> QED
        BY <2>3, <2>4, <3>1, <4>1 DEF HasPlayer
    <3>4. OncePerBatch => NoPlayerTwice(b)
      BY DEF OncePerBatch, NoPlayerTwice
    <3>5. \A c \in delivered'[k] : c \in Batches[k] /\ c \in Seq(PlayerResult)
      BY <1>3, <2>1, <3>1
    <3> QED
      BY <1>5, <2>1, <2>2, <2>5, <3>1, <3>2, <3>3, <3>4, <3>5 DEF SnapshotFollows, Stored
  <2>7. CASE Stored(k)
    <3>1. /\ Appended(old.players, b, Len(b), new.players)
          /\ old \in RoundSnapshot
      BY <1>2, <1>3, <2>7 DEF Merged, Stored
    <3>2. old.players \in Seq(PlayerResult) /\ new.players \in Seq(PlayerResult)
      BY <3>1 DEF RoundSnapshot, Appended
    <3>3. ASSUME NEW i \in 1 .. Len(new.players)
          PROVE  new.players[i] \in Sent(k)'
      <4>1. CASE i <= Len(old.players)
        <5>1. i \in 1 .. Len(old.players) /\ new.players[i] = old.players[i]
          BY <3>1, <3>2, <4>1 DEF Appended
        <5>2. old.players[i] \in Sent(k)
          BY <1>1, <1>5, <2>7, <5>1 DEF SnapshotFollows
        <5> QED
          BY <2>3, <5>1, <5>2
      <4>2. CASE ~(i <= Len(old.players))
        BY <2>3, <2>4, <3>1, <3>2, <4>2 DEF Appended
      <4> QED
        BY <4>1, <4>2
    <3>4. ASSUME NEW x \in Sent(k)'
          PROVE  HasPlayer(new.players, x.player)
      <4>1. CASE x \in Sent(k)
        <5>1. HasPlayer(old.players, x.player)
          BY <1>1, <1>5, <2>7, <4>1 DEF SnapshotFollows
        <5>2. PICK i \in 1 .. Len(old.players) : old.players[i].player = x.player
          BY <3>2, <5>1 DEF HasPlayer
        <5>3. i \in DOMAIN new.players /\ new.players[i] = old.players[i]
          BY <3>1, <3>2, <5>2 DEF Appended
        <5> QED
          BY <5>2, <5>3 DEF HasPlayer
      <4>2. CASE x \in Range(b)
        BY <2>4, <3>1, <4>2 DEF Appended
      <4> QED
        BY <2>3, <4>1, <4>2
    <3>5. ASSUME OncePerBatch
          PROVE  NoPlayerTwice(new.players)
      <4>1. NoPlayerTwice(old.players)
        BY <1>1, <1>5, <2>7, <3>5 DEF SnapshotFollows
      <4> SUFFICES ASSUME NEW i \in 1 .. Len(new.players), NEW j \in 1 .. Len(new.players),
                          i < j, new.players[i].player = new.players[j].player
                   PROVE  FALSE
        BY DEF NoPlayerTwice
      <4>2. CASE j <= Len(old.players)
        <5>1. i \in 1 .. Len(old.players) /\ j \in 1 .. Len(old.players)
          BY <3>1, <3>2, <4>2 DEF Appended
        <5>2. /\ new.players[i] = old.players[i]
              /\ new.players[j] = old.players[j]
          BY <3>1, <5>1 DEF Appended
        <5> QED
          BY <4>1, <5>1, <5>2 DEF NoPlayerTwice
      <4>3. CASE ~(j <= Len(old.players))
        <5>1. FirstIn(new.players, j)
          BY <3>1, <3>2, <4>3 DEF Appended
        <5> QED
          BY <5>1 DEF FirstIn
      <4> QED
        BY <4>2, <4>3
    <3>6. \A c \in delivered'[k] : c \in Batches[k] /\ c \in Seq(PlayerResult)
      BY <1>1, <1>3, <1>5, <2>1 DEF SnapshotFollows
    <3> QED
      BY <1>5, <2>1, <2>2, <2>5, <3>3, <3>4, <3>5, <3>6 DEF SnapshotFollows, Stored
  <2> QED
    BY <2>6, <2>7
<1> QED
  BY <1>4, <1>5

\* A player who has records has a first one.
LEMMA FirstExists ==
    ASSUME NEW s \in Seq(PlayerResult), NEW p, HasPlayer(s, p)
    PROVE  \E i : FirstOf(s, p, i)
<1> DEFINE T == {i \in Nat : i \in 1 .. Len(s) /\ s[i].player = p}
<1>1. T # {}
  BY DEF HasPlayer
<1>2. PICK i \in T : \A j \in T : i <= j
  <2> HIDE DEF T
  <2> QED
    BY <1>1, LeastNatural DEF T
<1> QED
  BY <1>2 DEF FirstOf, FirstIn

\* There is only one first record.
LEMMA FirstUnique ==
    ASSUME NEW s \in Seq(PlayerResult), NEW p, NEW i, FirstOf(s, p, i),
           NEW j, FirstOf(s, p, j)
    PROVE  i = j
BY DEF FirstOf, FirstIn

\* Records that keep a player's first one; that take it from a batch.
KeepsFirst(was, p, is) ==
    \A i : FirstOf(was, p, i) => FirstOf(is, p, i) /\ is[i] = was[i]
TakesFirst(b, p, is) ==
    \E i, m : FirstOf(is, p, i) /\ FirstOf(b, p, m) /\ is[i] = b[m]

\* The first record of a player stays where it is; a player who had none has
\* one now if the batch has one, and it is the first one of the batch.
LEMMA AppendedFirst ==
    ASSUME NEW old \in Seq(PlayerResult), NEW b \in Seq(PlayerResult), NEW new,
           Appended(old, b, Len(b), new), NEW p
    PROVE  /\ KeepsFirst(old, p, new)
           /\ HasPlayer(new, p) /\ ~HasPlayer(old, p) => TakesFirst(b, p, new)
<1>1. /\ Len(old) \in Nat /\ Len(new) \in Nat /\ Len(old) <= Len(new)
      /\ new \in Seq(PlayerResult)
      /\ \A i \in 1 .. Len(old) : new[i] = old[i]
  BY DEF Appended
<1>2. ASSUME NEW i, FirstOf(old, p, i)
      PROVE  FirstOf(new, p, i) /\ new[i] = old[i]
  <2>1. i \in 1 .. Len(new) /\ \A l \in 1 .. (i - 1) : new[l] = old[l]
    BY <1>1, <1>2 DEF FirstOf
  <2> QED
    BY <1>1, <1>2, <2>1 DEF FirstOf, FirstIn
<1>3. ASSUME HasPlayer(new, p), ~HasPlayer(old, p)
      PROVE  \E i, m : FirstOf(new, p, i) /\ FirstOf(b, p, m) /\ new[i] = b[m]
  <2>1. PICK i : FirstOf(new, p, i)
    BY <1>1, <1>3, FirstExists
  <2>2. i \in 1 .. Len(new) /\ i > Len(old)
    <3> SUFFICES ASSUME i \in 1 .. Len(old)
                 PROVE  FALSE
      BY <1>1, <2>1 DEF FirstOf
    <3>1. i \in DOMAIN old /\ old[i].player = p
      BY <1>1, <2>1 DEF FirstOf
    <3> QED
      BY <1>3, <3>1 DEF HasPlayer
  <2>3. PICK m \in 1 .. Len(b) : new[i] = b[m] /\ FirstIn(b, m)
    BY <2>2 DEF Appended
  <2>4. FirstOf(b, p, m)
    BY <2>1, <2>3 DEF FirstOf
  <2> QED
    BY <2>1, <2>3, <2>4
<1> QED
  BY <1>2, <1>3 DEF KeepsFirst, TakesFirst

\* The same for a snapshot, which may be new.
LEMMA MergedFirst ==
    ASSUME NEW old \in RoundSnapshot \cup {None},
           NEW b \in Seq(PlayerResult), NEW new, Merged(old, b, new), NEW p
    PROVE  /\ old # None => KeepsFirst(old.players, p, new.players)
           /\ HasPlayer(new.players, p) /\ ~(old # None /\ HasPlayer(old.players, p)) =>
                 TakesFirst(b, p, new.players)
           /\ \A m \in 1 .. Len(b) : HasPlayer(new.players, b[m].player)
<1>1. CASE old = None
  <2>1. new.players = b
    BY <1>1 DEF Merged
  <2>2. HasPlayer(b, p) => \E i : FirstOf(b, p, i)
    BY FirstExists
  <2>3. \A m \in 1 .. Len(b) : HasPlayer(b, b[m].player)
    BY DEF HasPlayer
  <2> QED
    BY <1>1, <2>1, <2>2, <2>3 DEF TakesFirst
<1>2. CASE old # None
  <2> DEFINE was == old.players
             is == new.players
  <2>1. was \in Seq(PlayerResult) /\ Appended(was, b, Len(b), is)
    BY <1>2 DEF Merged, RoundSnapshot
  <2>2. \A m \in 1 .. Len(b) : HasPlayer(is, b[m].player)
    BY <2>1 DEF Appended
  <2>3. /\ KeepsFirst(was, p, is)
        /\ HasPlayer(is, p) /\ ~HasPlayer(was, p) => TakesFirst(b, p, is)
    <3> HIDE DEF was, is
    <3> QED
      BY <2>1, AppendedFirst
  <2> QED
    BY <1>2, <2>2, <2>3
<1> QED
  BY <1>1, <1>2

\* A reference to the first record of p in a round.
RefersToFirst(ref, snapshot, p) ==
    /\ snapshot # None
    /\ \E i : FirstOf(snapshot.players, p, i) /\ ref = ref_of(ref.round_key, snapshot.players[i])

\* The references of every player keep following the snapshots: who had a
\* record before has the reference, and who is new in the round gets one.
LEMMA DeliveryKeepsRefs ==
    ASSUME StoreInv, NEW k \in Keys, NEW b \in Batches[k], Deliver(k, b), NEW p \in Players
    PROVE  RefsFollow(p)'
<1> DEFINE refs == player_round_refs[p]
           new == player_round_refs'[p]
           old == round_snapshots[k]
           merged == round_snapshots'[k]
<1>1. /\ RefsFollow(p)
      /\ round_snapshots \in [Keys -> RoundSnapshot \cup {None}]
      /\ refs \in Seq(PlayerRoundRef)
      /\ HistoryTypeOK
  BY DEF StoreInv, HistoryTypeOK
<1>2. /\ b \in Seq(PlayerResult)
      /\ round_snapshots' = [round_snapshots EXCEPT ![k] = merged]
      /\ Merged(old, b, merged)
      /\ player_round_refs' = updated_refs(k, b)
  BY DeliveryEffect
<1>3. Referred(k, b, Len(b), p, refs, new)
  BY <1>1, <1>2, RefsEffect
<1>4. /\ merged # None
      /\ Len(b) \in Nat
      /\ \A q \in Keys : q # k => round_snapshots'[q] = round_snapshots[q]
  BY <1>1, <1>2, RecordAssumption DEF Merged
<1>5. /\ old # None => KeepsFirst(old.players, p, merged.players)
      /\ HasPlayer(merged.players, p) /\ ~(old # None /\ HasPlayer(old.players, p)) =>
            TakesFirst(b, p, merged.players)
      /\ \A m \in 1 .. Len(b) : HasPlayer(merged.players, b[m].player)
  <2>1. old \in RoundSnapshot \cup {None}
    BY <1>1
  <2> HIDE DEF old, merged
  <2> QED
    BY <1>2, <2>1, MergedFirst
<1>6. \A j \in 1 .. Len(refs) : refs[j].round_key \in Keys
  <2>1. \A j \in 1 .. Len(refs) : refs[j] \in PlayerRoundRef
    BY <1>1
  <2> QED
    BY <2>1 DEF PlayerRoundRef
\* What was referred to is still there.
<1>7. ASSUME NEW j \in 1 .. Len(refs)
      PROVE  RefersToFirst(refs[j], round_snapshots'[refs[j].round_key], p)
  <2>1. RefersToFirst(refs[j], round_snapshots[refs[j].round_key], p)
    BY <1>1 DEF RefsFollow, Stored, RefersToFirst
  <2>2. CASE refs[j].round_key # k
    BY <1>4, <1>6, <2>1, <2>2
  <2>3. CASE refs[j].round_key = k
    <3>1. RefersToFirst(refs[j], old, p)
      BY <2>1, <2>3
    <3> HIDE DEF old, merged, refs
    <3>2. RefersToFirst(refs[j], merged, p)
      BY <1>4, <1>5, <3>1 DEF RefersToFirst, KeepsFirst
    <3> QED
      BY <2>3, <3>2 DEF merged
  <2> QED
    BY <2>2, <2>3
\* Who was in a snapshot referred to it.
<1>8. ASSUME NEW q \in Keys, round_snapshots[q] # None,
             HasPlayer(round_snapshots[q].players, p)
      PROVE  Refers(refs, q)
  BY <1>1, <1>8 DEF RefsFollow, Stored
<1>9. /\ Sorted(refs) /\ NoRoundTwice(refs)
  BY <1>1 DEF RefsFollow
<1>10. ASSUME new = refs, \A m \in 1 .. Len(b) : b[m].player # p
       PROVE  /\ Sorted(new) /\ NoRoundTwice(new)
              /\ \A j \in 1 .. Len(new) :
                    RefersToFirst(new[j], round_snapshots'[new[j].round_key], p)
              /\ \A q \in Keys : /\ round_snapshots'[q] # None
                                 /\ HasPlayer(round_snapshots'[q].players, p)
                                 => Refers(new, q)
  <2>1. ASSUME HasPlayer(merged.players, p)
        PROVE  old # None /\ HasPlayer(old.players, p)
    <3> HIDE DEF old, merged
    <3> QED
      BY <1>5, <1>10, <2>1 DEF FirstOf, TakesFirst
  <2> QED
    BY <1>4, <1>7, <1>8, <1>9, <1>10, <2>1
<1>11. ASSUME NEW m \in 1 .. Len(b), b[m].player = p, FirstIn(b, m),
              new = add_ref(refs, ref_of(k, b[m]))
       PROVE  /\ Sorted(new) /\ NoRoundTwice(new)
              /\ \A j \in 1 .. Len(new) :
                    RefersToFirst(new[j], round_snapshots'[new[j].round_key], p)
              /\ \A q \in Keys : /\ round_snapshots'[q] # None
                                 /\ HasPlayer(round_snapshots'[q].players, p)
                                 => Refers(new, q)
  <2> DEFINE ref == ref_of(k, b[m])
  <2>1. ref.round_key = k /\ ref \in PlayerRoundRef
    <3>1. b[m] \in PlayerResult
      BY <1>2
    <3> QED
      BY <3>1 DEF PlayerResult, PlayerRoundRef, ref_of
  <2>2. RefAdded(refs, ref, new)
    BY <1>1, <1>9, <1>11, <2>1, AddRefEffect
  <2>3. Len(refs) \in Nat /\ new \in Seq(PlayerRoundRef)
    BY <1>1, <2>2 DEF RefAdded
  <2>4. ASSUME ~Refers(refs, k)
        PROVE  RefersToFirst(ref, merged, p)
    <3>1. ~(old # None /\ HasPlayer(old.players, p))
      BY <1>8, <2>4
    <3> HIDE DEF old, merged
    <3>2. HasPlayer(merged.players, p)
      BY <1>5, <1>11
    <3>3. PICK i, l : /\ FirstOf(merged.players, p, i)
                      /\ FirstOf(b, p, l)
                      /\ merged.players[i] = b[l]
      BY <1>5, <3>1, <3>2 DEF TakesFirst
    <3>4. FirstOf(b, p, m)
      BY <1>11 DEF FirstOf
    <3>5. m = l
      BY <1>2, <3>3, <3>4, FirstUnique
    <3> QED
      BY <1>4, <2>1, <3>3, <3>5 DEF RefersToFirst
  <2> HIDE DEF ref
  <2>5. ASSUME NEW j \in 1 .. Len(new)
        PROVE  RefersToFirst(new[j], round_snapshots'[new[j].round_key], p)
    <3>1. \/ \E i \in 1 .. Len(refs) : new[j] = refs[i]
          \/ ~Refers(refs, k) /\ new[j] = ref
      BY <2>1, <2>2 DEF RefAdded
    <3> HIDE DEF new, refs
    <3> QED
      BY <1>7, <2>1, <2>4, <3>1
  <2>6. ASSUME NEW q \in Keys, Refers(refs, q)
        PROVE  Refers(new, q)
    <3>1. PICK i \in 1 .. Len(refs) : refs[i].round_key = q
      BY <1>1, <2>6 DEF Refers
    <3>2. PICK j \in 1 .. Len(new) : new[j] = refs[i]
      BY <2>2 DEF RefAdded
    <3> HIDE DEF new, refs
    <3> QED
      BY <2>3, <3>1, <3>2 DEF Refers
  <2>7. Refers(new, k)
    BY <2>1, <2>2 DEF RefAdded
  <2>8. ASSUME NEW q \in Keys, round_snapshots'[q] # None,
               HasPlayer(round_snapshots'[q].players, p)
        PROVE  Refers(new, q)
    <3>1. CASE q = k
      BY <2>7, <3>1
    <3>2. CASE q # k
      BY <1>4, <1>8, <2>6, <2>8, <3>2
    <3> QED
      BY <3>1, <3>2
  <2> QED
    BY <2>2, <2>5, <2>8 DEF RefAdded
<1>12. /\ Sorted(new) /\ NoRoundTwice(new)
       /\ \A j \in 1 .. Len(new) :
             RefersToFirst(new[j], round_snapshots'[new[j].round_key], p)
       /\ \A q \in Keys : /\ round_snapshots'[q] # None
                          /\ HasPlayer(round_snapshots'[q].players, p)
                          => Refers(new, q)
  <2> HIDE DEF new, refs
  <2> QED
    BY <1>3, <1>10, <1>11 DEF Referred
<1> QED
  BY <1>12 DEF RefsFollow, RefersToFirst, Stored

\* The version of a snapshot does not matter to the invariant.
LEMMA VersionIsFree ==
    ASSUME StoreInv, HistoryTypeOK', UNCHANGED <<round_history_entries, player_round_refs, delivered>>,
           \A q \in Keys : round_snapshots'[q] = None <=> round_snapshots[q] = None,
           \A q \in Keys : Stored(q) =>
              LET old == round_snapshots[q]
                  new == round_snapshots'[q]
              IN /\ new.players = old.players
                 /\ new.season_id = old.season_id
                 /\ new.did_emit = old.did_emit
                 /\ new.emit_tx_sig = old.emit_tx_sig
    PROVE  StoreInv'
<1>1. ASSUME NEW q \in Keys
      PROVE  SnapshotFollows(q)'
  <2>1. SnapshotFollows(q)
    BY DEF StoreInv
  <2> QED
    BY <2>1 DEF SnapshotFollows, Stored, Sent
<1>2. ASSUME NEW p \in Players
      PROVE  RefsFollow(p)'
  <2> DEFINE refs == player_round_refs[p]
  <2>1. RefsFollow(p) /\ refs \in Seq(PlayerRoundRef)
    BY DEF StoreInv, HistoryTypeOK
  <2>2. \A j \in 1 .. Len(refs) : refs[j].round_key \in Keys
    <3>1. \A j \in 1 .. Len(refs) : refs[j] \in PlayerRoundRef
      BY <2>1
    <3> QED
      BY <3>1 DEF PlayerRoundRef
  <2> QED
    BY <2>1, <2>2 DEF RefsFollow, Stored
<1> QED
  BY <1>1, <1>2 DEF StoreInv

\* Pinning a round to another version keeps the rest.
LEMMA RepinEffect ==
    ASSUME StoreInv, NEW k \in Keys, NEW v \in Versions,
           update_round_config_version(k, v), UNCHANGED delivered
    PROVE  /\ StoreInv'
           /\ \A q \in Keys : round_snapshots'[q] = None <=> round_snapshots[q] = None
           /\ UNCHANGED <<player_round_refs, registered_players, round_history_entries>>
<1>1. /\ round_snapshots' = [round_snapshots EXCEPT ![k].config_version = v]
      /\ round_snapshots[k] # None
      /\ UNCHANGED <<round_history_entries, player_round_refs, configVars, registered_players>>
  BY DEF update_round_config_version
<1>2. HistoryTypeOK /\ round_snapshots \in [Keys -> RoundSnapshot \cup {None}]
  BY DEF StoreInv, HistoryTypeOK
<1> DEFINE old == round_snapshots[k]
           new == [old EXCEPT !.config_version = v]
<1>3. /\ new \in RoundSnapshot
      /\ new.players = old.players
      /\ new.season_id = old.season_id
      /\ new.did_emit = old.did_emit
      /\ new.emit_tx_sig = old.emit_tx_sig
  <2>1. old \in RoundSnapshot
    BY <1>1, <1>2
  <2> HIDE DEF old
  <2> QED
    BY <2>1 DEF RoundSnapshot
<1>4. \A q \in Keys : round_snapshots'[q] = IF q = k THEN new ELSE round_snapshots[q]
  BY <1>1, <1>2
<1>5. round_snapshots' \in [Keys -> RoundSnapshot \cup {None}]
  BY <1>1, <1>2, <1>3
<1> HIDE DEF new
<1>6. HistoryTypeOK'
  BY <1>1, <1>2, <1>5 DEF HistoryTypeOK, ConfigTypeOK, configVars
<1>7. new # None
  BY <1>3, RecordAssumption
<1>8. \A q \in Keys : round_snapshots'[q] = None <=> round_snapshots[q] = None
  BY <1>1, <1>4, <1>7
<1>9. \A q \in Keys : Stored(q) =>
         /\ round_snapshots'[q].players = round_snapshots[q].players
         /\ round_snapshots'[q].season_id = round_snapshots[q].season_id
         /\ round_snapshots'[q].did_emit = round_snapshots[q].did_emit
         /\ round_snapshots'[q].emit_tx_sig = round_snapshots[q].emit_tx_sig
  BY <1>3, <1>4
<1>10. StoreInv'
  BY <1>1, <1>6, <1>8, <1>9, VersionIsFree
<1> QED
  BY <1>1, <1>8, <1>10

\* Nothing is stored and nothing was delivered at the start.
LEMMA StoreInit == Init => StoreInv
<1> SUFFICES ASSUME Init
             PROVE  StoreInv
  OBVIOUS
<1>1. HistoryTypeOK
  BY VersionAssumption
  DEF Init, HistoryInit, ConfigInit, RegistryInit, HistoryTypeOK, ConfigTypeOK
<1>2. \A k \in Keys : SnapshotFollows(k)
  BY DEF Init, HistoryInit, SnapshotFollows, Stored
<1>3. \A p \in Players : RefsFollow(p)
  BY DEF Init, HistoryInit, RefsFollow, Sorted, NoRoundTwice, Stored
<1> QED
  BY <1>1, <1>2, <1>3 DEF Init, StoreInv

\* One step per action.
LEMMA StoreStep == StoreInv /\ [Next]_vars => StoreInv'
<1> SUFFICES ASSUME StoreInv, [Next]_vars
             PROVE  StoreInv'
  OBVIOUS
<1>1. ASSUME NEW k \in Keys, NEW b \in Batches[k], Deliver(k, b)
      PROVE  StoreInv'
  BY <1>1, DeliveryKeepsTypes, DeliveryKeepsSnapshots, DeliveryKeepsRefs DEF StoreInv
<1>2. ASSUME UNCHANGED <<recordVars, delivered>>, ConfigTypeOK',
             registered_players' \subseteq Players
      PROVE  StoreInv'
  <2>1. HistoryTypeOK'
    BY <1>2 DEF StoreInv, HistoryTypeOK, recordVars
  <2> QED
    BY <1>2, <2>1, VersionIsFree DEF recordVars
<1>3. HistoryTypeOK /\ ConfigTypeOK /\ registered_players \subseteq Players
  BY DEF StoreInv, HistoryTypeOK
<1>4. CASE PublishConfig /\ UNCHANGED <<recordVars, registered_players, delivered, walk>>
  <2>1. ConfigTypeOK'
    BY <1>3, <1>4 DEF PublishConfig, push_config, add_engine_config,
         update_engine_config, set_current_config_version, ConfigTypeOK
  <2> QED
    BY <1>2, <1>3, <1>4, <2>1
<1>5. ASSUME NEW batch, SignUp(batch)
      PROVE  StoreInv'
  <2>1. /\ registered_players' \subseteq Players
        /\ UNCHANGED <<configVars, recordVars, delivered>>
    BY <1>3, <1>5 DEF SignUp, add_players
  <2>2. ConfigTypeOK'
    BY <1>3, <2>1 DEF ConfigTypeOK, configVars
  <2> QED
    BY <1>2, <2>1, <2>2
<1>6. CASE UNCHANGED <<historyVars, delivered>>
  <2>1. ConfigTypeOK' /\ registered_players' \subseteq Players
    BY <1>3, <1>6 DEF ConfigTypeOK, configVars, historyVars
  <2> QED
    BY <1>2, <1>6, <2>1 DEF historyVars
<1>7. ASSUME NEW k \in Keys, NEW v \in Versions,
             update_round_config_version(k, v), UNCHANGED delivered
      PROVE  StoreInv'
  BY <1>7, RepinEffect
<1>8. CASE post_upgrade /\ UNCHANGED delivered
  BY <1>7, <1>8, RecordAssumption DEF post_upgrade
<1>9. CASE clear_all_data /\ delivered' = [k \in Keys |-> {}]
  <2>1. HistoryTypeOK'
    BY <1>3, <1>9 DEF clear_all_data, HistoryTypeOK, ConfigTypeOK, configVars
  <2>2. \A k \in Keys : SnapshotFollows(k)'
    BY <1>9 DEF clear_all_data, SnapshotFollows, Stored
  <2>3. \A p \in Players : RefsFollow(p)'
    BY <1>9 DEF clear_all_data, RefsFollow, Sorted, NoRoundTwice, Stored
  <2> QED
    BY <1>9, <2>1, <2>2, <2>3 DEF StoreInv
<1>10. CASE UNCHANGED vars
  BY <1>6, <1>10 DEF vars
<1> QED
  BY <1>1, <1>4, <1>5, <1>6, <1>7, <1>8, <1>9, <1>10
  DEF Next, DeliverNext, RepairNext, StartWalk, NextPage, EndWalk

\* The invariant of the stored maps holds of every behaviour.
LEMMA StoreAlways == RepairSpec => []StoreInv
BY StoreInit, StoreStep, PTL DEF RepairSpec, Next

\* Every snapshot, history entry and reference has the shape the code stores.
THEOREM TypesStored == RepairSpec => []TypeOK
<1>1. StoreInv => TypeOK
  BY DEF StoreInv, TypeOK
<1> QED
  BY <1>1, StoreAlways, PTL

\* However often and in whatever order the batches of a round are stored, the
\* snapshot has one record of each of their players, as it was sent, and of
\* nobody else, if no single batch names a player twice.
THEOREM BatchesAreMerged == RepairSpec => [](OncePerBatch => BatchesMerge)
<1>1. ASSUME StoreInv, OncePerBatch
      PROVE  BatchesMerge
  <2> SUFFICES ASSUME NEW k \in Keys
               PROVE  IF delivered[k] = {} THEN ~Stored(k)
                      ELSE /\ Stored(k)
                           /\ Range(round_snapshots[k].players) \subseteq Sent(k)
                           /\ \A p \in Players : (\E x \in Sent(k) : x.player = p) =>
                                 Cardinality(RecordsOf(k, p)) = 1
    BY DEF BatchesMerge
  <2>1. SnapshotFollows(k)
    BY <1>1 DEF StoreInv
  <2>2. ASSUME Stored(k)
        PROVE  /\ Range(round_snapshots[k].players) \subseteq Sent(k)
               /\ \A p \in Players : (\E x \in Sent(k) : x.player = p) =>
                     Cardinality(RecordsOf(k, p)) = 1
    <3> DEFINE s == round_snapshots[k].players
    <3>1. s \in Seq(PlayerResult)
      BY <1>1, <2>2 DEF StoreInv, HistoryTypeOK, Stored, RoundSnapshot
    <3>2. /\ \A i \in 1 .. Len(s) : s[i] \in Sent(k)
          /\ \A x \in Sent(k) : HasPlayer(s, x.player)
          /\ NoPlayerTwice(s)
      BY <1>1, <2>1, <2>2 DEF SnapshotFollows
    <3>3. Range(s) \subseteq Sent(k)
      BY <3>1, <3>2 DEF Range
    <3>4. ASSUME NEW p, NEW x \in Sent(k), x.player = p
          PROVE  Cardinality(RecordsOf(k, p)) = 1
      <4>1. PICK i \in DOMAIN s : s[i].player = p
        BY <3>2, <3>4 DEF HasPlayer
      <4>2. RecordsOf(k, p) = {i}
        <5>1. \A n \in DOMAIN s : s[n].player = p => n = i
          BY <3>1, <3>2, <4>1 DEF NoPlayerTwice
        <5> QED
          BY <4>1, <5>1 DEF RecordsOf
      <4> QED
        BY <4>2, FS_Singleton
    <3> QED
      BY <3>3, <3>4
  <2> QED
    BY <2>1, <2>2 DEF SnapshotFollows
<1>2. StoreInv => (OncePerBatch => BatchesMerge)
  BY <1>1
<1> QED
  BY <1>2, StoreAlways, PTL

\* A player refers to a round exactly if the round has a record of the player,
\* once, and with the content of the first one, whatever the batches say.
THEOREM HistoryFollows == RepairSpec => []HistoryInStep
<1>1. ASSUME StoreInv
      PROVE  HistoryInStep
  <2> SUFFICES ASSUME NEW k \in Keys, NEW p \in Players
               PROVE  IF Stored(k) /\ RecordsOf(k, p) # {}
                      THEN \E i \in RecordsOf(k, p), j \in RefsTo(k, p) :
                              /\ \A n \in RecordsOf(k, p) : i <= n
                              /\ RefsTo(k, p) = {j}
                              /\ player_round_refs[p][j] =
                                     ref_of(k, round_snapshots[k].players[i])
                      ELSE RefsTo(k, p) = {}
    BY DEF HistoryInStep
  <2> DEFINE refs == player_round_refs[p]
             s == round_snapshots[k].players
  <2>1. RefsFollow(p) /\ refs \in Seq(PlayerRoundRef)
    BY <1>1 DEF StoreInv, HistoryTypeOK
  <2>2. Stored(k) => s \in Seq(PlayerResult)
    BY <1>1 DEF StoreInv, HistoryTypeOK, Stored, RoundSnapshot
  <2>3. ASSUME NEW j \in RefsTo(k, p)
        PROVE  /\ j \in 1 .. Len(refs)
               /\ Stored(k)
               /\ \E i : FirstOf(s, p, i) /\ refs[j] = ref_of(k, s[i])
    <3>1. j \in 1 .. Len(refs) /\ refs[j].round_key = k
      BY <2>1, <2>3 DEF RefsTo
    <3> QED
      BY <2>1, <3>1 DEF RefsFollow
  <2>4. CASE Stored(k) /\ RecordsOf(k, p) # {}
    <3>1. HasPlayer(s, p)
      BY <2>4 DEF RecordsOf, HasPlayer
    <3>2. PICK j : j \in RefsTo(k, p)
      BY <2>1, <2>4, <3>1 DEF RefsFollow, Refers, RefsTo
    <3>3. PICK i : FirstOf(s, p, i) /\ refs[j] = ref_of(k, s[i])
      BY <2>3, <3>2
    <3>4. RefsTo(k, p) = {j}
      <4>1. \A l \in RefsTo(k, p) : l \in 1 .. Len(refs) /\ refs[l].round_key = k
        BY <2>1 DEF RefsTo
      <4>2. \A l \in RefsTo(k, p) : l = j
        BY <2>1, <3>2, <4>1 DEF RefsFollow, NoRoundTwice
      <4> QED
        BY <3>2, <4>2
    <3>5. i \in RecordsOf(k, p)
      BY <2>2, <2>4, <3>3 DEF FirstOf, RecordsOf
    <3>6. \A n \in RecordsOf(k, p) : i <= n
      <4>1. \A n \in RecordsOf(k, p) : n \in 1 .. Len(s) /\ s[n].player = p
        BY <2>2, <2>4 DEF RecordsOf
      <4> QED
        BY <3>3, <4>1 DEF FirstOf, FirstIn
    <3> QED
      BY <2>4, <3>2, <3>3, <3>4, <3>5, <3>6
  <2>5. CASE ~(Stored(k) /\ RecordsOf(k, p) # {})
    <3>1. \A j \in RefsTo(k, p) : FALSE
      <4> SUFFICES ASSUME NEW j \in RefsTo(k, p)
                   PROVE  FALSE
        OBVIOUS
      <4>1. PICK i : FirstOf(s, p, i)
        BY <2>3
      <4>2. i \in RecordsOf(k, p)
        BY <2>2, <2>3, <4>1 DEF FirstOf, RecordsOf
      <4> QED
        BY <2>3, <2>5, <4>2
    <3> QED
      BY <2>5, <3>1
  <2> QED
    BY <2>4, <2>5
<1> QED
  BY <1>1, StoreAlways, PTL

\* What a step that is no repair does to the snapshots.
LEMMA SnapshotSteps ==
    ASSUME [Next]_vars, ~RepairNext
    PROVE  \/ \E k \in Keys : \E b \in Batches[k] : Deliver(k, b)
           \/ UNCHANGED recordVars
BY DEF Next, DeliverNext, SignUp, StartWalk, NextPage, EndWalk, vars, historyVars

\* No later batch, whatever it reports, moves, changes or drops a record, takes
\* back the mark or the signature of an emission, or changes the season.
THEOREM SnapshotsGrow == RepairSpec => SnapshotOnlyGrows
<1> DEFINE Grows(k) ==
             /\ IsPrefix(round_snapshots[k].players, round_snapshots'[k].players)
             /\ round_snapshots[k].did_emit => round_snapshots'[k].did_emit
             /\ round_snapshots[k].emit_tx_sig # None =>
                   round_snapshots'[k].emit_tx_sig # None
             /\ round_snapshots'[k].season_id = round_snapshots[k].season_id
<1>1. ASSUME StoreInv, [Next]_vars, ~RepairNext, NEW k \in Keys, Stored(k)
      PROVE  Grows(k)
  <2> DEFINE old == round_snapshots[k]
             was == old.players
  <2>1. /\ old \in RoundSnapshot /\ was \in Seq(PlayerResult)
        /\ round_snapshots \in [Keys -> RoundSnapshot \cup {None}]
    BY <1>1 DEF StoreInv, HistoryTypeOK, Stored, RoundSnapshot, SnapshotFollows
  <2>2. CASE UNCHANGED round_snapshots
    <3>1. IsPrefix(was, was)
      BY <2>1 DEF IsPrefix
    <3> QED
      BY <2>1, <2>2, <3>1
  <2>3. ASSUME NEW q \in Keys, NEW b \in Batches[q], Deliver(q, b)
        PROVE  Grows(k)
    <3>1. /\ round_snapshots' = [round_snapshots EXCEPT ![q] = round_snapshots'[q]]
          /\ Merged(round_snapshots[q], b, round_snapshots'[q])
      BY <1>1, <2>3, DeliveryEffect
    <3>2. CASE q # k
      <4>1. round_snapshots'[k] = old
        BY <2>1, <3>1, <3>2
      <4>2. IsPrefix(was, was)
        BY <2>1 DEF IsPrefix
      <4> QED
        BY <2>1, <4>1, <4>2
    <3>3. CASE q = k
      <4> DEFINE new == round_snapshots'[k]
                 is == new.players
      <4>1. /\ Appended(was, b, Len(b), is)
            /\ old.did_emit => new.did_emit
            /\ old.emit_tx_sig # None => new.emit_tx_sig # None
            /\ new.season_id = old.season_id
        BY <1>1, <3>1, <3>3 DEF Merged, Stored
      <4>2. IsPrefix(was, is)
        <5> HIDE DEF was, is
        <5>1. /\ is \in Seq(PlayerResult) /\ Len(was) \in Nat /\ Len(was) <= Len(is)
              /\ \A i \in 1 .. Len(was) : is[i] = was[i]
          BY <2>1, <4>1 DEF Appended
        <5>2. SubSeq(was, 1, Len(was)) = SubSeq(is, 1, Len(was))
          BY <2>1, <5>1
        <5> QED
          BY <5>1, <5>2 DEF IsPrefix
      <4> QED
        BY <4>1, <4>2
    <3> QED
      BY <3>2, <3>3
  <2> QED
    BY <1>1, <2>2, <2>3, SnapshotSteps DEF recordVars
<1>2. StoreInv /\ [Next]_vars =>
         [~RepairNext => \A k \in Keys : Stored(k) =>
            /\ IsPrefix(round_snapshots[k].players, round_snapshots'[k].players)
            /\ round_snapshots[k].did_emit => round_snapshots'[k].did_emit
            /\ round_snapshots[k].emit_tx_sig # None =>
                  round_snapshots'[k].emit_tx_sig # None
            /\ round_snapshots'[k].season_id = round_snapshots[k].season_id]_vars
  BY <1>1
<1> QED
  BY <1>2, StoreInit, StoreStep, PTL DEF RepairSpec, SnapshotOnlyGrows, Next

\* No reference is left out of a page whose rounds have entries.
LEMMA AllWithEntry ==
    ASSUME NEW refs \in Seq(PlayerRoundRef),
           \A i \in 1 .. Len(refs) : round_history_entries[refs[i].round_key] # None
    PROVE  with_entry(refs) = refs
<1> DEFINE next(s, n) == IF round_history_entries[refs[n].round_key] # None
                         THEN Append(s, refs[n]) ELSE s
           Computes(f) == f = [n \in 0 .. Len(refs) |->
                                  IF n = 0 THEN << >> ELSE next(f[n - 1], n)]
           f == [n \in 0 .. Len(refs) |-> SubSeq(refs, 1, n)]
<1>1. /\ Len(refs) \in Nat
      /\ f[0] = << >>
      /\ f[Len(refs)] = refs
  OBVIOUS
<1>2. ASSUME NEW n \in 1 .. Len(refs)
      PROVE  f[n] = next(f[n - 1], n)
  <2>1. SubSeq(refs, 1, n) = Append(SubSeq(refs, 1, n - 1), refs[n])
    OBVIOUS
  <2>2. f[n] = SubSeq(refs, 1, n) /\ f[n - 1] = SubSeq(refs, 1, n - 1)
    OBVIOUS
  <2> HIDE DEF f
  <2> QED
    BY <2>1, <2>2
<1>3. f = [n \in 0 .. Len(refs) |-> f[n]]
  OBVIOUS
<1> HIDE DEF f, next
<1>4. Computes(f)
  <2>1. ASSUME NEW n \in 0 .. Len(refs)
        PROVE  f[n] = IF n = 0 THEN << >> ELSE next(f[n - 1], n)
    <3>1. n = 0 \/ n \in 1 .. Len(refs)
      BY <1>1
    <3> QED
      BY <1>1, <1>2, <3>1
  <2> QED
    BY <1>3, <2>1
<1> DEFINE m == CHOOSE g : Computes(g)
<1>5. Computes(m)
  <2> HIDE DEF Computes
  <2> QED
    BY <1>4
<1>6. with_entry(refs) = m[Len(refs)]
  BY DEF with_entry, next
<1> HIDE DEF m
<1> DEFINE T == {n \in 0 .. Len(refs) : m[n] = f[n]}
<1>7. 0 \in T
  BY <1>1, <1>5
<1>8. ASSUME NEW n \in 1 .. Len(refs), n - 1 \in T
      PROVE  n \in T
  BY <1>2, <1>5, <1>8
<1> HIDE DEF T
<1>9. \A n \in 0 .. Len(refs) : n \in T
  BY <1>1, <1>7, <1>8, InductionUpTo
<1> QED
  BY <1>1, <1>6, <1>9 DEF T

\* A player refers to each round at most once.
LEMMA RefsAreFew ==
    ASSUME NEW refs \in Seq(PlayerRoundRef), NoRoundTwice(refs)
    PROVE  Len(refs) \in Nat /\ Len(refs) <= Cardinality(Keys)
<1> DEFINE n == Len(refs)
           f == [i \in 1 .. n |-> refs[i].round_key]
<1>1. n \in Nat /\ IsFiniteSet(1 .. n) /\ Cardinality(1 .. n) = n
  <2>1. n \in Nat
    OBVIOUS
  <2>2. IsFiniteSet(1 .. n) /\ Cardinality(1 .. n) = IF 1 > n THEN 0 ELSE n - 1 + 1
    BY <2>1, FS_Interval
  <2> QED
    BY <2>1, <2>2
<1>2. \A i \in 1 .. n : refs[i].round_key \in Keys
  <2>1. \A i \in 1 .. n : refs[i] \in PlayerRoundRef
    OBVIOUS
  <2> QED
    BY <2>1 DEF PlayerRoundRef
<1>3. f \in Injection(1 .. n, Keys)
  BY <1>2 DEF NoRoundTwice, Injection, IsInjective
<1> QED
  BY <1>1, <1>3, FS_Injection, RecordAssumption

\* One page of a list that fits into memory.
LEMMA PageCut ==
    ASSUME NEW S, NEW all \in Seq(S), Len(all) < USIZE, NEW offset \in 0 .. Len(all),
           NEW size \in 1 .. MAX_PAGE_LIMIT
    PROVE  page(all, offset, size) =
              SubSeq(all, offset + 1, IF offset + size <= Len(all) THEN offset + size
                                                                   ELSE Len(all))
<1>1. clamp_limit(size) = size
  BY DEF clamp_limit
<1>2. offset % USIZE = offset
  BY PagingAssumption
<1> QED
  BY <1>1, <1>2 DEF page

\* A page of a player's history has all that the total counts.
LEMMA HistoryPage ==
    ASSUME StoreInv, ListsFitMemory, NEW p \in Players,
           NEW offset \in 0 .. Len(player_round_refs[p]), NEW size \in 1 .. MAX_PAGE_LIMIT
    PROVE  LET refs == player_round_refs[p]
           IN get_player_round_history(p, offset, size) =
                 [total |-> Len(refs),
                  rounds |-> SubSeq(refs, offset + 1,
                                    IF offset + size <= Len(refs) THEN offset + size
                                                                  ELSE Len(refs))]
<1> DEFINE refs == player_round_refs[p]
           last == IF offset + size <= Len(refs) THEN offset + size ELSE Len(refs)
           cut == SubSeq(refs, offset + 1, last)
<1>1. RefsFollow(p) /\ refs \in Seq(PlayerRoundRef)
  BY DEF StoreInv, HistoryTypeOK
<1>2. Len(refs) \in Nat /\ Len(refs) < USIZE
  <2>1. Len(refs) \in Nat /\ Len(refs) <= Cardinality(Keys) /\ Cardinality(Keys) \in Nat
    BY <1>1, RefsAreFew, FS_CardinalityType, RecordAssumption DEF RefsFollow
  <2> QED
    BY <2>1, PagingAssumption DEF ListsFitMemory
<1>3. page(refs, offset, size) = cut
  BY <1>1, <1>2, PageCut
<1>4. \A i \in 1 .. Len(refs) : round_history_entries[refs[i].round_key] # None
  <2> SUFFICES ASSUME NEW i \in 1 .. Len(refs)
               PROVE  round_history_entries[refs[i].round_key] # None
    OBVIOUS
  <2> DEFINE k == refs[i].round_key
  <2>1. refs[i] \in PlayerRoundRef
    BY <1>1
  <2>2. k \in Keys /\ Stored(k)
    BY <1>1, <2>1 DEF RefsFollow, PlayerRoundRef
  <2>3. SnapshotFollows(k) /\ round_snapshots[k].season_id \in Seasons
    BY <2>2 DEF StoreInv, HistoryTypeOK, Stored, RoundSnapshot
  <2> QED
    BY <2>2, <2>3, RecordAssumption DEF SnapshotFollows
<1>5. /\ cut \in Seq(PlayerRoundRef)
      /\ \A i \in 1 .. Len(cut) : \E j \in 1 .. Len(refs) : cut[i] = refs[j]
  <2>1. /\ last \in Nat /\ last <= Len(refs) /\ offset \in Nat
    BY <1>2
  <2> HIDE DEF last, refs
  <2>2. /\ cut \in Seq(PlayerRoundRef)
        /\ Len(cut) = IF offset + 1 <= last THEN last - offset ELSE 0
        /\ \A i \in 1 .. (last - offset) : cut[i] = refs[offset + i]
    BY <1>1, <1>2, <2>1
  <2>3. \A i \in 1 .. Len(cut) : offset + i \in 1 .. Len(refs) /\ i \in 1 .. (last - offset)
    BY <1>2, <2>1, <2>2
  <2> QED
    BY <2>2, <2>3
<1>6. with_entry(cut) = cut
  <2>1. \A i \in 1 .. Len(cut) : round_history_entries[cut[i].round_key] # None
    BY <1>4, <1>5
  <2> HIDE DEF cut
  <2> QED
    BY <1>5, <2>1, AllWithEntry
<1> QED
  BY <1>3, <1>6 DEF get_player_round_history

\* A player's history is served in full, in order, with the season of each
\* round, in pages of any size, if it has fewer entries than a usize counts.
THEOREM HistoryIsComplete == RepairSpec => [](ListsFitMemory => HistoryComplete)
<1>1. ASSUME StoreInv, ListsFitMemory
      PROVE  HistoryComplete
  <2> SUFFICES ASSUME NEW p \in Players
               PROVE  LET refs == player_round_refs[p]
                          got(offset, limit) == get_player_round_history(p, offset, limit)
                      IN /\ \A i \in 0 .. Len(refs), size \in 1 .. MAX_PAGE_LIMIT :
                               /\ got(i, size).total = Len(refs)
                               /\ got(i, size).rounds =
                                     SubSeq(refs, i + 1, IF i + size <= Len(refs)
                                                         THEN i + size ELSE Len(refs))
                         /\ \A i, j \in DOMAIN refs : i < j => refs[i].join_ts >= refs[j].join_ts
                         /\ \A i \in DOMAIN refs :
                               LET k == refs[i].round_key
                               IN Stored(k)
                                  /\ round_history_entries[k] = round_snapshots[k].season_id
    BY DEF HistoryComplete
  <2> DEFINE refs == player_round_refs[p]
  <2>1. /\ RefsFollow(p) /\ refs \in Seq(PlayerRoundRef) /\ DOMAIN refs = 1 .. Len(refs)
    BY <1>1 DEF StoreInv, HistoryTypeOK
  <2>2. \A i \in 0 .. Len(refs), size \in 1 .. MAX_PAGE_LIMIT :
           /\ get_player_round_history(p, i, size).total = Len(refs)
           /\ get_player_round_history(p, i, size).rounds =
                 SubSeq(refs, i + 1, IF i + size <= Len(refs) THEN i + size ELSE Len(refs))
    BY <1>1, HistoryPage
  <2>3. ASSUME NEW i \in DOMAIN refs
        PROVE  LET k == refs[i].round_key
               IN Stored(k) /\ round_history_entries[k] = round_snapshots[k].season_id
    <3>1. refs[i] \in PlayerRoundRef
      BY <2>1
    <3>2. refs[i].round_key \in Keys /\ Stored(refs[i].round_key)
      BY <2>1, <3>1 DEF RefsFollow, PlayerRoundRef
    <3>3. SnapshotFollows(refs[i].round_key)
      BY <1>1, <3>2 DEF StoreInv
    <3> QED
      BY <3>2, <3>3 DEF SnapshotFollows
  <2> QED
    BY <2>1, <2>2, <2>3 DEF RefsFollow, Sorted
<1>2. StoreInv => (ListsFitMemory => HistoryComplete)
  BY <1>1
<1> QED
  BY <1>2, StoreAlways, PTL

-----------------------------------------------------------------------------
(* Paging through lists that grow *)

\* What is in a list stays in it, and moves to a later place at most.
StaysIn(all, grown) ==
    \A i \in 1 .. Len(all) : \E j \in 1 .. Len(grown) : i <= j /\ grown[j] = all[i]

\* Everything stays in a list that does not change.
LEMMA RefsStay ==
    ASSUME StoreInv
    PROVE  \A p \in Players : StaysIn(player_round_refs[p], player_round_refs[p])
<1>1. \A p \in Players : player_round_refs[p] \in Seq(PlayerRoundRef)
  BY DEF StoreInv, HistoryTypeOK
<1> QED
  BY <1>1 DEF StaysIn

\* More keys move a key to a later place at most.
LEMMA KeyListGrows ==
    ASSUME NEW keys, NEW more, keys \subseteq more, NEW rank, NEW rank2,
           Ranked(keys, rank), Ranked(more, rank2), \A k \in keys : rank[k] = rank2[k]
    PROVE  StaysIn(in_key_order(keys, rank), in_key_order(more, rank2))
<1> DEFINE s == in_key_order(keys, rank)
           t == in_key_order(more, rank2)
<1>1. /\ InOrder(s, keys, rank) /\ Len(s) = Cardinality(keys) /\ s \in Seq(keys)
      /\ InOrder(t, more, rank2) /\ Len(t) = Cardinality(more)
      /\ \A k \in more : \E j \in 1 .. Len(t) : t[j] = k
  BY KeyList
<1> HIDE DEF s, t
<1>2. ASSUME NEW i \in 1 .. Len(s)
      PROVE  \E j \in 1 .. Len(t) : i <= j /\ t[j] = s[i]
  <2>1. s[i] \in more
    BY <1>1
  <2>2. PICK j \in 1 .. Len(t) : t[j] = s[i]
    BY <1>1, <2>1
  <2>3. i <= j
    BY <1>1, <2>2, PlacesGrow
  <2> QED
    BY <2>2, <2>3
<1> QED
  BY <1>2 DEF StaysIn, s, t

\* The rounds of a tier have a place in the order of keys.
LEMMA RoundsRanked ==
    ASSUME NEW keys, keys \subseteq Keys, NEW tier, \A k \in keys : k[1] = tier
    PROVE  /\ Ranked(keys, [k \in keys |-> k[2]])
           /\ Cardinality(keys) <= Cardinality(Keys)
<1>1. IsFiniteSet(keys) /\ Cardinality(keys) <= Cardinality(Keys)
  BY FS_Subset, RecordAssumption
<1>2. \A k \in keys : k \in Nat \X Nat /\ k[1] = tier
  BY RecordAssumption
<1>3. \A j, k \in keys : j[2] = k[2] => j = k
  <2>1. \A j, k \in Nat \X Nat : j[1] = k[1] /\ j[2] = k[2] => j = k
    OBVIOUS
  <2> QED
    BY <1>2, <2>1
<1>4. \A k \in keys : k[2] \in Int
  BY <1>2
<1> QED
  BY <1>1, <1>3, <1>4 DEF Ranked

\* So have the players.
LEMMA PlayersRanked ==
    ASSUME NEW players, players \subseteq Players
    PROVE  /\ Ranked(players, [p \in players |-> p])
           /\ Cardinality(players) <= Cardinality(Players)
<1>1. IsFiniteSet(players) /\ Cardinality(players) <= Cardinality(Players)
  BY FS_Subset, PlayersAssumption
<1> QED
  BY <1>1, PlayersAssumption DEF Ranked

\* A list is what its pages are cut from, and has an offset for every entry.
LEMMA ListShape ==
    ASSUME StoreInv, NEW list \in Lists
    PROVE  /\ ListOf(list) \in Seq(Keys \cup Players)
           /\ ListsFitMemory => Len(ListOf(list)) < USIZE
           /\ \A e \in Entries(list) :
                 \E i \in 1 .. Len(ListOf(list)) : ListOf(list)[i] = e
<1>1. Cardinality(Keys) \in Nat /\ Cardinality(Players) \in Nat /\ USIZE \in Nat
  BY FS_CardinalityType, RecordAssumption, PlayersAssumption, PagingAssumption
<1>2. CASE list[1] = "history" /\ list[2] \in Players
  <2> DEFINE refs == player_round_refs[list[2]]
  <2>1. RefsFollow(list[2]) /\ refs \in Seq(PlayerRoundRef)
    BY <1>2 DEF StoreInv, HistoryTypeOK
  <2>2. ListOf(list) = [i \in 1 .. Len(refs) |-> refs[i].round_key]
    BY <1>2 DEF ListOf
  <2>3. Entries(list) = {x.round_key : x \in Range(refs)}
    BY <1>2 DEF Entries
  <2>4. Len(refs) \in Nat /\ Len(refs) <= Cardinality(Keys)
    BY <2>1, RefsAreFew DEF RefsFollow
  <2>5. \A i \in 1 .. Len(refs) : refs[i].round_key \in Keys
    <3>1. \A i \in 1 .. Len(refs) : refs[i] \in PlayerRoundRef
      BY <2>1
    <3> QED
      BY <3>1 DEF PlayerRoundRef
  <2>6. \A x \in Range(refs) : \E i \in 1 .. Len(refs) : x = refs[i]
    BY <2>1 DEF Range
  <2> HIDE DEF refs
  <2>7. ListOf(list) \in Seq(Keys \cup Players) /\ Len(ListOf(list)) = Len(refs)
    BY <2>2, <2>4, <2>5
  <2> QED
    BY <1>1, <2>2, <2>3, <2>4, <2>6, <2>7 DEF ListsFitMemory
<1>3. CASE list[1] = "snapshots"
  <2> DEFINE keys == StoredKeys(list[2])
             rank == [k \in keys |-> k[2]]
             all == in_key_order(keys, rank)
  <2>1. ListOf(list) = all /\ Entries(list) = keys
    BY <1>3 DEF ListOf, Entries, StoredKeys
  <2>2. /\ Ranked(keys, rank)
        /\ Cardinality(keys) <= Cardinality(Keys)
    <3>1. keys \subseteq Keys /\ \A k \in keys : k[1] = list[2]
      BY DEF StoredKeys
    <3> HIDE DEF keys
    <3> QED
      BY <3>1, RoundsRanked
  <2>3. keys \subseteq Keys
    BY DEF StoredKeys
  <2> HIDE DEF keys, rank
  <2>4. /\ all \in Seq(keys) /\ Len(all) = Cardinality(keys) /\ Cardinality(keys) \in Nat
        /\ \A k \in keys : \E i \in 1 .. Len(all) : all[i] = k
    BY <2>2, KeyList
  <2> HIDE DEF all
  <2>5. all \in Seq(Keys \cup Players)
    BY <2>3, <2>4, SeqMonotonic
  <2> QED
    BY <1>1, <2>1, <2>2, <2>4, <2>5 DEF ListsFitMemory
<1>4. CASE list[1] = "players"
  <2> DEFINE keys == registered_players
             all == in_key_order(keys, [p \in keys |-> p])
  <2>1. ListOf(list) = all /\ Entries(list) = keys
    BY <1>4 DEF ListOf, Entries
  <2>2. keys \subseteq Players
    BY DEF StoreInv, HistoryTypeOK
  <2>3. /\ Ranked(keys, [p \in keys |-> p])
        /\ Cardinality(keys) <= Cardinality(Players)
    BY <2>2, PlayersRanked
  <2> HIDE DEF keys
  <2>4. /\ all \in Seq(keys) /\ Len(all) = Cardinality(keys) /\ Cardinality(keys) \in Nat
        /\ \A k \in keys : \E i \in 1 .. Len(all) : all[i] = k
    BY <2>3, KeyList
  <2> HIDE DEF all
  <2>5. all \in Seq(Keys \cup Players)
    BY <2>2, <2>4, SeqMonotonic
  <2> QED
    BY <1>1, <2>1, <2>3, <2>4, <2>5 DEF ListsFitMemory
<1> QED
  BY <1>2, <1>3, <1>4, ReaderAssumption

\* A page shows the entries from its offset on.
LEMMA PageShows ==
    ASSUME NEW S, NEW all \in Seq(S), Len(all) < USIZE, NEW offset \in 0 .. Len(all),
           NEW i \in 1 .. Len(all), offset < i, i <= offset + PageSize
    PROVE  all[i] \in Range(page(all, offset, PageSize))
<1> DEFINE last == IF offset + PageSize <= Len(all) THEN offset + PageSize ELSE Len(all)
           cut == SubSeq(all, offset + 1, last)
<1>1. PageSize \in 1 .. MAX_PAGE_LIMIT /\ PageSize \in Nat /\ Len(all) \in Nat
  BY ReaderAssumption, PagingAssumption
<1>2. page(all, offset, PageSize) = cut
  BY <1>1, PageCut
<1>3. last \in Nat /\ last <= Len(all) /\ i <= last /\ offset \in Nat
  BY <1>1
<1> HIDE DEF last
<1>4. i - offset \in DOMAIN cut /\ cut[i - offset] = all[i]
  BY <1>1, <1>3
<1> QED
  BY <1>2, <1>4 DEF Range

\* The total is the length of the list, and a page has the entries behind its
\* offset.
LEMMA ReadShows ==
    ASSUME StoreInv, ListsFitMemory, NEW list \in Lists, NEW offset \in 0 .. Len(ListOf(list))
    PROVE  /\ Read(list, offset).total = Len(ListOf(list))
           /\ \A i \in 1 .. Len(ListOf(list)) : offset < i /\ i <= offset + PageSize =>
                 ListOf(list)[i] \in Read(list, offset).entries
<1>1. ListOf(list) \in Seq(Keys \cup Players) /\ Len(ListOf(list)) < USIZE
  BY ListShape
<1>2. CASE list[1] = "history" /\ list[2] \in Players
  <2> DEFINE p == list[2]
             refs == player_round_refs[p]
             last == IF offset + PageSize <= Len(refs) THEN offset + PageSize ELSE Len(refs)
             cut == SubSeq(refs, offset + 1, last)
  <2>1. refs \in Seq(PlayerRoundRef) /\ Len(refs) \in Nat
    BY <1>2 DEF StoreInv, HistoryTypeOK
  <2>2. ListOf(list) = [i \in 1 .. Len(refs) |-> refs[i].round_key]
    BY <1>2 DEF ListOf
  <2>3. Len(ListOf(list)) = Len(refs)
    BY <2>1, <2>2
  <2>4. get_player_round_history(p, offset, PageSize) = [total |-> Len(refs), rounds |-> cut]
    BY <1>2, <2>3, HistoryPage, ReaderAssumption
  <2>5. Read(list, offset) = [total |-> Len(refs),
                              entries |-> {x.round_key : x \in Range(cut)}]
    <3> HIDE DEF cut, refs
    <3> QED
      BY <1>2, <2>4 DEF Read
  <2>6. ASSUME NEW i \in 1 .. Len(refs), offset < i, i <= offset + PageSize
        PROVE  ListOf(list)[i] \in Read(list, offset).entries
    <3>1. last \in Nat /\ last <= Len(refs) /\ i <= last /\ offset \in Nat
      BY <2>1, <2>3, <2>6, ReaderAssumption, PagingAssumption
    <3> HIDE DEF last, refs
    <3>2. i - offset \in DOMAIN cut /\ cut[i - offset] = refs[i]
      BY <2>1, <2>6, <3>1
    <3>3. refs[i] \in Range(cut)
      BY <3>2 DEF Range
    <3> QED
      BY <2>2, <2>5, <3>3
  <2> HIDE DEF refs
  <2> QED
    BY <2>3, <2>5, <2>6
<1>3. CASE list[1] = "snapshots"
  <2> DEFINE keys == StoredKeys(list[2])
             all == in_key_order(keys, [k \in keys |-> k[2]])
  <2>1. ListOf(list) = all
    BY <1>3 DEF ListOf
  <2>2. Len(all) = Cardinality(keys)
    <3>1. keys \subseteq Keys /\ \A k \in keys : k[1] = list[2]
      BY DEF StoredKeys
    <3> HIDE DEF keys
    <3>2. Ranked(keys, [k \in keys |-> k[2]])
      BY <3>1, RoundsRanked
    <3> QED
      BY <3>2, KeyList
  <2>3. Read(list, offset) = [total |-> Cardinality(keys),
                              entries |-> Range(page(all, offset, PageSize))]
    BY <1>3 DEF Read, get_round_snapshots_by_tier, StoredKeys
  <2> HIDE DEF keys, all
  <2> QED
    BY <1>1, <2>1, <2>2, <2>3, PageShows
<1>4. CASE list[1] = "players"
  <2> DEFINE keys == registered_players
             all == in_key_order(keys, [p \in keys |-> p])
  <2>1. ListOf(list) = all
    BY <1>4 DEF ListOf
  <2>2. Len(all) = Cardinality(keys)
    <3>1. keys \subseteq Players
      BY DEF StoreInv, HistoryTypeOK
    <3>2. Ranked(keys, [p \in keys |-> p])
      BY <3>1, PlayersRanked
    <3> HIDE DEF keys
    <3> QED
      BY <3>2, KeyList
  <2>3. Read(list, offset) = [total |-> Cardinality(keys),
                              entries |-> Range(page(all, offset, PageSize))]
    BY <1>4 DEF Read, get_players
  <2> HIDE DEF keys, all
  <2> QED
    BY <1>1, <2>1, <2>2, <2>3, PageShows
<1> QED
  BY <1>2, <1>3, <1>4, ReaderAssumption

\* The lists only grow: rounds, players and references stay.
NothingLost ==
    /\ \A k \in Keys : round_snapshots[k] # None => round_snapshots'[k] # None
    /\ registered_players \subseteq registered_players'
    /\ \A p \in Players : StaysIn(player_round_refs[p], player_round_refs'[p])

\* A stored batch takes nothing out of a list.
LEMMA DeliveryLosesNothing ==
    ASSUME StoreInv, NEW k \in Keys, NEW b \in Batches[k], Deliver(k, b)
    PROVE  NothingLost
<1>1. /\ b \in Seq(PlayerResult)
      /\ round_snapshots' = [round_snapshots EXCEPT ![k] = round_snapshots'[k]]
      /\ Merged(round_snapshots[k], b, round_snapshots'[k])
      /\ player_round_refs' = updated_refs(k, b)
      /\ UNCHANGED registered_players
  BY DeliveryEffect
<1>2. HistoryTypeOK /\ round_snapshots \in [Keys -> RoundSnapshot \cup {None}]
  BY DEF StoreInv, HistoryTypeOK
<1>3. \A q \in Keys : round_snapshots[q] # None => round_snapshots'[q] # None
  <2>1. round_snapshots'[k] # None
    BY <1>1, RecordAssumption DEF Merged
  <2> QED
    BY <1>1, <1>2, <2>1
<1>4. ASSUME NEW p \in Players
      PROVE  StaysIn(player_round_refs[p], player_round_refs'[p])
  <2> DEFINE refs == player_round_refs[p]
             new == player_round_refs'[p]
  <2>1. /\ refs \in Seq(PlayerRoundRef)
        /\ Sorted(refs) /\ NoRoundTwice(refs)
    BY <1>2 DEF StoreInv, HistoryTypeOK, RefsFollow
  <2>2. Referred(k, b, Len(b), p, refs, new)
    BY <1>1, <1>2, RefsEffect
  <2>3. CASE new = refs
    BY <2>1, <2>3 DEF StaysIn
  <2>4. ASSUME NEW m \in 1 .. Len(b), new = add_ref(refs, ref_of(k, b[m]))
        PROVE  StaysIn(refs, new)
    <3>1. b[m] \in PlayerResult
      BY <1>1
    <3>2. ref_of(k, b[m]) \in PlayerRoundRef
      BY <3>1 DEF PlayerResult, PlayerRoundRef, ref_of
    <3>3. RefAdded(refs, ref_of(k, b[m]), new)
      BY <2>1, <2>4, <3>2, AddRefEffect
    <3> QED
      BY <3>3 DEF RefAdded, StaysIn
  <2> QED
    BY <2>2, <2>3, <2>4 DEF Referred
<1> QED
  BY <1>1, <1>3, <1>4 DEF NothingLost

\* Then every list a reader pages through only grows.
LEMMA ListsGrow ==
    ASSUME StoreInv, StoreInv', NothingLost, NEW list \in Lists
    PROVE  StaysIn(ListOf(list), ListOf(list)') /\ Len(ListOf(list)') \in Nat
<1>1. CASE list[1] = "history" /\ list[2] \in Players
  <2> DEFINE refs == player_round_refs[list[2]]
             new == player_round_refs'[list[2]]
  <2>1. refs \in Seq(PlayerRoundRef) /\ new \in Seq(PlayerRoundRef) /\ StaysIn(refs, new)
    BY <1>1 DEF StoreInv, HistoryTypeOK, NothingLost
  <2>2. /\ ListOf(list) = [i \in 1 .. Len(refs) |-> refs[i].round_key]
        /\ ListOf(list)' = [i \in 1 .. Len(new) |-> new[i].round_key]
    BY <1>1 DEF ListOf
  <2> HIDE DEF refs, new
  <2>3. /\ Len(ListOf(list)) = Len(refs)
        /\ Len(ListOf(list)') = Len(new)
    BY <2>1, <2>2
  <2> QED
    BY <2>1, <2>2, <2>3 DEF StaysIn
<1>2. CASE list[1] = "snapshots"
  <2> DEFINE keys == StoredKeys(list[2])
             more == StoredKeys(list[2])'
             rank == [k \in keys |-> k[2]]
             rank2 == [k \in more |-> k[2]]
  <2>1. ListOf(list) = in_key_order(keys, rank) /\ ListOf(list)' = in_key_order(more, rank2)
    BY <1>2 DEF ListOf
  <2>2. keys \subseteq more
    BY DEF NothingLost, StoredKeys
  <2>3. Ranked(keys, rank)
    <3>1. keys \subseteq Keys /\ \A k \in keys : k[1] = list[2]
      BY DEF StoredKeys
    <3> HIDE DEF keys
    <3> QED
      BY <3>1, RoundsRanked
  <2>4. Ranked(more, rank2)
    <3>1. more \subseteq Keys /\ \A k \in more : k[1] = list[2]
      BY DEF StoredKeys
    <3> HIDE DEF more
    <3> QED
      BY <3>1, RoundsRanked
  <2>5. \A k \in keys : rank[k] = rank2[k]
    <3> HIDE DEF keys, more
    <3> QED
      BY <2>2
  <2> HIDE DEF keys, more, rank, rank2
  <2> QED
    BY <2>1, <2>2, <2>3, <2>4, <2>5, KeyListGrows, KeyList
<1>3. CASE list[1] = "players"
  <2> DEFINE keys == registered_players
             more == registered_players'
             rank == [p \in keys |-> p]
             rank2 == [p \in more |-> p]
  <2>1. ListOf(list) = in_key_order(keys, rank) /\ ListOf(list)' = in_key_order(more, rank2)
    BY <1>3 DEF ListOf
  <2>2. keys \subseteq more /\ keys \subseteq Players /\ more \subseteq Players
    BY DEF NothingLost, StoreInv, HistoryTypeOK
  <2>3. Ranked(keys, rank) /\ Ranked(more, rank2)
    BY <2>2, PlayersRanked
  <2>4. \A p \in keys : rank[p] = rank2[p]
    <3> HIDE DEF keys, more
    <3> QED
      BY <2>2
  <2> HIDE DEF keys, more, rank, rank2
  <2> QED
    BY <2>1, <2>2, <2>3, <2>4, KeyListGrows, KeyList
<1> QED
  BY <1>1, <1>2, <1>3, ReaderAssumption

\* A reader who has not got the next page is as well off as before when the
\* lists grow.
LEMMA WalkWaits ==
    ASSUME StoreInv, StoreInv', WalkOn, NothingLost, UNCHANGED walk
    PROVE  WalkOn'
<1> SUFFICES ASSUME walk # None, ~walk.done
             PROVE  WalkOn'
  BY DEF WalkOn
<1>1. PICK list \in Lists :
         /\ walk.list = list
         /\ walk.offset \in Nat
         /\ walk.offset = 0 \/ walk.offset < Len(ListOf(list))
         /\ \A e \in walk.missing :
               \E i \in 1 .. Len(ListOf(list)) : walk.offset < i /\ ListOf(list)[i] = e
  BY DEF WalkOn
<1> DEFINE all == ListOf(list)
           grown == ListOf(list)'
<1>2. StaysIn(all, grown) /\ Len(grown) \in Nat
  BY ListsGrow
<1>3. all \in Seq(Keys \cup Players)
  BY ListShape
<1>4. Len(all) \in Nat
  BY <1>3
<1>5. walk.list = list /\ walk'.list = list
  BY <1>1
<1> HIDE DEF all, grown
<1>6. walk.offset = 0 \/ walk.offset < Len(grown)
  <2> SUFFICES ASSUME walk.offset < Len(all)
               PROVE  walk.offset < Len(grown)
    BY <1>1 DEF all
  <2>1. PICK j \in 1 .. Len(grown) : Len(all) <= j
    BY <1>1, <1>2, <1>4 DEF StaysIn
  <2> QED
    BY <1>1, <1>2, <1>4, <2>1
<1>7. ASSUME NEW e \in walk.missing
      PROVE  \E i \in 1 .. Len(grown) : walk.offset < i /\ grown[i] = e
  <2>1. PICK i \in 1 .. Len(all) : walk.offset < i /\ all[i] = e
    BY <1>1 DEF all
  <2>2. PICK j \in 1 .. Len(grown) : i <= j /\ grown[j] = all[i]
    BY <1>2 DEF StaysIn
  <2> QED
    BY <1>1, <1>2, <1>4, <2>1, <2>2
<1>8. ListOf(walk.list)' = grown
  BY <1>5 DEF grown, ListOf
<1> QED
  BY <1>6, <1>7, <1>8 DEF WalkOn

\* At the first page everything is still to come.
LEMMA WalkStarts ==
    ASSUME StoreInv, NEW list \in Lists, StartWalk(list)
    PROVE  WalkOn'
<1>1. /\ walk' = [list |-> list, offset |-> 0, missing |-> Entries(list), done |-> FALSE]
      /\ UNCHANGED historyVars
  BY DEF StartWalk
<1>2. ListOf(list)' = ListOf(list)
  BY <1>1 DEF ListOf, StoredKeys, historyVars, recordVars
<1>3. Len(ListOf(list)) \in Nat
  BY ListShape
<1>4. \A e \in Entries(list) :
         \E i \in 1 .. Len(ListOf(list)) : 0 < i /\ ListOf(list)[i] = e
  BY <1>3, ListShape
<1> DEFINE all == ListOf(list)
           next == [list |-> list, offset |-> 0, missing |-> Entries(list), done |-> FALSE]
<1>5. /\ next.list = list /\ next.offset = 0 /\ next.missing = Entries(list)
      /\ next.done = FALSE
  OBVIOUS
<1>6. walk' = next /\ next = [list |-> next.list, offset |-> next.offset,
                              missing |-> next.missing, done |-> next.done]
  BY <1>1
<1> HIDE DEF next
<1> QED
  BY <1>2, <1>4, <1>5, <1>6 DEF WalkOn

\* What a page does not show comes behind it; behind the last there is nothing.
LEMMA WalkTurnsPage ==
    ASSUME StoreInv, ListsFitMemory, WalkOn, NextPage
    PROVE  WalkOn'
<1>1. PICK list \in Lists, offset \in Nat :
         /\ walk = [list |-> list, offset |-> offset,
                    missing |-> walk.missing, done |-> walk.done]
         /\ walk.list = list /\ walk.offset = offset
         /\ offset = 0 \/ offset < Len(ListOf(list))
         /\ \A e \in walk.missing :
               \E i \in 1 .. Len(ListOf(list)) : offset < i /\ ListOf(list)[i] = e
  BY DEF WalkOn, NextPage
<1> DEFINE all == ListOf(list)
           got == Read(list, offset)
           missing == walk.missing \ got.entries
           done == offset + PageSize >= got.total
<1>2. /\ walk' = [walk EXCEPT !.offset = @ + PageSize,
                              !.missing = @ \ got.entries,
                              !.done = done]
      /\ UNCHANGED historyVars
  BY <1>1 DEF NextPage
<1>3. ListOf(list)' = all
  BY <1>2 DEF ListOf, StoredKeys, historyVars, recordVars
<1>4. all \in Seq(Keys \cup Players)
  BY ListShape
<1>5. Len(all) \in Nat /\ PageSize \in Nat
  BY <1>4, ReaderAssumption, PagingAssumption
<1>6. offset \in 0 .. Len(all)
  <2> HIDE DEF all
  <2> QED
    BY <1>1, <1>5 DEF all
<1>7. /\ got.total = Len(all)
      /\ \A i \in 1 .. Len(all) : offset < i /\ i <= offset + PageSize =>
            all[i] \in got.entries
  BY <1>6, ReadShows
<1> HIDE DEF all, got, done
<1>8. /\ walk'.list = list /\ walk'.offset = offset + PageSize
      /\ walk'.missing = missing /\ walk'.done = done
      /\ walk' = [list |-> walk'.list, offset |-> walk'.offset,
                  missing |-> walk'.missing, done |-> walk'.done]
  BY <1>1, <1>2
<1>9. \A e \in missing :
         \E i \in 1 .. Len(all) : offset + PageSize < i /\ all[i] = e
  <2> SUFFICES ASSUME NEW e \in missing
               PROVE  \E i \in 1 .. Len(all) : offset + PageSize < i /\ all[i] = e
    OBVIOUS
  <2>1. PICK i \in 1 .. Len(all) : offset < i /\ all[i] = e
    BY <1>1 DEF all
  <2>2. offset + PageSize < i
    BY <1>5, <1>7, <2>1
  <2> QED
    BY <2>1, <2>2
<1>10. done => missing = {}
  BY <1>5, <1>7, <1>9 DEF done
<1>11. ~done => offset + PageSize < Len(all)
  BY <1>5, <1>7 DEF done
<1>12. offset + PageSize \in Nat
  BY <1>5
<1>13. ListOf(walk.list)' = all
  BY <1>3, <1>8 DEF ListOf
<1> HIDE DEF missing
<1> QED
  BY <1>8, <1>9, <1>10, <1>11, <1>12, <1>13 DEF WalkOn

\* One step per action.
LEMMA WalkStep ==
    ASSUME StoreInv, StoreInv', ListsFitMemory, WalkOn, [Next]_vars
    PROVE  WalkOn'
<1>1. ASSUME UNCHANGED <<recordVars, registered_players, walk>>
      PROVE  WalkOn'
  <2>1. NothingLost
    BY <1>1, RefsStay DEF NothingLost, recordVars
  <2> QED
    BY <1>1, <2>1, WalkWaits
<1>2. ASSUME walk' = None
      PROVE  WalkOn'
  BY <1>2 DEF WalkOn
<1>3. ASSUME NEW k \in Keys, NEW b \in Batches[k], Deliver(k, b)
      PROVE  WalkOn'
  BY <1>3, DeliveryLosesNothing, WalkWaits DEF Deliver
<1>4. ASSUME NEW batch, SignUp(batch)
      PROVE  WalkOn'
  <2>1. NothingLost
    <3>1. /\ registered_players' = registered_players \cup batch
          /\ UNCHANGED <<round_snapshots, player_round_refs>>
      BY <1>4 DEF SignUp, add_players, recordVars
    <3> QED
      BY <3>1, RefsStay DEF NothingLost
  <2> QED
    BY <1>4, <2>1, WalkWaits DEF SignUp
<1>5. ASSUME NEW k \in Keys, NEW v \in Versions,
             update_round_config_version(k, v), UNCHANGED <<delivered, walk>>
      PROVE  WalkOn'
  <2>1. /\ \A q \in Keys : round_snapshots'[q] = None <=> round_snapshots[q] = None
        /\ UNCHANGED <<player_round_refs, registered_players>>
    BY <1>5, RepinEffect
  <2>2. NothingLost
    BY <2>1, RefsStay DEF NothingLost
  <2> QED
    BY <1>5, <2>2, WalkWaits
<1>6. CASE post_upgrade /\ UNCHANGED <<delivered, walk>>
  BY <1>5, <1>6, RecordAssumption DEF post_upgrade
<1>7. ASSUME NEW list \in Lists, StartWalk(list)
      PROVE  WalkOn'
  BY <1>7, WalkStarts
<1>8. CASE NextPage
  BY <1>8, WalkTurnsPage
<1>9. CASE EndWalk
  BY <1>2, <1>9 DEF EndWalk
<1>10. CASE UNCHANGED vars
  BY <1>1, <1>10 DEF vars, historyVars
<1> QED
  BY <1>1, <1>2, <1>3, <1>4, <1>5, <1>6, <1>7, <1>8, <1>9, <1>10
  DEF Next, DeliverNext, RepairNext

\* Who pages through a list up to its total has seen all that was there at the
\* start, whatever is stored and signed up meanwhile, if the lists have fewer
\* entries than a usize counts.
THEOREM WalksMissNothing == RepairSpec => [](ListsFitMemory => WalkMissesNothing)
<1>1. Init => DeliveryInv
  BY StoreInit DEF Init, DeliveryInv, WalkOn
<1>2. DeliveryInv /\ [Next]_vars => DeliveryInv'
  BY StoreStep, WalkStep DEF DeliveryInv
<1>3. DeliveryInv => (ListsFitMemory => WalkMissesNothing)
  BY DEF DeliveryInv, WalkOn, WalkMissesNothing
<1> QED
  BY <1>1, <1>2, <1>3, PTL DEF RepairSpec, Next

=============================================================================
