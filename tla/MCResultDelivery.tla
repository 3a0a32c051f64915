-------------------------- MODULE MCResultDelivery --------------------------
(* ResultDelivery on two rounds and three players. *)
EXTENDS ResultDelivery

CONSTANTS s1, s2, won, lost, v1, v2

r1 == <<0, 1>>
r2 == <<0, 2>>
p1 == 1
p2 == 2
p3 == 3

rec(p, ts, res) == [player |-> p, join_ts |-> ts, result |-> res]

\* Round r1 comes in two batches that disagree about p2 (a result corrected
\* between two reports); round r2 in two disjoint ones.  Timestamps tie for
\* p1 and are out of order for p2.
MCKeys == {r1, r2}
MCMigratedKey == r1
MCPlayers == {p1, p2, p3}
Malformed == 0
MCBatches ==
    (r1 :> {<<rec(p1, 1, won), rec(p2, 2, lost)>>, <<rec(p2, 1, won), rec(p3, 0, lost)>>})
 @@ (r2 :> {<<rec(p2, 1, won)>>, <<rec(p1, 1, lost), rec(p3, 2, won)>>,
           <<rec(p3, 2, lost), rec(Malformed, 2, won)>>})

MCSignups == {{p2, p3}, {p1}, {p1, Malformed}}
MCLists == {<<"history", p2>>, <<"snapshots", 0>>, <<"players">>}

\* Round r1 is reported as emitted with and without a signature, and a
\* signature, which comes with another season, with and without the mark.
\* Round r2 emits nothing.
MCReports ==
    (r1 :> {report \in Report : report.emit_tx_sig = None <=> report.season_id = s1})
 @@ (r2 :> {[season_id |-> s2, did_emit |-> FALSE, emit_tx_sig |-> None]})
=============================================================================
