--------------------------- MODULE MCNetworkActors ---------------------------
(***************************************************************************)
(* Small instances of the viewer's actor table: own id 2 among four ids,   *)
(* and every batch of up to MaxDatagrams datagrams, of which one kind is   *)
(* neither an event nor a snapshot.                                        *)
(***************************************************************************)
EXTENDS NetworkActors

CONSTANT MaxDatagrams

MCIds == 1..4

MCSnapshots == [kind : {"snapshot"}, clientId : ClientIds, pose : Poses \ {SpawnPose}]

MCOther == [kind : {"connect"}, clientId : {Own}]

MCDatagrams ==
    UNION {[1..n -> EventPackets \cup MCSnapshots \cup MCOther] : n \in 0..MaxDatagrams}
=============================================================================
