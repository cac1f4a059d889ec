--------------------------- MODULE MCSnapshotRelay ---------------------------
(***************************************************************************)
(* Small instances of the relay: three sockets and three client ids, so    *)
(* that an id can be taken over, a socket can change its id, and a third   *)
(* session watches both.                                                   *)
(***************************************************************************)
EXTENDS SnapshotRelay

MCIds == 1..3
MCTwoIds == 1..2
MCSequences == {7}
=============================================================================
