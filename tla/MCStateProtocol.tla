---------------------------- MODULE MCStateProtocol ----------------------------
(* An instance of StateProtocol for TLC: the values at the ends of every field. *)
EXTENDS StateProtocol

Ids == {0, 1, 255}
Counts == {0, 1, 65535}

MCConnects == [kind : {1, 2}, clientId : Ids, sequence : Counts]
MCEvents == [kind : {4}, event : {1, 2}, clientId : Ids, sequence : {1, 65535}]

\* In parts of a step: halves, the ends of 22 bits and what is past them.
MCPositions == {0, 1, 2, -1, -2, 4 * 2097151, 4 * 2097151 + 2, -4 * 2097152, -4 * 2097152 - 3}
MCYaws == {0, -1, -2, 3, 4 * 65534, 4 * 65535 - 3, 4 * 65535, 4 * 65535 + 6}

Snapshot(tick, flags, x, y, z, yaw) ==
    [kind |-> 3, clientId |-> 7, tick |-> tick, flags |-> flags,
     x |-> x, y |-> y, z |-> z, yaw |-> yaw]

MCSnapshots ==
    {Snapshot(0, 7, x, -2, 4 * 2097151, yaw) : x \in MCPositions, yaw \in MCYaws}
    \cup {Snapshot(tick, 255, 1, y, z, 5) :
             tick \in Counts, y \in MCPositions, z \in {-4 * 2097152, -6}}
=============================================================================
