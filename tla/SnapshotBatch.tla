---------------------------- MODULE SnapshotBatch ----------------------------
(***************************************************************************)
(* What a viewer makes of the datagrams it drains from its socket in one   *)
(* frame.                                                                  *)
(*                                                                         *)
(* SnapshotClient::receive (src/network/snapshot_client.cpp) splits them   *)
(* into a vector of server events and a vector of snapshots;               *)
(* pumpNetworkSnapshots (src/vulkan_scene_viewer.cpp) applies all events,  *)
(* then all snapshots.  Which of an event and a snapshot came first is     *)
(* therefore not known any more: the outcome depends only on the events    *)
(* and the last snapshot about a client, which AfterBatch says without     *)
(* running the loops.                                                      *)
(***************************************************************************)
EXTENDS Integers, Sequences, FiniteSetsExt

CONSTANTS
    ClientIds,   \* nonzero client ids
    SpawnPose,   \* the transform createNetworkActorInstance gives an actor
    None         \* no actor

\* The packets at the given positions, in their order: what a loop that appends
\* some of the packets it goes through makes.
Kept(packets, positions) ==
    LET kept[n \in 0..Len(packets)] ==
            IF n = 0 THEN <<>>
            ELSE IF n \in positions THEN Append(kept[n - 1], packets[n])
            ELSE kept[n - 1]
    IN  kept[Len(packets)]

\* The two vectors receive makes of the datagrams it drains.
EventsIn(datagrams) ==
    Kept(datagrams, {i \in DOMAIN datagrams : datagrams[i].kind = "serverEvent"})

\* MUTANT of SnapshotsIn: the viewer's own snapshots are not filtered out.
SnapshotsIn_WithOwn(datagrams, own) ==
    Kept(datagrams, {i \in DOMAIN datagrams : datagrams[i].kind = "snapshot"})

SnapshotsIn(datagrams, own) ==
    Kept(datagrams, {i \in DOMAIN datagrams : /\ datagrams[i].kind = "snapshot"
                                              /\ datagrams[i].clientId # own})

\* The positions of the packets about client c, and of the disconnects among them.
About(packets, c) == {i \in DOMAIN packets : packets[i].clientId = c}

Leaving(events, c) == {i \in About(events, c) : events[i].event = "clientDisconnected"}

\* MUTANT of AfterEvents: one disconnect in the batch removes the actor for good.
AfterEvents_AnyDisconnect(pose, events, c) ==
    IF About(events, c) = {} THEN pose
    ELSE IF Leaving(events, c) # {} THEN None
    ELSE IF pose = None THEN SpawnPose
    ELSE pose

\* The pose of c's actor once the events are applied: what the last event about c
\* says; an actor that was removed in between comes back in its spawn pose.
AfterEvents(pose, events, c) ==
    IF About(events, c) = {} THEN pose
    ELSE IF Max(About(events, c)) \in Leaving(events, c) THEN None
    ELSE IF pose = None \/ Leaving(events, c) # {} THEN SpawnPose
    ELSE pose

\* The pose the last snapshot about c brings.
LastPose(snapshots, c) == snapshots[Max(About(snapshots, c))].pose

\* MUTANT of AfterBatch: a snapshot moves an actor there is but makes none appear.
AfterBatch_KnownOnly(poses, own, events, snapshots) ==
    [c \in ClientIds |->
        LET announced == IF c = own THEN poses[c] ELSE AfterEvents(poses[c], events, c)
        IN  IF announced # None /\ About(snapshots, c) # {}
            THEN LastPose(snapshots, c) ELSE announced]

\* The poses after a batch.  Events about the viewer's own id are ignored.
AfterBatch(poses, own, events, snapshots) ==
    [c \in ClientIds |->
        IF About(snapshots, c) # {} THEN LastPose(snapshots, c)
        ELSE IF c = own THEN poses[c]
        ELSE AfterEvents(poses[c], events, c)]
=============================================================================
