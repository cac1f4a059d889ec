--------------------------- MODULE NetworkActors ---------------------------
(***************************************************************************)
(* The actor table of the scene viewer in network mode, and the frame that *)
(* feeds it: src/vulkan_scene_viewer.cpp with the batch that               *)
(* src/network/snapshot_client.cpp drains.                                 *)
(*                                                                         *)
(* Instances of the scene and combat actors live in two vectors that are   *)
(* pushed, erased and indexed together; m_networkActorByClientId and       *)
(* m_playerIndex hold indexes into both.  Vectors are sequences, so an     *)
(* index here is one more than in the code.  A transform is a pose, and    *)
(* the line geometry of the scene is the sequence of poses it was built    *)
(* from.  One frame of mainLoop runs through the phases poll, pump,        *)
(* simulate and draw; the pump takes one step per event and per snapshot.  *)
(***************************************************************************)
EXTENDS Integers, SequencesExt, SnapshotBatch

CONSTANTS
    Own,         \* networkClientId, nonzero: the viewer is in network mode
    Poses,       \* transforms an actor can be in
    Datagrams    \* the batches receive may drain in one frame

ASSUME OwnAssumption == Own \in ClientIds
ASSUME SpawnPoseAssumption == SpawnPose \in Poses
ASSUME NoneAssumption == None \notin Nat /\ None \notin Poses

EventPackets ==
    [kind : {"serverEvent"}, event : {"clientConnected", "clientDisconnected"},
     clientId : ClientIds]

SnapshotPackets == [kind : {"snapshot"}, clientId : ClientIds, pose : Poses]

Instances == [id : ClientIds, transform : Poses]

\* moveSpeed is the profile field an actor's speed was last taken from.
ActorStates ==
    [previous : Poses, current : Poses, moveSpeed : {"unset", "player", "sparring"}]

\* What else may arrive: receive drops it.
OtherPackets == [kind : {"connect", "disconnect"}, clientId : ClientIds]

ASSUME DatagramsAssumption ==
    Datagrams \subseteq Seq(EventPackets \cup SnapshotPackets \cup OtherPackets)

VARIABLES
    scene,    \* instances, actorStates, networkActorByClientId, playerIndex,
              \* lineData, lineGeometryDirty
    batch,    \* what is left of the batch being applied, and `applied`
    phase,    \* where the frame is: "poll", "pump", "simulate" or "draw"
    networkTransformApplied,
    lineBuffer  \* the poses the uploaded line vertices were built from

actorVars == <<scene, batch, phase, networkTransformApplied, lineBuffer>>

NoBatch == [events |-> <<>>, snapshots |-> <<>>, applied |-> FALSE]

\* buildSceneLineData
Lines(instances) == [i \in DOMAIN instances |-> instances[i].transform]
-----------------------------------------------------------------------------
\* MUTANT of WithProfile: the profile is not applied to a new actor.
WithProfile_Skipped(actorStates, playerIndex) == actorStates

\* applyControlProfileToActors
WithProfile(actorStates, playerIndex) ==
    [i \in DOMAIN actorStates |->
        [actorStates[i] EXCEPT !.moveSpeed =
            IF i = playerIndex THEN "player" ELSE "sparring"]]

\* createNetworkActorInstance.  There are no combat actors yet while the
\* constructor creates the viewer's own instance.
CreateActor(s, c) ==
    LET instances == Append(s.instances, [id |-> c, transform |-> SpawnPose])
        actor == [previous |-> SpawnPose, current |-> SpawnPose, moveSpeed |-> "unset"]
        combat == s.actorStates # <<>>
    IN  [instances |-> instances,
         actorStates |->
            IF combat THEN WithProfile(Append(s.actorStates, actor), s.playerIndex)
            ELSE s.actorStates,
         networkActorByClientId |->
            [s.networkActorByClientId EXCEPT ![c] = Len(instances)],
         playerIndex |-> s.playerIndex,
         lineData |-> IF combat THEN Lines(instances) ELSE s.lineData,
         lineGeometryDirty |-> combat \/ s.lineGeometryDirty]

\* ensureNetworkActor
EnsureActor(s, c) ==
    IF s.networkActorByClientId[c] # None THEN s ELSE CreateActor(s, c)

\* MUTANTS of RemoveActor: the indexes above the gap stay, or the shortened line
\* geometry is not marked dirty.
RemoveActor_KeepsIndexes(s, c) ==
    IF c = Own \/ s.networkActorByClientId[c] = None THEN s
    ELSE LET index == s.networkActorByClientId[c]
             instances == RemoveAt(s.instances, index)
         IN  [s EXCEPT !.instances = instances,
                       !.actorStates = RemoveAt(s.actorStates, index),
                       !.networkActorByClientId[c] = None,
                       !.lineData = Lines(instances),
                       !.lineGeometryDirty = TRUE]

RemoveActor_NotDirty(s, c) ==
    IF c = Own \/ s.networkActorByClientId[c] = None THEN s
    ELSE LET index == s.networkActorByClientId[c]
             instances == RemoveAt(s.instances, index)
             Shifted(i) == IF i > index THEN i - 1 ELSE i
         IN  [s EXCEPT !.instances = instances,
                       !.actorStates = RemoveAt(s.actorStates, index),
                       !.networkActorByClientId =
                          [d \in ClientIds |->
                              IF d = c \/ s.networkActorByClientId[d] = None THEN None
                              ELSE Shifted(s.networkActorByClientId[d])],
                       !.lineData = Lines(instances)]

\* MUTANT of RemoveActor: the last actor takes the place of the removed one.
RemoveActor_SwapsLast(s, c) ==
    IF c = Own \/ s.networkActorByClientId[c] = None THEN s
    ELSE LET index == s.networkActorByClientId[c]
             Filled(seq) == Front([seq EXCEPT ![index] = Last(seq)])
             Shifted(i) == IF i > index THEN i - 1 ELSE i
         IN  [instances |-> Filled(s.instances),
              actorStates |-> Filled(s.actorStates),
              networkActorByClientId |->
                [d \in ClientIds |->
                    IF d = c \/ s.networkActorByClientId[d] = None THEN None
                    ELSE Shifted(s.networkActorByClientId[d])],
              playerIndex |-> Shifted(s.playerIndex),
              lineData |-> Lines(Filled(s.instances)),
              lineGeometryDirty |-> TRUE]

\* removeNetworkActor: the own actor stays; every index above the gap moves down.
RemoveActor(s, c) ==
    IF c = Own \/ s.networkActorByClientId[c] = None THEN s
    ELSE LET index == s.networkActorByClientId[c]
             instances == RemoveAt(s.instances, index)
             Shifted(i) == IF i > index THEN i - 1 ELSE i
         IN  [instances |-> instances,
              actorStates |-> RemoveAt(s.actorStates, index),
              networkActorByClientId |->
                [d \in ClientIds |->
                    IF d = c \/ s.networkActorByClientId[d] = None THEN None
                    ELSE Shifted(s.networkActorByClientId[d])],
              playerIndex |-> Shifted(s.playerIndex),
              lineData |-> Lines(instances),
              lineGeometryDirty |-> TRUE]

\* syncSceneToCombatCurrent
Synced(s) ==
    LET instances == [i \in DOMAIN s.instances |->
                        [s.instances[i] EXCEPT !.transform = s.actorStates[i].current]]
    IN  [s EXCEPT !.instances = instances,
                  !.lineData = Lines(instances),
                  !.lineGeometryDirty = TRUE]

\* A remote snapshot of client c, whose actor exists.
ShowSnapshot(s, c, pose) ==
    LET index == s.networkActorByClientId[c]
        actor == s.actorStates[index]
    IN  [s EXCEPT !.actorStates[index] =
            [actor EXCEPT !.previous = actor.current, !.current = pose]]
-----------------------------------------------------------------------------
\* The constructor: configureNetworkActors keeps one instance, the own actor, and
\* initializeCombatActors gives it its combat state.
InitialScene ==
    [instances |-> <<[id |-> Own, transform |-> SpawnPose]>>,
     actorStates |-> <<[previous |-> SpawnPose, current |-> SpawnPose,
                        moveSpeed |-> "player"]>>,
     networkActorByClientId |-> [c \in ClientIds |-> IF c = Own THEN 1 ELSE None],
     playerIndex |-> 1,
     lineData |-> <<SpawnPose>>,
     lineGeometryDirty |-> FALSE]

ActorsInit ==
    /\ scene = InitialScene
    /\ batch = NoBatch
    /\ phase = "poll"
    /\ networkTransformApplied = FALSE
    /\ lineBuffer = <<SpawnPose>>

\* pumpNetworkSnapshots begins: receive drains the socket.
Receive(datagrams) ==
    /\ phase = "poll"
    /\ phase' = "pump"
    /\ batch' = [events |-> EventsIn(datagrams),
                 snapshots |-> SnapshotsIn(datagrams, Own),
                 applied |-> FALSE]
    /\ UNCHANGED <<scene, networkTransformApplied, lineBuffer>>

AfterEvent(s, event) ==
    IF event.event = "clientDisconnected" THEN RemoveActor(s, event.clientId)
    ELSE IF event.clientId # Own THEN EnsureActor(s, event.clientId)
    ELSE s

HandleEvent ==
    /\ phase = "pump" /\ batch.events # <<>>
    /\ scene' = AfterEvent(scene, Head(batch.events))
    /\ batch' = [batch EXCEPT !.events = Tail(@)]
    /\ UNCHANGED <<phase, networkTransformApplied, lineBuffer>>

HandleSnapshot ==
    /\ phase = "pump" /\ batch.events = <<>> /\ batch.snapshots # <<>>
    /\ LET p == Head(batch.snapshots)
       IN  scene' = ShowSnapshot(EnsureActor(scene, p.clientId), p.clientId, p.pose)
    /\ batch' = [batch EXCEPT !.snapshots = Tail(@), !.applied = TRUE]
    /\ UNCHANGED <<phase, networkTransformApplied, lineBuffer>>

EndPump ==
    /\ phase = "pump" /\ batch.events = <<>> /\ batch.snapshots = <<>>
    /\ phase' = "simulate"
    /\ batch' = NoBatch
    /\ IF batch.applied
       THEN /\ scene' = Synced(scene)
            /\ networkTransformApplied' = TRUE
       ELSE UNCHANGED <<scene, networkTransformApplied>>
    /\ UNCHANGED lineBuffer

\* updateSimulation when no fixed tick is due.
SimulateNoTick ==
    /\ phase = "simulate"
    /\ phase' = "draw"
    /\ networkTransformApplied' = FALSE
    /\ UNCHANGED <<scene, batch, lineBuffer>>

\* beginTick for every actor, then the player's locomotion.
Ticked(s, pose) ==
    [s EXCEPT !.actorStates =
        [i \in DOMAIN s.actorStates |->
            [s.actorStates[i] EXCEPT !.previous = s.actorStates[i].current,
                                     !.current = IF i = s.playerIndex THEN pose ELSE @]]]

\* updateSimulation with fixed ticks that leave the player at `pose`.
SimulateTicks(pose) ==
    /\ phase = "simulate"
    /\ phase' = "draw"
    /\ LET ticked == Ticked(scene, pose)
           moved == \/ pose # scene.actorStates[scene.playerIndex].current
                    \/ networkTransformApplied
       IN  scene' = IF moved THEN Synced(ticked) ELSE ticked
    /\ networkTransformApplied' = FALSE
    /\ UNCHANGED <<batch, lineBuffer>>

\* drawFrame: the line vertices are uploaded again when they are dirty.
DrawFrame ==
    /\ phase = "draw"
    /\ phase' = "poll"
    /\ IF scene.lineGeometryDirty
       THEN /\ lineBuffer' = scene.lineData
            /\ scene' = [scene EXCEPT !.lineGeometryDirty = FALSE]
       ELSE UNCHANGED <<scene, lineBuffer>>
    /\ UNCHANGED <<batch, networkTransformApplied>>

ActorsNext ==
    \/ \E datagrams \in Datagrams : Receive(datagrams)
    \/ HandleEvent
    \/ HandleSnapshot
    \/ EndPump
    \/ SimulateNoTick
    \/ \E pose \in Poses : SimulateTicks(pose)
    \/ DrawFrame

ActorsSpec == ActorsInit /\ [][ActorsNext]_actorVars
-----------------------------------------------------------------------------
(***************************************************************************)
(* Properties.                                                             *)
(***************************************************************************)
\* The vectors, the indexes and the batch hold what their types say.
ActorsTypeOK ==
    /\ scene.instances \in Seq(Instances)
    /\ scene.actorStates \in Seq(ActorStates)
    /\ scene.networkActorByClientId
          \in [ClientIds -> (DOMAIN scene.instances) \cup {None}]
    /\ scene.playerIndex \in DOMAIN scene.instances
    /\ scene.lineData \in Seq(Poses)
    /\ scene.lineGeometryDirty \in BOOLEAN
    /\ batch.events \in Seq(EventPackets)
    /\ batch.snapshots \in Seq(SnapshotPackets)
    /\ batch.applied \in BOOLEAN
    /\ phase \in {"poll", "pump", "simulate", "draw"}
    /\ networkTransformApplied \in BOOLEAN
    /\ lineBuffer \in Seq(Poses)

IndexOf(c) == scene.networkActorByClientId[c]

\* After any sequence of connects and disconnects the two vectors are parallel,
\* every mapped client id leads to its own instance, every instance is mapped,
\* and the player index still leads to the own actor.  A wrong shift after an
\* erase would move one client's actor with the snapshots of another.
IndexTableExact ==
    /\ Len(scene.instances) = Len(scene.actorStates)
    /\ \A c \in ClientIds :
          IndexOf(c) # None => /\ IndexOf(c) \in DOMAIN scene.instances
                               /\ scene.instances[IndexOf(c)].id = c
    /\ \A i \in DOMAIN scene.instances : IndexOf(scene.instances[i].id) = i
    /\ IndexOf(Own) # None /\ scene.playerIndex = IndexOf(Own)

\* The player's actor, and only it, moves with the player's speed, whatever
\* actors were created and erased around it.
PlayerSpeedFollowsPlayer ==
    \A i \in DOMAIN scene.actorStates :
        scene.actorStates[i].moveSpeed =
            IF i = scene.playerIndex THEN "player" ELSE "sparring"

\* When a frame has been drawn, the uploaded line geometry is that of the actors
\* as they are: none of the places that create, erase or move an actor forgets
\* to rebuild the lines or to mark them dirty.
DrawnLinesAreCurrent ==
    phase = "poll" =>
        lineBuffer = [i \in DOMAIN scene.actorStates |-> scene.actorStates[i].current]

\* Whatever datagrams arrive, applying them leaves the own actor where it is and
\* on the screen: events about the own id, snapshots echoed to their sender and
\* the shifting of indexes around it notwithstanding.
NetworkNeverMovesOwnActor ==
    [][phase = "pump" =>
          scene'.actorStates[scene'.playerIndex].current
              = scene.actorStates[scene.playerIndex].current]_actorVars

\* The actor on the screen for every client id once the rest of the batch is
\* applied: the batch takes effect, for ViewerRoster, when it is received.
PoseOf(c) == IF IndexOf(c) = None THEN None ELSE scene.actorStates[IndexOf(c)].current

ShownAfterBatch ==
    AfterBatch([c \in ClientIds |-> PoseOf(c)], Own, batch.events, batch.snapshots)

Roster == INSTANCE ViewerRoster WITH shown <- ShownAfterBatch

\* The vectors and indexes, updated one event and one snapshot at a time, give
\* every client id the actor and the pose that ViewerRoster gives it in one step.
ImplementsRoster == Roster!Spec
=============================================================================
