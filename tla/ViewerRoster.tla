---------------------------- MODULE ViewerRoster ----------------------------
(***************************************************************************)
(* What the actor table of the scene viewer promises, without vectors and  *)
(* indexes: which client ids have an actor on the screen and in which      *)
(* pose.  A batch of datagrams is applied in one step.                     *)
(***************************************************************************)
EXTENDS SnapshotBatch

CONSTANTS
    Own,         \* networkClientId, the id of this viewer's own actor
    Poses,       \* transforms an actor can be in
    Datagrams    \* the batches receive may drain in one frame

VARIABLE shown   \* the pose of the actor of every client id, or None

Init == shown = [c \in ClientIds |-> IF c = Own THEN SpawnPose ELSE None]

Pump(datagrams) ==
    shown' = AfterBatch(shown, Own, EventsIn(datagrams), SnapshotsIn(datagrams, Own))

MoveOwn(pose) == shown' = [shown EXCEPT ![Own] = pose]

Next ==
    \/ \E datagrams \in Datagrams : Pump(datagrams)
    \/ \E pose \in Poses : MoveOwn(pose)

Spec == Init /\ [][Next]_shown
=============================================================================
