------------------------------ MODULE Locomotion ------------------------------
(***************************************************************************)
(* The movement functions of src/combat/combat_simulation.cpp that the     *)
(* viewer and the runtime world share.  They are pure: a body goes in and  *)
(* a body comes out.                                                       *)
(*                                                                         *)
(* The arena is a line, -HalfExtent..HalfExtent, and a body faces one of   *)
(* its ends: a yaw and two coordinates are a sign and one.  Lengths are    *)
(* integers and a speed is the way of one fixed tick.                      *)
(***************************************************************************)
EXTENDS Integers

CONSTANTS
    HalfExtent,  \* half the size of the arena's floor
    Faint        \* an axis that is no zero, and too small to move anybody

ASSUME HalfExtentAssumption == HalfExtent \in Nat
ASSUME FaintAssumption == Faint \notin Int

Axes == {-1, 0, 1, Faint}

\* MovementTuning: how fast, what keeps a body from the arena's edge, and how near is there.
Tunings == [run : Nat, sprintScale : Nat, backpedalDivisor : Nat \ {0},
            inset : Nat, radius : Nat]

\* max(halfExtents - edgeInset, 0): a large inset leaves the middle.
Allowed(tuning) ==
    IF tuning.inset <= HalfExtent THEN HalfExtent - tuning.inset ELSE 0

Clamped(x, limit) == IF x < -limit THEN -limit ELSE IF x > limit THEN limit ELSE x

Distance(x, y) == IF x < y THEN y - x ELSE x - y

Smaller(x, y) == IF x < y THEN x ELSE y

\* applyFramedStrafeLocomotion: along the movement frame's yaw, slower backwards; the
\* body turns to that yaw if it is locked to the frame.
Strafe(body, axis, yaw, locked, speed, tuning) ==
    LET way == IF axis = -1 THEN speed \div tuning.backpedalDivisor ELSE speed
    IN  [body EXCEPT !.facing = IF locked THEN yaw ELSE @,
                     !.position = IF axis \in {-1, 1}
                                  THEN Clamped(@ + axis * yaw * way, Allowed(tuning))
                                  ELSE @]

\* What that function returns: whether the body moved or turned.
Strafes(body, axis, yaw, locked) == axis \in {-1, 1} \/ (locked /\ body.facing # yaw)

\* What applyMoveToWorldTarget returns, for a speed: whether the target is far.
WalksTo(body, target, tuning) == Distance(body.position, target) > tuning.radius

\* applyMoveToWorldTarget: a step to a target that is far, no longer than the way there.
WalkTo(body, target, speed, tuning) ==
    LET direction == IF target > body.position THEN 1 ELSE -1
        step == Smaller(speed, Distance(body.position, target))
    IN  IF WalksTo(body, target, tuning)
        THEN [body EXCEPT !.facing = direction,
                          !.position = Clamped(@ + direction * step, Allowed(tuning))]
        ELSE body
=============================================================================
