---------------------------- MODULE MCRuntimeWorld ----------------------------
(* Instance of RuntimeWorld for TLC. *)
EXTENDS RuntimeWorld

\* One actor in the middle, and one spawned beyond the edge's inset.
MCSpawns == <<[position |-> 0, facing |-> 1], [position |-> 3, facing |-> -1]>>

MCTuning == [run |-> 2, sprintScale |-> 2, backpedalDivisor |-> 2, inset |-> 1, radius |-> 0]

\* What an input may ask for: move, faintly too, turn, walk to a place in the arena or
\* beyond it, or nothing.
MCOrders ==
    [moveAxes : {-1, 1}, cameraSteering : {FALSE}, sprint : BOOLEAN, moveTarget : {None}]
    \cup [moveAxes : {0, Faint}, cameraSteering : BOOLEAN, sprint : {FALSE},
          moveTarget : {None, 1, 3}]

Input(tick, actorId, order) ==
    [tick |-> tick, actorId |-> actorId, yaw |-> -1, moveAxes |-> order.moveAxes,
     cameraSteering |-> order.cameraSteering, sprint |-> order.sprint,
     moveTarget |-> order.moveTarget]

Nothing == [moveAxes |-> 0, cameraSteering |-> FALSE, sprint |-> FALSE, moveTarget |-> None]

\* Two inputs of the first two ticks in either order of storage, of one actor or of two,
\* between an input of nobody and one without any order, which lets a walk go on.
MCLogs ==
    {<<Input(1, 3, order), Input(1, 1, order), Input(tick, actorId, other),
       Input(2, 1, Nothing)>> :
        order \in MCOrders, other \in MCOrders, tick \in 0..1, actorId \in 1..2}

MCFrameTimes == {20, 40, 120}
MCRounding == {-1, 0, 1}
=============================================================================
