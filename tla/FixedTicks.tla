------------------------------ MODULE FixedTicks ------------------------------
(***************************************************************************)
(* What a fixed tick of the simulation promises (runFixedTicks in          *)
(* src/simulation/runtime_world.cpp, and tests/simulation_runtime_tests):  *)
(* the world after a tick follows from the world before it and from the    *)
(* inputs recorded for it.  Neither the order in which the inputs are      *)
(* stored, nor the other actors, nor the cadence of the frames matter.     *)
(*                                                                         *)
(* Nothing is promised of an actor that has two inputs for one tick.       *)
(***************************************************************************)
EXTENDS Integers

CONSTANTS
    ActorIds,
    Start,           \* the actors of the imported world
    Rest(_),         \* an actor after a tick without input
    Respond(_, _)    \* an actor after a tick with one input

VARIABLES tick, actors, inputs

\* The inputs of an actor for the tick that comes, wherever they are stored.
Mine(id) == {k \in DOMAIN inputs : inputs[k].tick = tick /\ inputs[k].actorId = id}

Init == tick = 0 /\ actors = Start

Tick ==
    /\ tick' = tick + 1
    /\ \A id \in ActorIds :
          /\ Mine(id) = {} => actors'[id] = Rest(actors[id])
          /\ \A k \in Mine(id) :
                Mine(id) = {k} => actors'[id] = Respond(actors[id], inputs[k])
    /\ UNCHANGED inputs

Spec == Init /\ [][Tick]_<<tick, actors, inputs>>
=============================================================================
