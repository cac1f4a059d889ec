------------------------- MODULE RuntimeWorld_proofs -------------------------
(***************************************************************************)
(* Proofs about RuntimeWorld, for every world, log, tuning and cadence.    *)
(*                                                                         *)
(* The inductive invariant WorldInv says, in the middle of a tick, what    *)
(* each actor is so far: as it began, while all of its inputs are pending; *)
(* as its input makes it, when that one is applied.                        *)
(***************************************************************************)
EXTENDS RuntimeWorld, TLAPS

\* The inputs of an actor for the tick that runs.
Mine(id) == {k \in DOMAIN log : log[k].tick = world.tick /\ log[k].actorId = id}

BetweenTicks == phase # "inputs" => settled = world.actors /\ pending = {}

WithinTick ==
    phase = "inputs" =>
        \A id \in ActorIds :
            /\ Mine(id) \subseteq pending => world.actors[id] = Begun(settled[id])
            /\ \A k \in Mine(id) :
                  Mine(id) = {k} /\ k \notin pending
                    => world.actors[id] = ApplyInput(Begun(settled[id]), log[k])

WorldInv == WorldTypeOK /\ BetweenTicks /\ WithinTick
-----------------------------------------------------------------------------
(* The functions of one actor.                                             *)

\* Clamping gives an integer within the limits.
LEMMA ClampedRange ==
    ASSUME NEW x \in Int, NEW limit \in Nat
    PROVE  Clamped(x, limit) \in Int /\ Clamped(x, limit) \in -limit..limit
BY DEF Clamped

LEMMA AllowedType == Allowed(Tuning) \in Nat
BY HalfExtentAssumption, TuningAssumption DEF Allowed, Tunings

\* The way of a backward step.
LEMMA DivisionType ==
    ASSUME NEW n \in Nat, NEW d \in Nat \ {0}
    PROVE  n \div d \in Nat
OBVIOUS

\* A step of either function leaves a body a body (applyFramedStrafeLocomotion).
LEMMA StrafeType ==
    ASSUME NEW body \in Bodies, NEW axis \in Axes, NEW yaw \in {-1, 1},
           NEW locked \in BOOLEAN, NEW speed \in Nat
    PROVE  Strafe(body, axis, yaw, locked, speed, Tuning) \in Bodies
<1> DEFINE way == IF axis = -1 THEN speed \div Tuning.backpedalDivisor ELSE speed
           to == body.position + axis * yaw * way
<1>1. Tuning.backpedalDivisor \in Nat \ {0}
  BY TuningAssumption DEF Tunings
<1>2. way \in Nat
  BY <1>1, DivisionType
<1>3. axis \in {-1, 1} => to \in Int
  <2> HIDE DEF way
  <2> QED BY <1>2 DEF Bodies
<1>4. axis \in {-1, 1} => Clamped(to, Allowed(Tuning)) \in Int
  BY <1>3, AllowedType, ClampedRange
<1> HIDE DEF to
<1>5. [body EXCEPT !.facing = IF locked THEN yaw ELSE @,
                   !.position = IF axis \in {-1, 1} THEN Clamped(to, Allowed(Tuning)) ELSE @]
        \in Bodies
  BY <1>4 DEF Bodies
<1> QED BY <1>5 DEF Strafe, to

\* ... and applyMoveToWorldTarget.
LEMMA WalkType ==
    ASSUME NEW body \in Bodies, NEW target \in Int, NEW speed \in Nat
    PROVE  WalkTo(body, target, speed, Tuning) \in Bodies
<1> DEFINE direction == IF target > body.position THEN 1 ELSE -1
           step == Smaller(speed, Distance(body.position, target))
           to == body.position + direction * step
<1>1. step \in Nat
  BY DEF Bodies, Smaller, Distance
<1>2. to \in Int
  <2> HIDE DEF step
  <2> QED BY <1>1 DEF Bodies
<1>3. Clamped(to, Allowed(Tuning)) \in Int
  BY <1>2, AllowedType, ClampedRange
<1> HIDE DEF to
<1>4. [body EXCEPT !.facing = direction, !.position = Clamped(to, Allowed(Tuning))] \in Bodies
  BY <1>3 DEF Bodies
<1> QED BY <1>4 DEF WalkTo, to

\* Beginning a tick leaves an actor an actor.
LEMMA BegunType ==
    ASSUME NEW actor \in Actors
    PROVE  Begun(actor) \in Actors
BY DEF Begun, Actors

\* What an input sets before anything moves.
LEMMA InstructedType ==
    ASSUME NEW actor \in Actors, NEW input \in InputFrames
    PROVE  Instructed(actor, input) \in Actors
<1> DEFINE speed == Tuning.run * (IF input.sprint THEN Tuning.sprintScale ELSE 1)
<1>1. speed \in Nat
  BY TuningAssumption DEF Tunings, InputFrames
<1> HIDE DEF speed
<1>2. [actor EXCEPT
        !.sprinting = input.sprint,
        !.cameraSteering = input.cameraSteering,
        !.moveTarget = IF input.moveTarget # None THEN input.moveTarget ELSE @,
        !.hasMoveTarget = (@ \/ input.moveTarget # None) /\ input.moveAxes = 0,
        !.moveSpeed = speed] \in Actors
  BY <1>1 DEF Actors, InputFrames
<1> QED BY <1>2 DEF Instructed, speed

\* An input leaves an actor an actor (applyInput).
LEMMA ApplyInputType ==
    ASSUME NEW actor \in Actors, NEW input \in InputFrames
    PROVE  ApplyInput(actor, input) \in Actors
<1> DEFINE told == Instructed(actor, input)
<1>1. told \in Actors
  BY InstructedType
<1> HIDE DEF told
<1>2. ASSUME NEW locked \in BOOLEAN
      PROVE  StrafeBy(told, input, locked) \in Actors
  <2>1. Strafe(told.current, input.moveAxes, input.yaw, locked, told.moveSpeed, Tuning) \in Bodies
    BY <1>1, StrafeType DEF Actors, InputFrames
  <2>2. Strafes(told.current, input.moveAxes, input.yaw, locked) \in BOOLEAN
    BY DEF Strafes
  <2> QED BY <1>1, <2>1, <2>2 DEF StrafeBy, Actors
<1>3. WalkOn(told) \in Actors
  <2>1. WalkTo(told.current, told.moveTarget, told.moveSpeed, Tuning) \in Bodies
    BY <1>1, WalkType DEF Actors
  <2>2. WalksTo(told.current, told.moveTarget, Tuning) \in BOOLEAN
    BY DEF WalksTo
  <2> QED BY <1>1, <2>1, <2>2 DEF WalkOn, Actors
<1>4. [told EXCEPT !.moved = FALSE] \in Actors
  BY <1>1 DEF Actors
<1>5. input.cameraSteering \in BOOLEAN
  BY DEF InputFrames
<1> QED BY <1>2, <1>3, <1>4, <1>5 DEF ApplyInput, told
-----------------------------------------------------------------------------
(* Whether an actor was moved.                                             *)

\* The speed an input sets suffices for a step in either direction.
LEMMA SpeedSuffices ==
    ASSUME NEW actor \in Actors, NEW input \in InputFrames
    PROVE  /\ Instructed(actor, input).moveSpeed \in Nat \ {0}
           /\ Instructed(actor, input).moveSpeed \div Tuning.backpedalDivisor \in Nat \ {0}
<1> DEFINE scale == IF input.sprint THEN Tuning.sprintScale ELSE 1
           speed == Tuning.run * scale
           divisor == Tuning.backpedalDivisor
<1>1. /\ Tuning.run \in Nat /\ scale \in Nat \ {0} /\ divisor \in Nat \ {0}
      /\ Tuning.run >= divisor
  BY TuningAssumption DEF Tunings
<1>2. Instructed(actor, input).moveSpeed = speed
  BY DEF Instructed, Actors
<1> HIDE DEF scale, divisor
<1>3. ASSUME NEW a \in Nat, NEW b \in Nat \ {0} PROVE a * b \in Nat /\ a * b >= a
  OBVIOUS
<1>4. speed \in Nat /\ speed >= divisor
  <2>1. speed \in Nat /\ speed >= Tuning.run
    BY <1>1, <1>3
  <2> HIDE DEF speed
  <2> QED BY <1>1, <2>1
<1> HIDE DEF speed
<1>5. speed \div divisor \in Nat \ {0}
  <2>1. speed \div divisor \in Nat
    BY <1>1, <1>4, DivisionType
  <2>2. speed < divisor * ((speed \div divisor) + 1)
    BY <1>1, <1>4
  <2>3. speed \div divisor # 0
    BY <1>1, <1>4, <2>2
  <2> QED BY <2>1, <2>3
<1> QED BY <1>1, <1>2, <1>4, <1>5 DEF divisor

\* Whoever is moved by something and is where it was is at the edge.
LEMMA HeldByEdge ==
    ASSUME NEW x \in Int, NEW way \in Int, way # 0, NEW limit \in Nat,
           Clamped(x + way, limit) = x
    PROVE  Distance(0, x) = limit
BY DEF Clamped, Distance

\* An input moves an actor that has just begun the tick exactly if it says so, or if the
\* edge holds it (applyInput).
LEMMA InputMoves ==
    ASSUME NEW actor \in Actors, NEW input \in InputFrames,
           actor.current = actor.previous
    PROVE  LET after == ApplyInput(actor, input)
           IN  /\ after.current # after.previous => after.moved
               /\ after.moved /\ after.current = after.previous
                    => Distance(0, after.current.position) = Allowed(Tuning)
<1> DEFINE told == Instructed(actor, input)
           body == told.current
           limit == Allowed(Tuning)
<1>1. /\ told \in Actors /\ told.current = told.previous
      /\ body \in Bodies /\ limit \in Nat
  <2>1. told \in Actors
    BY InstructedType
  <2>2. told.current = actor.current /\ told.previous = actor.previous
    BY DEF Instructed, Actors
  <2> QED BY <2>1, <2>2, AllowedType DEF Actors
<1>2. /\ told.moveSpeed \in Nat \ {0}
      /\ told.moveSpeed \div Tuning.backpedalDivisor \in Nat \ {0}
  BY SpeedSuffices
<1>3. input.moveAxes \in Axes /\ input.yaw \in {-1, 1} /\ input.cameraSteering \in BOOLEAN
  BY DEF InputFrames
<1> HIDE DEF told, limit
<1> DEFINE Agrees(after) ==
             /\ after.current # after.previous => after.moved
             /\ after.moved /\ after.current = after.previous
                  => Distance(0, after.current.position) = limit
<1>4. ASSUME NEW locked \in BOOLEAN
      PROVE  Agrees(StrafeBy(told, input, locked))
  <2> DEFINE after == StrafeBy(told, input, locked)
             to == Strafe(body, input.moveAxes, input.yaw, locked, told.moveSpeed, Tuning)
             way == IF input.moveAxes = -1 THEN told.moveSpeed \div Tuning.backpedalDivisor
                    ELSE told.moveSpeed
             stride == input.moveAxes * input.yaw * way
  <2>1. /\ after.previous = body
        /\ after.moved = Strafes(body, input.moveAxes, input.yaw, locked)
        /\ after.current = to
    BY <1>1 DEF StrafeBy, Actors
  <2>2. to \in Bodies
    BY <1>1, <1>2, <1>3, StrafeType
  <2>3. /\ to.facing = IF locked THEN input.yaw ELSE body.facing
        /\ to.position = IF input.moveAxes \in {-1, 1}
                         THEN Clamped(body.position + stride, limit)
                         ELSE body.position
    <3> HIDE DEF way
    <3> QED BY <1>1 DEF Strafe, Bodies, limit, way
  <2> SUFFICES Agrees(after)
    OBVIOUS
  <2> HIDE DEF after, to
  <2>4. CASE input.moveAxes \in {-1, 1}
    <3>1. stride \in Int /\ stride # 0
      <4>1. way \in Nat \ {0}
        BY <1>2
      <4> HIDE DEF way
      <4> QED BY <1>3, <2>4, <4>1
    <3> HIDE DEF stride
    <3>2. to = body => Distance(0, body.position) = limit
      BY <1>1, <2>3, <2>4, <3>1, HeldByEdge DEF Bodies
    <3>3. after.moved
      BY <2>1, <2>4 DEF Strafes
    <3> QED BY <2>1, <3>2, <3>3
  <2>5. CASE input.moveAxes \notin {-1, 1}
    <3>1. to = body <=> ~(locked /\ body.facing # input.yaw)
      BY <1>1, <2>2, <2>3, <2>5 DEF Bodies
    <3>2. after.moved <=> locked /\ body.facing # input.yaw
      BY <2>1, <2>5 DEF Strafes
    <3> QED BY <2>1, <3>1, <3>2
  <2> QED BY <2>4, <2>5
<1>5. Agrees(WalkOn(told))
  <2> DEFINE after == WalkOn(told)
             direction == IF told.moveTarget > body.position THEN 1 ELSE -1
             step == Smaller(told.moveSpeed, Distance(body.position, told.moveTarget))
             stride == direction * step
  <2>1. /\ after.previous = body
        /\ after.moved = WalksTo(body, told.moveTarget, Tuning)
        /\ after.current = WalkTo(body, told.moveTarget, told.moveSpeed, Tuning)
    BY <1>1 DEF WalkOn, Actors
  <2>2. told.moveTarget \in Int
    BY <1>1 DEF Actors
  <2>3. CASE ~WalksTo(body, told.moveTarget, Tuning)
    BY <2>1, <2>3 DEF WalkTo
  <2>4. CASE WalksTo(body, told.moveTarget, Tuning)
    <3>1. step \in Nat \ {0}
      BY <1>1, <1>2, <2>2, <2>4, TuningAssumption
         DEF WalksTo, Smaller, Distance, Bodies, Tunings
    <3>2. after.current.position = Clamped(body.position + stride, limit)
      BY <1>1, <2>1, <2>4 DEF WalkTo, Bodies, limit
    <3>3. stride \in Int /\ stride # 0
      <4> HIDE DEF step
      <4> QED BY <3>1
    <3> HIDE DEF stride
    <3>4. after.current = body => Distance(0, body.position) = limit
      BY <1>1, <3>2, <3>3, HeldByEdge DEF Bodies
    <3> QED BY <2>1, <2>4, <3>4
  <2> QED BY <2>3, <2>4
<1>6. Agrees([told EXCEPT !.moved = FALSE])
  BY <1>1 DEF Actors
<1>7. Agrees(ApplyInput(actor, input))
  BY <1>3, <1>4, <1>5, <1>6 DEF ApplyInput, told
<1> QED BY <1>7 DEF limit
-----------------------------------------------------------------------------
(* The inductive invariant.                                                *)

LEMMA LogEntries ==
    ASSUME WorldTypeOK, NEW k \in DOMAIN log
    PROVE  log[k] \in InputFrames
BY DEF WorldTypeOK

LEMMA InitialWorld == WorldInit => WorldInv
<1> SUFFICES ASSUME WorldInit PROVE WorldInv
  OBVIOUS
<1>1. ASSUME NEW id \in ActorIds PROVE Imported(Spawns[id]) \in Actors
  <2>1. Spawns[id] \in Bodies
    BY SpawnsAssumption DEF ActorIds
  <2> QED BY <2>1, TuningAssumption DEF Imported, Actors, Tunings
<1>2. WorldTypeOK
  BY <1>1, LogsAssumption
     DEF WorldInit, WorldTypeOK, ImportRuntimeWorld, InputsForTick
<1>3. BetweenTicks /\ WithinTick
  BY DEF WorldInit, BetweenTicks, WithinTick
<1> QED BY <1>2, <1>3 DEF WorldInv

\* Every actor begins the tick.
LEMMA BeginTickKeeps == WorldInv /\ BeginTick => WorldInv'
<1> SUFFICES ASSUME WorldInv, BeginTick PROVE WorldInv'
  OBVIOUS
<1> USE DEF WorldInv, BeginTick
<1>1. WorldTypeOK'
  BY BegunType DEF WorldTypeOK, InputsForTick
<1>2. BetweenTicks'
  BY DEF BetweenTicks
<1>3. WithinTick'
  <2> SUFFICES ASSUME NEW id \in ActorIds
               PROVE  /\ (Mine(id) \subseteq pending => world.actors[id] = Begun(settled[id]))'
                      /\ \A k \in Mine(id)' :
                            (Mine(id) = {k} /\ k \notin pending
                              => world.actors[id] = ApplyInput(Begun(settled[id]), log[k]))'
    BY DEF WithinTick
  <2>1. Mine(id)' \subseteq pending'
    BY DEF Mine, InputsForTick, WorldTypeOK
  <2>2. world'.actors[id] = Begun(settled'[id])
    BY DEF BetweenTicks, WorldTypeOK
  <2> QED BY <2>1, <2>2
<1> QED BY <1>1, <1>2, <1>3

\* One input is applied to its actor, if there is one.
LEMMA ApplyNextKeeps ==
    ASSUME WorldInv, NEW k \in pending, ApplyNext(k)
    PROVE  WorldInv'
<1> USE DEF WorldInv
<1>1. k \in DOMAIN log /\ log[k].tick = world.tick /\ log[k] \in InputFrames
  BY LogEntries DEF WorldTypeOK, InputsForTick
<1> DEFINE own == log[k].actorId
<1>2. world' \in [tick : Nat, actors : [ActorIds -> Actors]] /\ world'.tick = world.tick
  <2>1. CASE own \in ActorIds
    <3>1. ApplyInput(world.actors[own], log[k]) \in Actors
      BY <1>1, <2>1, ApplyInputType DEF WorldTypeOK
    <3> QED BY <2>1, <3>1 DEF ApplyNext, WorldTypeOK
  <2>2. CASE own \notin ActorIds
    BY <2>2 DEF ApplyNext, WorldTypeOK
  <2> QED BY <2>1, <2>2
<1>3. WorldTypeOK'
  BY <1>2 DEF ApplyNext, WorldTypeOK, InputsForTick
<1>4. BetweenTicks'
  BY DEF ApplyNext, BetweenTicks
<1>5. WithinTick'
  <2> SUFFICES ASSUME NEW id \in ActorIds
               PROVE  /\ (Mine(id) \subseteq pending => world.actors[id] = Begun(settled[id]))'
                      /\ \A j \in Mine(id)' :
                            (Mine(id) = {j} /\ j \notin pending
                              => world.actors[id] = ApplyInput(Begun(settled[id]), log[j]))'
    BY DEF WithinTick
  <2>1. Mine(id)' = Mine(id) /\ settled' = settled /\ log' = log /\ pending' = pending \ {k}
    BY <1>2 DEF ApplyNext, Mine
  <2>2. phase = "inputs"
    BY DEF ApplyNext
  <2>3. CASE own = id
    <3>1. k \in Mine(id) /\ k \notin pending'
      BY <1>1, <2>1, <2>3 DEF Mine
    <3>2. ASSUME NEW j \in Mine(id)', Mine(id)' = {j}, j \notin pending'
          PROVE  world'.actors[id] = ApplyInput(Begun(settled'[id]), log'[j])
      <4>1. j = k /\ Mine(id) \subseteq pending
        BY <2>1, <3>1, <3>2
      <4>2. world.actors[id] = Begun(settled[id])
        BY <2>2, <4>1 DEF WithinTick
      <4>3. world'.actors[id] = ApplyInput(world.actors[id], log[k])
        BY <2>3 DEF ApplyNext, WorldTypeOK
      <4> QED BY <2>1, <4>1, <4>2, <4>3
    <3> QED BY <2>1, <3>1, <3>2
  <2>4. CASE own # id
    <3>1. world'.actors[id] = world.actors[id]
      BY <2>4 DEF ApplyNext, WorldTypeOK
    <3>2. k \notin Mine(id)
      BY <2>4 DEF Mine
    <3> QED BY <2>1, <2>2, <3>1, <3>2 DEF WithinTick
  <2> QED BY <2>3, <2>4
<1> QED BY <1>3, <1>4, <1>5

\* Every step keeps the invariant.
LEMMA StepKeepsWorld == WorldInv /\ [WorldNext]_worldVars => WorldInv'
<1> SUFFICES ASSUME WorldInv, [WorldNext]_worldVars PROVE WorldInv'
  OBVIOUS
<1> USE DEF WorldInv
<1>1. ASSUME NEW time \in FrameTimes, NEW error \in Rounding, BeginFrame(time, error)
      PROVE  WorldInv'
  <2>1. accumulator' \in Int /\ frames' \in [drawn : Nat, time : Nat]
    BY <1>1, TimesAssumption DEF BeginFrame, WorldTypeOK
  <2>2. WorldTypeOK'
    BY <1>1, <2>1 DEF BeginFrame, WorldTypeOK, InputsForTick
  <2>3. BetweenTicks' /\ WithinTick'
    BY <1>1 DEF BeginFrame, BetweenTicks, WithinTick
  <2> QED BY <2>2, <2>3
<1>2. CASE BeginTick
  BY <1>2, BeginTickKeeps
<1>3. ASSUME NEW k \in pending, ApplyNext(k) PROVE WorldInv'
  BY <1>3, ApplyNextKeeps
<1>4. CASE EndTick
  <2>1. WorldTypeOK'
    BY <1>4, TimesAssumption DEF EndTick, WorldTypeOK, InputsForTick
  <2>2. BetweenTicks' /\ WithinTick'
    BY <1>4 DEF EndTick, BetweenTicks, WithinTick, WorldTypeOK
  <2> QED BY <2>1, <2>2
<1>5. CASE EndFrame
  <2>1. WorldTypeOK'
    BY <1>5 DEF EndFrame, WorldTypeOK, InputsForTick
  <2>2. BetweenTicks' /\ WithinTick'
    BY <1>5 DEF EndFrame, BetweenTicks, WithinTick
  <2> QED BY <2>1, <2>2
<1>6. CASE UNCHANGED worldVars
  BY <1>6 DEF worldVars, WorldTypeOK, InputsForTick, BetweenTicks, WithinTick, Mine
<1> QED BY <1>1, <1>2, <1>3, <1>4, <1>5, <1>6 DEF WorldNext

\* The inductive invariant holds: between ticks the world is settled, within a tick each
\* actor is as it began or as its input makes it (advanceFixedTick).
THEOREM WorldConsistent == WorldSpec => []WorldInv
BY InitialWorld, StepKeepsWorld, PTL DEF WorldSpec

\* Every variable has its type, for any spawn points, logs and tuning (runtime_world.hpp).
THEOREM WorldTypeCorrect == WorldSpec => []WorldTypeOK
<1>1. WorldInv => WorldTypeOK
  BY DEF WorldInv
<1> QED BY <1>1, WorldConsistent, PTL

-----------------------------------------------------------------------------
(* The refinement.                                                         *)

\* A whole tick is one tick of the abstract world.
LEMMA EndTickImplements == WorldInv /\ EndTick => Fixed!Tick
<1> SUFFICES ASSUME WorldInv, EndTick PROVE Fixed!Tick
  OBVIOUS
<1> USE DEF WorldInv
<1>1. world'.tick = world.tick + 1 /\ settled' = world.actors /\ log' = log
  BY DEF EndTick, WorldTypeOK
<1>2. phase = "inputs" /\ pending = {}
  BY DEF EndTick
<1>3. ASSUME NEW id \in ActorIds PROVE Fixed!Mine(id) = Mine(id)
  BY DEF Fixed!Mine, Mine
<1>4. ASSUME NEW id \in ActorIds
      PROVE  /\ Fixed!Mine(id) = {} => settled'[id] = Rested(settled[id])
             /\ \A k \in Fixed!Mine(id) :
                   Fixed!Mine(id) = {k} => settled'[id] = Responding(settled[id], log[k])
  BY <1>1, <1>2, <1>3, <1>4 DEF WithinTick, Rested, Responding
<1> QED BY <1>1, <1>4 DEF Fixed!Tick

\* runWithRenderCadence implements FixedTicks: for frames of any length and logs in any
\* order, what a tick makes of an actor follows from its own input for the tick.
THEOREM WorldImplementsFixedTicks == WorldSpec => ImplementsFixedTicks
<1>1. WorldInit => Fixed!Init
  BY DEF WorldInit, Fixed!Init, ImportRuntimeWorld
<1>2. WorldInv /\ [WorldNext]_worldVars => [Fixed!Tick]_<<world.tick, settled, log>>
  <2> SUFFICES ASSUME WorldInv, [WorldNext]_worldVars
               PROVE  Fixed!Tick \/ UNCHANGED <<world.tick, settled, log>>
    OBVIOUS
  <2>1. ASSUME NEW time \in FrameTimes, NEW error \in Rounding, BeginFrame(time, error)
        PROVE  UNCHANGED <<world.tick, settled, log>>
    BY <2>1 DEF BeginFrame
  <2>2. CASE BeginTick
    BY <2>2 DEF BeginTick, WorldInv, WorldTypeOK
  <2>3. ASSUME NEW k \in pending, ApplyNext(k)
        PROVE  UNCHANGED <<world.tick, settled, log>>
    BY <2>3 DEF ApplyNext, WorldInv, WorldTypeOK
  <2>4. CASE EndTick
    BY <2>4, EndTickImplements
  <2>5. CASE EndFrame
    BY <2>5 DEF EndFrame
  <2>6. CASE UNCHANGED worldVars
    BY <2>6 DEF worldVars
  <2> QED BY <2>1, <2>2, <2>3, <2>4, <2>5, <2>6 DEF WorldNext
<1> QED BY <1>1, <1>2, WorldConsistent, PTL DEF WorldSpec, ImplementsFixedTicks, Fixed!Spec
-----------------------------------------------------------------------------
(* The flag that an actor moved.                                           *)

\* A whole tick leaves each actor that has at most one input with the right flag.
LEMMA TickIsSeen == WorldInv /\ EndTick => MovedIsSeen'
<1> SUFFICES ASSUME WorldInv, EndTick, NEW id \in ActorIds,
                    \A k, other \in LastInputs(id)' : k = other
             PROVE  LET actor == world'.actors[id]
                    IN  /\ actor.current # actor.previous => actor.moved
                        /\ actor.moved /\ actor.current = actor.previous
                             => Distance(0, actor.current.position) = Allowed(Tuning)
  BY DEF MovedIsSeen
<1>1. /\ phase = "inputs" /\ pending = {} /\ log' = log
      /\ world'.tick = world.tick + 1 /\ world'.actors = world.actors
      /\ world.tick \in Nat
  BY DEF EndTick, WorldInv, WorldTypeOK
<1>2. LastInputs(id)' = Mine(id)
  <2>1. \A k \in DOMAIN log : log[k].tick \in Nat
    BY LogEntries DEF WorldInv, InputFrames
  <2>2. \A k \in DOMAIN log : log[k].tick + 1 = world.tick + 1 <=> log[k].tick = world.tick
    BY <1>1, <2>1
  <2> QED BY <1>1, <2>2 DEF LastInputs, Mine
<1> DEFINE begun == Begun(settled[id])
<1>3. settled[id] \in Actors
  BY DEF WorldInv, WorldTypeOK
<1>4. begun \in Actors /\ begun.current = begun.previous /\ ~ begun.moved
  BY <1>3, BegunType DEF Begun, Actors
<1>5. CASE Mine(id) = {}
  <2>1. world.actors[id] = begun
    BY <1>1, <1>5 DEF WorldInv, WithinTick
  <2> QED BY <1>1, <1>4, <2>1
<1>6. ASSUME NEW k \in Mine(id)
      PROVE  LET actor == world'.actors[id]
             IN  /\ actor.current # actor.previous => actor.moved
                 /\ actor.moved /\ actor.current = actor.previous
                      => Distance(0, actor.current.position) = Allowed(Tuning)
  <2>1. Mine(id) = {k}
    BY <1>2, <1>6
  <2>2. world.actors[id] = ApplyInput(begun, log[k])
    BY <1>1, <1>6, <2>1 DEF WorldInv, WithinTick
  <2>3. log[k] \in InputFrames
    BY <1>6, LogEntries DEF Mine, WorldInv
  <2> HIDE DEF begun
  <2> QED BY <1>1, <1>4, <2>2, <2>3, InputMoves
<1> QED BY <1>5, <1>6

\* After a tick, the flag that an actor moved agrees with its two bodies (stateHash),
\* for any world, tuning and log: only two inputs of one actor can make them differ.
THEOREM MovedAlwaysSeen == WorldSpec => []MovedIsSeen
<1>1. WorldInit => MovedIsSeen
  <2> SUFFICES ASSUME WorldInit, NEW id \in ActorIds
               PROVE  /\ world.actors[id].current = world.actors[id].previous
                      /\ ~ world.actors[id].moved
    BY DEF MovedIsSeen
  <2> QED BY DEF WorldInit, ImportRuntimeWorld, Imported
<1>2. WorldInv /\ MovedIsSeen /\ [WorldNext]_worldVars => MovedIsSeen'
  <2> SUFFICES ASSUME WorldInv, MovedIsSeen, [WorldNext]_worldVars PROVE MovedIsSeen'
    OBVIOUS
  <2>1. ASSUME phase # "inputs", UNCHANGED <<world, log>> PROVE MovedIsSeen'
    BY <2>1 DEF MovedIsSeen, LastInputs
  <2>2. ASSUME NEW time \in FrameTimes, NEW error \in Rounding, BeginFrame(time, error)
        PROVE  MovedIsSeen'
    BY <2>1, <2>2 DEF BeginFrame
  <2>3. CASE BeginTick \/ \E k \in pending : ApplyNext(k)
    BY <2>3 DEF BeginTick, ApplyNext, MovedIsSeen
  <2>4. CASE EndTick
    BY <2>4, TickIsSeen
  <2>5. CASE EndFrame
    BY <2>1, <2>5 DEF EndFrame
  <2>6. CASE UNCHANGED worldVars
    BY <2>6 DEF worldVars, MovedIsSeen, LastInputs
  <2> QED BY <2>2, <2>3, <2>4, <2>5, <2>6 DEF WorldNext
<1> QED BY <1>1, <1>2, WorldConsistent, PTL DEF WorldSpec
-----------------------------------------------------------------------------
(* Ticks and time.                                                         *)

\* How far the elapsed time is ahead of the ticks that have ended.
Ahead == frames.time - world.tick * TickLength

\* The accumulator is that, off by at most `off` for each frame.  Outside a frame less
\* than a tick is left, within a tick there is one.
TimeInv(grain, off) ==
    LET most == frames.drawn * off
    IN  /\ frames.drawn <= MaxFrames
        /\ accumulator - Ahead \in (-most)..most
        /\ \E k \in Int : Ahead = k * grain
        /\ Ahead >= 0
        /\ phase = "frame" => Ahead < TickLength
        /\ phase = "inputs" => Ahead >= TickLength

\* A multiple of the grain above minus one grain is not negative.
LEMMA NoFraction ==
    ASSUME NEW grain \in Nat \ {0}, NEW k \in Int, k * grain > -grain
    PROVE  k * grain >= 0
<1>1. CASE k >= 0
  BY <1>1
<1>2. CASE k <= -1
  <2>1. k * grain <= (-1) * grain
    <3>1. ASSUME NEW n \in Nat PROVE n * grain >= 0
      OBVIOUS
    <3>2. (-1 - k) \in Nat
      BY <1>2
    <3>3. (-1 - k) * grain >= 0
      BY <3>1, <3>2
    <3> QED BY <3>3
  <2> QED BY <2>1
<1> QED BY <1>1, <1>2

\* The number of whole ticks in a time.
LEMMA WholeTicks ==
    ASSUME NEW time \in Nat, NEW n \in Nat, NEW d \in Nat \ {0},
           time - n * d >= 0, time - n * d < d
    PROVE  n = time \div d
<1> DEFINE m == time \div d
<1>1. m \in Nat /\ d * m <= time /\ time < d * (m + 1)
  BY DivisionType
<1> HIDE DEF m
<1>2. CASE n < m
  <2>1. (m - n - 1) \in Nat
    BY <1>1, <1>2
  <2>2. (m - n - 1) * d >= 0
    BY <2>1
  <2> QED BY <1>1, <2>2
<1>3. CASE n > m
  <2>1. (n - m - 1) \in Nat
    BY <1>1, <1>3
  <2>2. (n - m - 1) * d >= 0
    BY <2>1
  <2> QED BY <1>1, <2>2
<1> QED BY <1>1, <1>2, <1>3 DEF m

\* Frames whose lengths, like the tick's, are multiples of a grain, and sums that are off by
\* so little that all the frames together stay within the slack, and with it within a grain.
LEMMA TimeStep ==
    ASSUME NEW grain \in Nat \ {0}, NEW off \in Nat,
           \A time \in FrameTimes \cup {TickLength} : \E k \in Nat : time = k * grain,
           Rounding \subseteq (-off)..off,
           MaxFrames * off <= Slack, MaxFrames * off + Slack < grain,
           WorldTypeOK, TimeInv(grain, off), [WorldNext]_worldVars
    PROVE  TimeInv(grain, off)'
<1> DEFINE most == frames.drawn * off
           all == MaxFrames * off
           ahead == frames.time - world.tick * TickLength
<1>1. /\ frames.drawn \in Nat /\ frames.time \in Nat /\ world.tick \in Nat
      /\ accumulator \in Int
      /\ TickLength \in Nat \ {0} /\ MaxFrames \in Nat /\ Slack \in Nat
      /\ FrameTimes \subseteq Nat
  BY TimesAssumption DEF WorldTypeOK
<1>2. /\ frames.drawn <= MaxFrames
      /\ accumulator - ahead \in (-most)..most
      /\ \E k \in Int : ahead = k * grain
      /\ ahead >= 0
      /\ phase = "frame" => ahead < TickLength
      /\ phase = "inputs" => ahead >= TickLength
  BY DEF TimeInv, Ahead
<1>3. most \in Nat /\ all \in Nat /\ most <= all /\ ahead \in Int
      /\ all <= Slack /\ all + Slack < grain
  <2>1. (MaxFrames - frames.drawn) \in Nat
    BY <1>1, <1>2
  <2>2. (MaxFrames - frames.drawn) * off >= 0
    BY <2>1
  <2> QED BY <1>1, <2>2
<1>4. ASSUME UNCHANGED <<world, accumulator, frames>>,
             phase' = "frame" => ahead < TickLength,
             phase' = "inputs" => ahead >= TickLength
      PROVE  TimeInv(grain, off)'
  BY <1>2, <1>4 DEF TimeInv, Ahead
<1>5. ASSUME NEW time \in FrameTimes, NEW error \in Rounding, BeginFrame(time, error)
      PROVE  TimeInv(grain, off)'
  <2> DEFINE later == frames'.time - world'.tick * TickLength
             more == frames'.drawn * off
  <2>1. /\ phase = "frame" /\ frames.drawn < MaxFrames /\ phase' = "catchUp"
        /\ accumulator' = accumulator + time + error
        /\ frames'.drawn = frames.drawn + 1 /\ frames'.time = frames.time + time
        /\ world' = world
    BY <1>5 DEF BeginFrame
  <2>2. later = ahead + time /\ more = most + off /\ error \in (-off)..off
    BY <1>1, <2>1
  <2>3. time \in Nat /\ \E k \in Int : later = k * grain
    <3>1. PICK k \in Int : ahead = k * grain
      BY <1>2
    <3>2. PICK j \in Nat : time = j * grain
      BY <1>5
    <3>3. later = (k + j) * grain
      BY <2>2, <3>1, <3>2
    <3> QED BY <1>1, <3>3
  <2> HIDE DEF ahead, most, all, later, more
  <2>4. accumulator' - later \in (-more)..more /\ later >= 0
    BY <1>1, <1>2, <1>3, <2>1, <2>2, <2>3
  <2>5. frames'.drawn <= MaxFrames
    BY <1>1, <2>1
  <2> QED BY <2>1, <2>3, <2>4, <2>5 DEF TimeInv, Ahead, later, more
<1>6. CASE BeginTick
  <2>1. /\ phase' = "inputs" /\ accumulator + Slack >= TickLength
        /\ UNCHANGED <<accumulator, frames>> /\ world'.tick = world.tick
    BY <1>6 DEF BeginTick, TickDue, WorldTypeOK
  <2>2. ahead >= TickLength
    <3>1. PICK k \in Int : ahead = k * grain
      BY <1>2
    <3>2. PICK j \in Nat : TickLength = j * grain
      OBVIOUS
    <3>3. ahead - TickLength = (k - j) * grain
      BY <3>1, <3>2
    <3> HIDE DEF ahead, most, all
    <3>4. ahead - TickLength > -grain
      BY <1>1, <1>2, <1>3, <2>1
    <3>5. (k - j) * grain >= 0
      BY <3>3, <3>4, NoFraction
    <3> QED BY <1>1, <1>3, <3>3, <3>5
  <2> QED BY <1>2, <2>1, <2>2 DEF TimeInv, Ahead
<1>7. ASSUME NEW k \in pending, ApplyNext(k) PROVE TimeInv(grain, off)'
  <2>1. /\ phase = "inputs" /\ phase' = phase /\ UNCHANGED <<accumulator, frames>>
        /\ world'.tick = world.tick
    BY <1>7 DEF ApplyNext, WorldTypeOK
  <2> QED BY <1>2, <2>1 DEF TimeInv, Ahead
<1>8. CASE EndTick
  <2> DEFINE later == frames'.time - world'.tick * TickLength
  <2>1. /\ phase = "inputs" /\ phase' = "catchUp" /\ frames' = frames
        /\ accumulator' = accumulator - TickLength /\ world'.tick = world.tick + 1
    BY <1>8 DEF EndTick, WorldTypeOK
  <2>2. later = ahead - TickLength
    BY <1>1, <2>1
  <2>3. \E k \in Int : later = k * grain
    <3>1. PICK k \in Int : ahead = k * grain
      BY <1>2
    <3>2. PICK j \in Nat : TickLength = j * grain
      OBVIOUS
    <3>3. later = (k - j) * grain
      BY <2>2, <3>1, <3>2
    <3> QED BY <3>3
  <2> HIDE DEF ahead, later
  <2>4. accumulator' - later = accumulator - ahead /\ later >= 0
    BY <1>1, <1>2, <1>3, <2>1, <2>2
  <2> QED BY <1>2, <2>1, <2>3, <2>4 DEF TimeInv, Ahead, later
<1>9. CASE EndFrame
  <2>1. /\ phase' = "frame" /\ ~ (accumulator + Slack >= TickLength)
        /\ UNCHANGED <<world, accumulator, frames>>
    BY <1>9 DEF EndFrame, TickDue
  <2>2. ahead < TickLength
    <3> HIDE DEF ahead, most, all
    <3> QED BY <1>1, <1>2, <1>3, <2>1
  <2> QED BY <1>4, <2>1, <2>2
<1>10. CASE UNCHANGED worldVars
  BY <1>2, <1>4, <1>10 DEF worldVars
<1> QED BY <1>5, <1>6, <1>7, <1>8, <1>9, <1>10 DEF WorldNext

\* Between two frames the world has had all the ticks of the elapsed time and no other
\* (runWithRenderCadence), if the lengths of the frames and of the tick are multiples of a
\* grain, no sum is off by more than `off`, and this, over all the frames of the run, is
\* within the slack and together with it less than a grain.
THEOREM TicksAlwaysMatchTime ==
    ASSUME NEW grain \in Nat \ {0}, NEW off \in Nat,
           \A time \in FrameTimes \cup {TickLength} : \E k \in Nat : time = k * grain,
           Rounding \subseteq (-off)..off,
           MaxFrames * off <= Slack, MaxFrames * off + Slack < grain
    PROVE  WorldSpec => []TicksMatchTime
<1>1. WorldInit => TimeInv(grain, off)
  <2> SUFFICES ASSUME WorldInit PROVE TimeInv(grain, off)
    OBVIOUS
  <2>1. world.tick = 0 /\ frames.drawn = 0 /\ frames.time = 0 /\ accumulator = 0
        /\ phase = "frame"
    BY DEF WorldInit, ImportRuntimeWorld
  <2>2. Ahead = 0 /\ frames.drawn * off = 0 /\ 0 = 0 * grain
    BY <2>1, TimesAssumption DEF Ahead
  <2> QED BY <2>1, <2>2, TimesAssumption DEF TimeInv
<1>2. WorldTypeOK /\ TimeInv(grain, off) /\ [WorldNext]_worldVars => TimeInv(grain, off)'
  BY TimeStep
<1>3. WorldTypeOK /\ TimeInv(grain, off) => TicksMatchTime
  <2> SUFFICES ASSUME WorldTypeOK, TimeInv(grain, off), phase = "frame"
               PROVE  world.tick = frames.time \div TickLength
    BY DEF TicksMatchTime
  <2>1. frames.time \in Nat /\ world.tick \in Nat /\ TickLength \in Nat \ {0}
    BY TimesAssumption DEF WorldTypeOK
  <2>2. /\ frames.time - world.tick * TickLength >= 0
        /\ frames.time - world.tick * TickLength < TickLength
    BY DEF TimeInv, Ahead
  <2> QED BY <2>1, <2>2, WholeTicks
<1> QED BY <1>1, <1>2, <1>3, WorldTypeCorrect, PTL DEF WorldSpec
=============================================================================
