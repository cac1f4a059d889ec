----------------------------- MODULE RuntimeWorld -----------------------------
(***************************************************************************)
(* The deterministic simulation (src/simulation/runtime_world.cpp): a      *)
(* world imported from compiled content, which advances in fixed ticks     *)
(* over a recorded log of inputs while frames of any length are drawn      *)
(* (runWithRenderCadence).                                                 *)
(*                                                                         *)
(* A tick is split into its statements: every actor begins the tick, the   *)
(* inputs recorded for it are applied one after the other, the tick is     *)
(* counted.  Time is counted in a small unit; the sums of the accumulator, *)
(* a double, are off by Rounding, which the code meets with a slack of     *)
(* 1e-9.  The state hash is the record of the values it covers.            *)
(***************************************************************************)
EXTENDS Locomotion, Sequences

CONSTANTS
    Spawns,      \* the spawn points of the compiled world, in its order
    Tuning,
    Logs,        \* the logs of inputs a world may be run over
    TickLength,  \* kFixedTickSeconds
    FrameTimes,  \* lengths of a frame
    Rounding,    \* by how much one sum may be off
    Slack,       \* 0.000000001
    MaxFrames,   \* bound: frames of a run
    None

\* importRuntimeWorld numbers the actors from one.
ActorIds == 1..Len(Spawns)

Bodies == [position : Int, facing : {-1, 1}]

\* An input may name an actor that does not exist.
InputFrames == [tick : Nat, actorId : Nat, moveAxes : Axes, yaw : {-1, 1},
                cameraSteering : BOOLEAN, sprint : BOOLEAN, moveTarget : Int \cup {None}]

ASSUME SpawnsAssumption == Spawns \in Seq(Bodies)
\* Speeds are positive, and a backward step is no way of zero by being an integer.
ASSUME TuningAssumption ==
    /\ Tuning \in Tunings
    /\ Tuning.run >= Tuning.backpedalDivisor /\ Tuning.sprintScale > 0
ASSUME LogsAssumption == Logs \subseteq Seq(InputFrames)
ASSUME TimesAssumption ==
    /\ TickLength \in Nat \ {0} /\ FrameTimes \subseteq Nat /\ MaxFrames \in Nat
    /\ Rounding \subseteq Int /\ Slack \in Nat
ASSUME NoneAssumption == None \notin Int

VARIABLES
    world,        \* tick and actors
    log,          \* inputFrames; no step changes it
    phase,        \* what the loop does next
    pending,      \* tickInputs that are not applied yet, as places in the log
    accumulator,
    frames,       \* frames drawn, and the time they took
    settled       \* history: the actors after the last whole tick

worldVars == <<world, log, phase, pending, accumulator, frames, settled>>

\* The actor of a spawn point.
Imported(spawn) ==
    [current |-> spawn, previous |-> spawn, moveSpeed |-> Tuning.run,
     hasMoveTarget |-> FALSE, moveTarget |-> 0,
     moved |-> FALSE, sprinting |-> FALSE, cameraSteering |-> FALSE]

ImportRuntimeWorld == [tick |-> 0, actors |-> [id \in ActorIds |-> Imported(Spawns[id])]]

WorldInit ==
    /\ world = ImportRuntimeWorld
    /\ log \in Logs
    /\ phase = "frame" /\ pending = {} /\ accumulator = 0
    /\ frames = [drawn |-> 0, time |-> 0]
    /\ settled = world.actors
-----------------------------------------------------------------------------
(* One actor, one input.                                                   *)

\* MUTANT of Begun: the flag of the last tick stays.
Begun_KeepsMoved(actor) ==
    [actor EXCEPT !.previous = actor.current, !.sprinting = FALSE, !.cameraSteering = FALSE]

\* beginTick, and the flags.
Begun(actor) ==
    [actor EXCEPT !.previous = actor.current, !.moved = FALSE,
                  !.sprinting = FALSE, !.cameraSteering = FALSE]

\* The flags, the target and the speed an input sets before anything moves.
Instructed(actor, input) ==
    [actor EXCEPT
        !.sprinting = input.sprint,
        !.cameraSteering = input.cameraSteering,
        !.moveTarget = IF input.moveTarget # None THEN input.moveTarget ELSE @,
        !.hasMoveTarget = (@ \/ input.moveTarget # None) /\ input.moveAxes = 0,
        !.moveSpeed = Tuning.run * (IF input.sprint THEN Tuning.sprintScale ELSE 1)]

StrafeBy(actor, input, locked) ==
    [actor EXCEPT
        !.moved = Strafes(actor.current, input.moveAxes, input.yaw, locked),
        !.current = Strafe(@, input.moveAxes, input.yaw, locked, actor.moveSpeed, Tuning)]

\* An actor that has arrived forgets its target.
WalkOn(actor) ==
    LET walks == WalksTo(actor.current, actor.moveTarget, Tuning)
    IN  [actor EXCEPT
            !.moved = walks, !.hasMoveTarget = walks,
            !.current = WalkTo(@, actor.moveTarget, actor.moveSpeed, Tuning)]

\* applyInput: moving by the axes comes before walking, and that before turning.
ApplyInput(actor, input) ==
    LET told == Instructed(actor, input)
    IN  IF input.moveAxes # 0 THEN StrafeBy(told, input, input.cameraSteering)
        ELSE IF told.hasMoveTarget THEN WalkOn(told)
        ELSE IF input.cameraSteering THEN StrafeBy(told, input, TRUE)
        ELSE [told EXCEPT !.moved = FALSE]
-----------------------------------------------------------------------------
(* runWithRenderCadence.                                                   *)

BeginFrame(time, error) ==
    /\ phase = "frame" /\ frames.drawn < MaxFrames
    /\ accumulator' = accumulator + time + error
    /\ frames' = [drawn |-> frames.drawn + 1, time |-> frames.time + time]
    /\ phase' = "catchUp"
    /\ UNCHANGED <<world, log, pending, settled>>

\* MUTANT of TickDue: without the slack.
TickDue_Exact == accumulator >= TickLength

TickDue == accumulator + Slack >= TickLength

\* MUTANT of InputsForTick: what was recorded for earlier ticks is applied again.
InputsForTick_Late == {k \in DOMAIN log : log[k].tick <= world.tick}

InputsForTick == {k \in DOMAIN log : log[k].tick = world.tick}

BeginTick ==
    /\ phase = "catchUp" /\ TickDue
    /\ world' = [world EXCEPT !.actors = [id \in ActorIds |-> Begun(@[id])]]
    /\ pending' = InputsForTick
    /\ phase' = "inputs"
    /\ UNCHANGED <<log, accumulator, frames, settled>>

\* The inputs are sorted by actor.  std::sort is not stable: two inputs of one actor
\* come in any order.
IsNextInput(k) == \A other \in pending : log[k].actorId <= log[other].actorId

\* An input of an actor that does not exist is skipped.
ApplyNext(k) ==
    /\ phase = "inputs" /\ k \in pending /\ IsNextInput(k)
    /\ world' = IF log[k].actorId \in ActorIds
                THEN [world EXCEPT !.actors[log[k].actorId] = ApplyInput(@, log[k])]
                ELSE world
    /\ pending' = pending \ {k}
    /\ UNCHANGED <<log, phase, accumulator, frames, settled>>

EndTick ==
    /\ phase = "inputs" /\ pending = {}
    /\ world' = [world EXCEPT !.tick = @ + 1]
    /\ settled' = world.actors
    /\ accumulator' = accumulator - TickLength
    /\ phase' = "catchUp"
    /\ UNCHANGED <<log, pending, frames>>

\* The frame interpolates between the two bodies of each actor, which changes none.
EndFrame ==
    /\ phase = "catchUp" /\ ~TickDue
    /\ phase' = "frame"
    /\ UNCHANGED <<world, log, pending, accumulator, frames, settled>>

WorldNext ==
    \/ \E time \in FrameTimes, error \in Rounding : BeginFrame(time, error)
    \/ BeginTick
    \/ \E k \in pending : ApplyNext(k)
    \/ EndTick
    \/ EndFrame

WorldSpec == WorldInit /\ [][WorldNext]_worldVars
-----------------------------------------------------------------------------
(* Properties.                                                             *)

Actors == [current : Bodies, previous : Bodies, moveSpeed : Nat,
           hasMoveTarget : BOOLEAN, moveTarget : Int,
           moved : BOOLEAN, sprinting : BOOLEAN, cameraSteering : BOOLEAN]

\* Type invariant.
WorldTypeOK ==
    /\ world \in [tick : Nat, actors : [ActorIds -> Actors]]
    /\ settled \in [ActorIds -> Actors]
    /\ log \in Seq(InputFrames)
    /\ phase \in {"frame", "catchUp", "inputs"}
    /\ pending \subseteq InputsForTick
    /\ accumulator \in Int
    /\ frames \in [drawn : Nat, time : Nat]

Rested(actor) == Begun(actor)

Responding(actor, input) == ApplyInput(Begun(actor), input)

Fixed == INSTANCE FixedTicks WITH
            Start <- ImportRuntimeWorld.actors, Rest <- Rested, Respond <- Responding,
            tick <- world.tick, actors <- settled, inputs <- log

\* The tests' "input frame storage order does not affect hash" and "render cadence
\* keeps simulation hash": whatever the frames' lengths and wherever an input is
\* stored in the log, a tick does to each actor what its own input says.  The sort of
\* inputsForTick promises this of actors with at most one input per tick.
ImplementsFixedTicks == Fixed!Spec

\* However the lengths of the frames add up to an elapsed time, between two frames the
\* world has had all the ticks of that time and no other: sums that are off by less
\* than the slack neither lose a tick nor make one early (runWithRenderCadence).
TicksMatchTime == phase = "frame" => world.tick = frames.time \div TickLength

\* The inputs of an actor for the last whole tick.
LastInputs(id) == {k \in DOMAIN log : log[k].tick + 1 = world.tick /\ log[k].actorId = id}

\* After a tick, the flag that an actor moved (which the state hash covers) agrees with
\* its two bodies: it is set if they differ, and if it is set and they do not, the arena's
\* edge holds the actor.  Of two inputs of one actor the last one would set the flag.
MovedIsSeen ==
    phase # "inputs" =>
        \A id \in ActorIds :
            (\A k, other \in LastInputs(id) : k = other) =>
                LET actor == world.actors[id]
                IN  /\ actor.current # actor.previous => actor.moved
                    /\ actor.moved /\ actor.current = actor.previous
                         => Distance(0, actor.current.position) = Allowed(Tuning)
=============================================================================
