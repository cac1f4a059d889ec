--------------------------- MODULE ViewerControls ---------------------------
(***************************************************************************)
(* One viewer's main loop as its user and the author of its control        *)
(* profile see it (src/vulkan_scene_viewer.cpp): the profile is read at    *)
(* the start and again whenever the file's time stamp changes; a frame     *)
(* polls the input, switches between cursor mode and camera steering,      *)
(* takes clicks as places to walk to, advances the player in fixed ticks   *)
(* (Locomotion) and uploads the cursor's lines.                            *)
(*                                                                         *)
(* A frame's time is counted in fractions of a tick.  The program has one  *)
(* thread; what runs beside it is whoever edits the file, once the viewer  *)
(* has started.  Remote actors, the network and the sparring partner are   *)
(* not here.                                                               *)
(***************************************************************************)
EXTENDS Locomotion

CONSTANTS
    Keys,           \* keys a binding may name, with "forward", "backward" and "sprint"
    Polls,          \* what may be down in one frame: keys, "click", "closeButton"
    Contents,       \* what the profile file may contain
    Rays,           \* where the cursor's ray meets the ground, unclamped, or None
    TickLength,     \* kFixedTickSeconds
    FrameTimes,     \* lengths of a frame
    MaxCatchUp,     \* kMaxCatchUpTicksPerFrame
    MaxEdits,       \* bound on the saves of the file
    None

\* loadControlProfile and resolveControlBindings succeed: there is a file, its text
\* parses and its bindings name keys.
Loads(content) == content # None /\ content.parses /\ content.bindings.toggle \in Keys

ASSUME ContentsAssumption ==
    \A content \in Contents :
        Loads(content) => content.movement \in Tunings
ASSUME RaysAssumption ==
    /\ \A ray \in Rays \ {None} : ray \in Int
    /\ None \notin Int
ASSUME TicksAssumption ==
    /\ TickLength \in Nat \ {0}
    /\ MaxCatchUp \in Nat
    /\ FrameTimes \subseteq Nat

VARIABLES
    file,         \* content, or None where there is no file, and last write time
    phase,        \* what the main loop does next
    profile,      \* m_controlProfile.movement
    bindings,     \* m_bindings
    writeTime,    \* m_controlProfileWriteTime
    reload,       \* maybeReloadControlProfile's local variables
    pressed,      \* the keys that are down since the last poll
    closing,      \* glfwWindowShouldClose
    ui,           \* mode, cursor, click target and the cursor's lines
    player,       \* position, direction, and the camera's direction
    clock         \* m_fixedAccumulatorSeconds and the ticks of this frame

controlVars == <<file, phase, profile, bindings, writeTime, reload, pressed, closing,
                 ui, player, clock>>

profileVars == <<profile, bindings, writeTime, reload>>

NoReload == [time |-> None, content |-> None]

-----------------------------------------------------------------------------
(* The profile file.                                                       *)

\* Whoever edits the file saves it, in one write or in several with a broken text in
\* between, or removes it.  Every save has a later time stamp.
Save(content) ==
    /\ phase \notin {"start", "stamp", "ended"}
    /\ file.saves < MaxEdits
    /\ content # file.content
    /\ file' = [content |-> content, saves |-> file.saves + 1]
    /\ UNCHANGED <<phase, profileVars, pressed, closing, ui, player, clock>>

\* fileWriteTime: none where there is no file.
FileWriteTime == IF file.content = None THEN None ELSE file.saves

\* loadInitialControlProfile reads the file, and an error ends the program.
ReadInitial ==
    /\ phase = "start"
    /\ IF Loads(file.content)
       THEN /\ profile' = file.content.movement
            /\ bindings' = file.content.bindings
            /\ phase' = "stamp"
       ELSE /\ phase' = "ended"
            /\ UNCHANGED <<profile, bindings>>
    /\ UNCHANGED <<file, writeTime, reload, pressed, closing, ui, player, clock>>

\* Then it asks for the file's time.
StampInitial ==
    /\ phase = "stamp"
    /\ writeTime' = FileWriteTime
    /\ phase' = "poll"
    /\ UNCHANGED <<file, profile, bindings, reload, pressed, closing, ui, player, clock>>

\* maybeReloadControlProfile asks for the time first ...
StatProfile ==
    /\ phase = "stat"
    /\ IF FileWriteTime = writeTime
       THEN phase' = "input" /\ UNCHANGED reload
       ELSE phase' = "read" /\ reload' = [reload EXCEPT !.time = FileWriteTime]
    /\ UNCHANGED <<file, profile, bindings, writeTime, pressed, closing, ui, player, clock>>

\* MUTANT of ReadProfile: the movement values are taken before the keys are resolved.
ReadProfile_MovementFirst ==
    /\ phase = "read"
    /\ IF Loads(file.content)
       THEN /\ reload' = [reload EXCEPT !.content = file.content]
            /\ phase' = "swap"
            /\ UNCHANGED <<profile, writeTime>>
       ELSE /\ profile' = IF file.content # None /\ file.content.parses
                          THEN file.content.movement
                          ELSE profile
            /\ writeTime' = reload.time
            /\ phase' = "input"
            /\ reload' = NoReload
    /\ UNCHANGED <<file, bindings, pressed, closing, ui, player, clock>>

\* ... and then reads the file; a text that does not load keeps the profile.
ReadProfile ==
    /\ phase = "read"
    /\ IF Loads(file.content)
       THEN /\ reload' = [reload EXCEPT !.content = file.content]
            /\ phase' = "swap"
            /\ UNCHANGED writeTime
       ELSE /\ writeTime' = reload.time
            /\ phase' = "input"
            /\ reload' = NoReload
    /\ UNCHANGED <<file, profile, bindings, pressed, closing, ui, player, clock>>

\* MUTANT of SwapProfile: the time is asked for after the file was read.
SwapProfile_StatsAgain ==
    /\ phase = "swap"
    /\ profile' = reload.content.movement
    /\ bindings' = reload.content.bindings
    /\ writeTime' = FileWriteTime
    /\ reload' = NoReload
    /\ phase' = "input"
    /\ UNCHANGED <<file, pressed, closing, ui, player, clock>>

SwapProfile ==
    /\ phase = "swap"
    /\ profile' = reload.content.movement
    /\ bindings' = reload.content.bindings
    /\ writeTime' = reload.time
    /\ reload' = NoReload
    /\ phase' = "input"
    /\ UNCHANGED <<file, pressed, closing, ui, player, clock>>

-----------------------------------------------------------------------------
(* Polling and the user interface.                                         *)

\* The loop ends, or the callbacks record the input; while steering, the mouse may
\* turn the camera.
Poll(keys, direction) ==
    /\ phase = "poll" /\ ~closing
    /\ direction = player.camera \/ ui.steering
    /\ pressed' = keys
    /\ player' = [player EXCEPT !.camera = direction]
    /\ closing' = ("closeButton" \in keys)
    /\ phase' = "stat"
    /\ UNCHANGED <<file, profileVars, ui, clock>>

EndLoop ==
    /\ phase = "poll" /\ closing
    /\ phase' = "ended"
    /\ UNCHANGED <<file, profileVars, pressed, closing, ui, player, clock>>

NoLines == [cursor |-> None, target |-> None]

RebuildCursorLines(u) ==
    [u EXCEPT !.lines = [cursor |-> u.groundCursorPoint, target |-> u.playerMoveTarget],
              !.lineGeometryDirty = TRUE]

UpdateGroundCursor(u, ray) ==
    IF u.steering
    THEN [u EXCEPT !.groundCursorPoint = None,
                   !.lines = NoLines,
                   !.lineGeometryDirty =
                        @ \/ u.lines # NoLines \/ u.groundCursorPoint # None]
    ELSE RebuildCursorLines(
            [u EXCEPT !.groundCursorPoint =
                        IF ray = None THEN None ELSE Clamped(ray, Allowed(profile))])

\* MUTANT of SetCameraSteering: steering does not forget where the player was sent.
SetCameraSteering_KeepsTarget(u, ray) ==
    UpdateGroundCursor([u EXCEPT !.steering = ~@], ray)

SetCameraSteering(u, ray) ==
    UpdateGroundCursor(
        [u EXCEPT !.steering = ~@,
                  !.playerMoveTarget = IF u.steering THEN @ ELSE None], ray)

HandleCameraModeToggle(u, ray) ==
    LET down == bindings.toggle \in pressed
        set == IF down /\ ~u.toggleWasDown THEN SetCameraSteering(u, ray) ELSE u
    IN  [set EXCEPT !.toggleWasDown = down]

HandleClickToMove(u) ==
    LET down == "click" \in pressed
        set == IF /\ ~u.steering /\ down /\ ~u.leftMouseWasDown
                  /\ u.groundCursorPoint # None
               THEN RebuildCursorLines([u EXCEPT !.playerMoveTarget = u.groundCursorPoint])
               ELSE u
    IN  [set EXCEPT !.leftMouseWasDown = down]

HandleInput(ray) ==
    /\ phase = "input"
    /\ ui' = HandleClickToMove(UpdateGroundCursor(HandleCameraModeToggle(ui, ray), ray))
    /\ closing' = (closing \/ bindings.close \in pressed)
    /\ phase' = "simulate"
    /\ UNCHANGED <<file, profileVars, pressed, player, clock>>

-----------------------------------------------------------------------------
(* The fixed ticks.                                                        *)

\* The player's move axis: forward, backward, or both or neither.
Axis ==
    (IF "forward" \in pressed THEN 1 ELSE 0) - (IF "backward" \in pressed THEN 1 ELSE 0)

MoveSpeed ==
    profile.run * (IF "sprint" \in pressed /\ Axis >= 0 THEN profile.sprintScale ELSE 1)

\* Pressing a movement key cancels the click target.
BeginSimulation(time) ==
    /\ phase = "simulate"
    /\ clock' = [accumulated |-> clock.accumulated + time, ticks |-> 0]
    /\ ui' = IF Axis # 0 /\ ui.playerMoveTarget # None
             THEN RebuildCursorLines([ui EXCEPT !.playerMoveTarget = None])
             ELSE ui
    /\ phase' = "tick"
    /\ UNCHANGED <<file, profileVars, pressed, closing, player>>

\* MUTANT of MoveToTarget: the last step is not shortened.
MoveToTarget_Overshoots(p, target) ==
    LET direction == IF target > p.position THEN 1 ELSE -1
    IN  IF ~WalksTo(p, target, profile) THEN p
        ELSE [p EXCEPT !.facing = direction,
                       !.position = Clamped(@ + direction * MoveSpeed, Allowed(profile))]

MoveToTarget(p, target) == WalkTo(p, target, MoveSpeed, profile)

\* While steering, the player faces as the camera does, and moves along that.
MoveByKeys(p) ==
    Strafe(p, Axis, IF ui.steering THEN p.camera ELSE p.facing, ui.steering,
           MoveSpeed, profile)

AtMoveTarget(p, target) == ~WalksTo(p, target, profile)

TickDue == clock.accumulated >= TickLength /\ clock.ticks < MaxCatchUp

Walks == ~ui.steering /\ Axis = 0 /\ ui.playerMoveTarget # None

\* MUTANT of Tick: arriving forgets the target and leaves its square on the floor.
Tick_LeavesSquare ==
    /\ phase = "tick" /\ TickDue
    /\ player' = IF Walks THEN MoveToTarget(player, ui.playerMoveTarget)
                 ELSE MoveByKeys(player)
    /\ ui' = IF Walks /\ AtMoveTarget(player', ui.playerMoveTarget)
             THEN [ui EXCEPT !.playerMoveTarget = None]
             ELSE ui
    /\ clock' = [accumulated |-> clock.accumulated - TickLength, ticks |-> clock.ticks + 1]
    /\ UNCHANGED <<file, phase, profileVars, pressed, closing>>

Tick ==
    /\ phase = "tick" /\ TickDue
    /\ player' = IF Walks THEN MoveToTarget(player, ui.playerMoveTarget)
                 ELSE MoveByKeys(player)
    /\ ui' = IF Walks /\ AtMoveTarget(player', ui.playerMoveTarget)
             THEN RebuildCursorLines([ui EXCEPT !.playerMoveTarget = None])
             ELSE ui
    /\ clock' = [accumulated |-> clock.accumulated - TickLength, ticks |-> clock.ticks + 1]
    /\ UNCHANGED <<file, phase, profileVars, pressed, closing>>

\* Time beyond the ticks a frame may catch up with is dropped.
EndTicks ==
    /\ phase = "tick" /\ ~TickDue
    /\ clock' = [accumulated |-> IF clock.accumulated >= TickLength THEN 0
                                 ELSE clock.accumulated,
                 ticks |-> 0]
    /\ phase' = "draw"
    /\ UNCHANGED <<file, profileVars, pressed, closing, ui, player>>

\* drawFrame uploads the lines if they have changed.
Draw ==
    /\ phase = "draw"
    /\ ui' = [ui EXCEPT !.uploaded = IF ui.lineGeometryDirty THEN ui.lines ELSE @,
                        !.lineGeometryDirty = FALSE]
    /\ phase' = "poll"
    /\ pressed' = {}
    /\ UNCHANGED <<file, profileVars, closing, player, clock>>

-----------------------------------------------------------------------------
ControlsInit ==
    /\ file \in [content : Contents \cup {None}, saves : {0}]
    /\ phase = "start"
    /\ profile = None /\ bindings = None /\ writeTime = None /\ reload = NoReload
    /\ pressed = {} /\ closing = FALSE
    /\ ui = [steering |-> FALSE, toggleWasDown |-> FALSE, leftMouseWasDown |-> FALSE,
             groundCursorPoint |-> None, playerMoveTarget |-> None,
             lines |-> NoLines, lineGeometryDirty |-> FALSE, uploaded |-> NoLines]
    /\ player = [position |-> 0, facing |-> 1, camera |-> 1]
    /\ clock = [accumulated |-> 0, ticks |-> 0]

\* The steps of the viewer's thread.
ViewerNext ==
    \/ ReadInitial
    \/ StampInitial
    \/ \E keys \in Polls, direction \in {-1, 1} : Poll(keys, direction)
    \/ EndLoop
    \/ StatProfile
    \/ ReadProfile
    \/ SwapProfile
    \/ \E ray \in Rays \cup {None} : HandleInput(ray)
    \/ \E time \in FrameTimes : BeginSimulation(time)
    \/ Tick
    \/ EndTicks
    \/ Draw

ControlsNext == ViewerNext \/ \E content \in Contents \cup {None} : Save(content)

ControlsSpec == ControlsInit /\ [][ControlsNext]_controlVars

\* The viewer's thread is scheduled; nobody need ever save the file.
ControlsFairSpec == ControlsSpec /\ WF_controlVars(ViewerNext)

-----------------------------------------------------------------------------
(* Properties.                                                             *)

Positions == -HalfExtent..HalfExtent

Points == Positions \cup {None}

\* Type invariant.
ControlsTypeOK ==
    /\ file \in [content : Contents \cup {None}, saves : Nat]
    /\ phase \in {"start", "stamp", "poll", "stat", "read", "swap", "input", "simulate",
                  "tick", "draw", "ended"}
    /\ pressed \in Polls \cup {{}}
    /\ closing \in BOOLEAN
    /\ ui \in [steering : BOOLEAN, toggleWasDown : BOOLEAN, leftMouseWasDown : BOOLEAN,
               groundCursorPoint : Points, playerMoveTarget : Points,
               lines : [cursor : Points, target : Points], lineGeometryDirty : BOOLEAN,
               uploaded : [cursor : Points, target : Points]]
    /\ player \in [position : Positions, facing : {-1, 1}, camera : {-1, 1}]
    /\ clock \in [accumulated : Nat, ticks : 0..MaxCatchUp]

\* "A bad edit keeps the last good profile active" (docs/control-profile.md:3):
\* whatever is saved, and whenever, the movement values and the key codes in use are
\* those of one and the same text that loaded.
ProfileIsOfOneFile ==
    profile # None =>
        \E content \in Contents :
            /\ Loads(content)
            /\ profile = content.movement /\ bindings = content.bindings

\* When the stored time is the file's and the file loads, the profile in use is the
\* file's: maybeReloadControlProfile, which compares nothing but the times, misses no
\* save, also one between its look at the time and its reading.
ActiveProfileIsCurrent ==
    /\ phase \notin {"start", "stamp", "ended"}
    /\ writeTime = FileWriteTime
    /\ Loads(file.content)
    => profile = file.content.movement /\ bindings = file.content.bindings

\* A saved text that loads is in use after a while, unless it is replaced before.
EditsTakeEffect ==
    \A content \in {loading \in Contents : Loads(loading)} :
        file.content = content ~>
            \/ profile = content.movement /\ bindings = content.bindings
            \/ file.content # content
            \/ phase = "ended"

\* Between frames, while the camera steers, the player is on no way to a click's
\* target: toggling forgets the target, and no click makes one until it toggles back.
SteeringForgetsTarget ==
    phase \in {"poll", "simulate", "tick", "draw"} /\ ui.steering =>
        ui.playerMoveTarget = None /\ ui.groundCursorPoint = None

\* Between two frames, the squares on the screen are the cursor's and the target's
\* own: whoever moved or dropped one of them had the lines uploaded.
SquaresAreCurrent ==
    phase = "poll" =>
        ui.uploaded = [cursor |-> ui.groundCursorPoint, target |-> ui.playerMoveTarget]

\* A target within reach: the arena's limits keep the player nowhere outside the
\* arrival radius, and the player has a speed.
Walkable(x) ==
    /\ ui.playerMoveTarget = x
    /\ phase # "ended"
    /\ profile.run > 0 /\ profile.sprintScale > 0
    /\ Distance(x, Clamped(x, Allowed(profile))) <= profile.radius

\* A player sent somewhere gets there, or is sent elsewhere or steered before: it
\* does not go round its target for ever, also with an arrival radius of zero.
WalksArrive == \A x \in Positions : Walkable(x) ~> ~Walkable(x)
=============================================================================
