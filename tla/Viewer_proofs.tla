----------------------------- MODULE Viewer_proofs -----------------------------
(***************************************************************************)
(* Theorems about the two halves of a viewer, each by itself.              *)
(*                                                                         *)
(* ViewerControls: whatever the file contains and whenever it is saved,    *)
(* whatever the user does and however long a frame takes, the profile in   *)
(* use is a file's own, and the squares on the floor are those of the mode *)
(* the viewer is in.                                                       *)
(*                                                                         *)
(* ViewerFrames: every variable stays in its range; while the GPU works    *)
(* nothing it uses is written, signalled or destroyed; and the lifetimes   *)
(* of the Vulkan objects nest, whatever fails.  The second holds for       *)
(* kMaxFramesInFlight = 1 only, the value of the code: there is one line   *)
(* buffer for all frames.                                                  *)
(***************************************************************************)
EXTENDS ViewerControls, ViewerFrames, SequenceTheorems, TLAPS

-----------------------------------------------------------------------------
(* Controls.                                                               *)

\* The profile and the keys are those of one text that loads.
InUse(content) == profile = content.movement /\ bindings = content.bindings

\* What has been read: nothing before the first reading, one text after it.
ProfileOK ==
    \/ profile = None /\ phase \in {"start", "ended"}
    \/ \E content \in Contents : Loads(content) /\ InUse(content)

Times == 0..file.saves \cup {None}

\* What the local variables of a reload say of the file.
ReloadOK ==
    /\ reload \in [time : Times, content : Contents \cup {None}]
    /\ writeTime \in Times
    /\ phase = "stamp" => Loads(file.content) /\ InUse(file.content)
    /\ phase = "swap" =>
          /\ Loads(reload.content)
          /\ reload.time = FileWriteTime /\ Loads(file.content)
                => reload.content = file.content

UiStates ==
    [steering : BOOLEAN, toggleWasDown : BOOLEAN, leftMouseWasDown : BOOLEAN,
     groundCursorPoint : Points, playerMoveTarget : Points,
     lines : [cursor : Points, target : Points], lineGeometryDirty : BOOLEAN,
     uploaded : [cursor : Points, target : Points]]

\* The lines are those of the two points, on the screen or waiting to be uploaded.
Tidy(u) ==
    /\ u \in UiStates
    /\ u.lines = [cursor |-> u.groundCursorPoint, target |-> u.playerMoveTarget]
    /\ u.lineGeometryDirty \/ u.uploaded = u.lines
    /\ u.steering => u.playerMoveTarget = None /\ u.groundCursorPoint = None

\* Lines change only between the input and the drawing of a frame.
UiOK == Tidy(ui) /\ (phase \notin {"simulate", "tick", "draw"} => ~ui.lineGeometryDirty)

\* The inductive invariant.
ControlsInv ==
    /\ ControlsTypeOK
    /\ ProfileOK
    /\ ReloadOK
    /\ ActiveProfileIsCurrent
    /\ UiOK

-----------------------------------------------------------------------------
(* Lemmas about the operators.                                             *)

\* After the start, the speeds and limits in use are those of a tuning.
LEMMA ProfileIsTuning ==
    ASSUME ProfileOK, phase \notin {"start", "ended"}
    PROVE  profile \in Tunings
  BY ContentsAssumption DEF ProfileOK, InUse

\* The limits keep what is clamped to them in the arena.
LEMMA ClampedStays ==
    ASSUME NEW movement \in Tunings, NEW x \in Int
    PROVE  Clamped(x, Allowed(movement)) \in Positions
  <1>1. Allowed(movement) \in 0..HalfExtent
    BY HalfExtentAssumption DEF Allowed, Tunings
  <1> QED BY <1>1, HalfExtentAssumption DEF Clamped, Positions

\* Lines that are built anew are tidy, unless the camera steers towards a point.
LEMMA RebuildTidies ==
    ASSUME NEW u \in UiStates,
           u.steering => u.playerMoveTarget = None /\ u.groundCursorPoint = None
    PROVE  Tidy(RebuildCursorLines(u))
  BY DEF RebuildCursorLines, Tidy, UiStates

\* The cursor's update leaves tidy lines, also of a target that was just forgotten.
LEMMA CursorTidies ==
    ASSUME profile \in Tunings, NEW ray \in Rays \cup {None}, NEW u \in UiStates,
           u.lineGeometryDirty \/ u.uploaded = u.lines,
           u.steering => u.playerMoveTarget = None
    PROVE  Tidy(UpdateGroundCursor(u, ray))
  <1>1. CASE u.steering
    <2> DEFINE v == UpdateGroundCursor(u, ray)
    <2>1. v = [u EXCEPT !.groundCursorPoint = None, !.lines = NoLines,
                        !.lineGeometryDirty = @ \/ u.lines # NoLines
                                                \/ u.groundCursorPoint # None]
      BY <1>1 DEF UpdateGroundCursor
    <2>2. NoLines \in [cursor : Points, target : Points] /\ None \in Points
      BY DEF NoLines, Points
    <2>3. v.lineGeometryDirty \in BOOLEAN
      BY <2>1 DEF UiStates
    <2>4. v \in UiStates
      BY <2>1, <2>2, <2>3 DEF UiStates
    <2>5. v.lineGeometryDirty \/ v.uploaded = v.lines
      BY <2>1 DEF UiStates
    <2> QED BY <1>1, <2>1, <2>4, <2>5 DEF Tidy, UiStates, NoLines
  <1>2. CASE ~u.steering
    <2> DEFINE point == IF ray = None THEN None ELSE Clamped(ray, Allowed(profile))
               v == [u EXCEPT !.groundCursorPoint = point]
    <2>1. point \in Points
      BY ClampedStays, RaysAssumption DEF Points
    <2>2. v \in UiStates /\ ~v.steering
      BY <1>2, <2>1 DEF UiStates
    <2>3. UpdateGroundCursor(u, ray) = RebuildCursorLines(v)
      BY <1>2 DEF UpdateGroundCursor
    <2> QED BY <2>2, <2>3, RebuildTidies
  <1> QED BY <1>1, <1>2

\* A frame's input leaves a tidy user interface.
LEMMA InputTidies ==
    ASSUME profile \in Tunings, NEW ray \in Rays \cup {None}, Tidy(ui)
    PROVE  Tidy(HandleClickToMove(UpdateGroundCursor(HandleCameraModeToggle(ui, ray), ray)))
  <1> DEFINE flipped == [ui EXCEPT !.steering = ~@,
                                   !.playerMoveTarget = IF ui.steering THEN @ ELSE None]
             toggled == HandleCameraModeToggle(ui, ray)
             pointed == UpdateGroundCursor(toggled, ray)
             sent == RebuildCursorLines([pointed EXCEPT !.playerMoveTarget =
                                                            pointed.groundCursorPoint])
  <1>1. Tidy(SetCameraSteering(ui, ray))
    <2>1. flipped \in UiStates
      BY DEF Tidy, UiStates, Points
    <2>2. /\ flipped.lineGeometryDirty \/ flipped.uploaded = flipped.lines
          /\ flipped.steering => flipped.playerMoveTarget = None
      BY DEF Tidy, UiStates
    <2> QED BY <2>1, <2>2, CursorTidies DEF SetCameraSteering
  <1>2. ASSUME NEW u, Tidy(u), NEW down \in BOOLEAN
        PROVE  /\ Tidy([u EXCEPT !.toggleWasDown = down])
               /\ Tidy([u EXCEPT !.leftMouseWasDown = down])
    BY <1>2 DEF Tidy, UiStates
  <1>3. Tidy(toggled)
    <2> DEFINE down == bindings.toggle \in pressed
    <2>1. down \in BOOLEAN
      OBVIOUS
    <2> QED BY <1>1, <1>2, <2>1 DEF HandleCameraModeToggle
  <1>4. Tidy(pointed)
    BY <1>3, CursorTidies DEF Tidy
  <1>5. ASSUME ~pointed.steering PROVE Tidy(sent)
    <2> DEFINE aimed == [pointed EXCEPT !.playerMoveTarget = pointed.groundCursorPoint]
    <2>1. aimed \in UiStates /\ ~aimed.steering
      BY <1>4, <1>5 DEF Tidy, UiStates
    <2> QED BY <2>1, RebuildTidies
  <1>6. Tidy(HandleClickToMove(pointed))
    <2> DEFINE down == "click" \in pressed
    <2>1. down \in BOOLEAN
      OBVIOUS
    <2> HIDE DEF pointed
    <2> QED BY <1>2, <1>4, <1>5, <2>1 DEF HandleClickToMove
  <1> QED BY <1>6

\* A tick keeps the player in the arena.
LEMMA PlayerStays ==
    ASSUME profile \in Tunings, ControlsTypeOK
    PROVE  /\ MoveByKeys(player) \in [position : Positions, facing : {-1, 1}, camera : {-1, 1}]
           /\ \A target \in Positions :
                MoveToTarget(player, target)
                    \in [position : Positions, facing : {-1, 1}, camera : {-1, 1}]
  <1> DEFINE Bodies == [position : Positions, facing : {-1, 1}, camera : {-1, 1}]
  <1>1. player \in Bodies /\ player.position \in Int /\ Positions \subseteq Int
    BY HalfExtentAssumption DEF ControlsTypeOK, Positions
  <1>2. Axis \in {-1, 0, 1}
    BY DEF Axis
  <1>3. MoveSpeed \in Nat
    BY DEF MoveSpeed, Tunings
  <1>4. MoveByKeys(player) \in Bodies
    <2> DEFINE yaw == IF ui.steering THEN player.camera ELSE player.facing
               way == IF Axis = -1 THEN MoveSpeed \div profile.backpedalDivisor ELSE MoveSpeed
               next == player.position + Axis * yaw * way
    <2>1. yaw \in {-1, 1}
      BY <1>1
    <2>2. way \in Int
      BY <1>3 DEF Tunings
    <2>3. next \in Int
      BY <1>1, <1>2, <2>1, <2>2
    <2>4. Clamped(next, Allowed(profile)) \in Positions
      BY <2>3, ClampedStays
    <2> QED BY <1>1, <2>1, <2>4 DEF MoveByKeys, Strafe
  <1>5. ASSUME NEW target \in Positions PROVE MoveToTarget(player, target) \in Bodies
    <2> DEFINE direction == IF target > player.position THEN 1 ELSE -1
               next == player.position
                         + direction * Smaller(MoveSpeed, Distance(player.position, target))
    <2>1. Smaller(MoveSpeed, Distance(player.position, target)) \in Int
      BY <1>1, <1>3 DEF Smaller, Distance
    <2>2. next \in Int
      BY <1>1, <2>1
    <2>3. Clamped(next, Allowed(profile)) \in Positions
      BY <2>2, ClampedStays
    <2> QED BY <1>1, <2>3 DEF MoveToTarget, WalkTo
  <1> QED BY <1>4, <1>5

-----------------------------------------------------------------------------
(* The steps.                                                              *)

\* Before anything is read there is nothing to agree with.
LEMMA InvStarts == ControlsInit => ControlsInv
  <1> SUFFICES ASSUME ControlsInit PROVE ControlsInv
    OBVIOUS
  <1>1. None \in Points /\ 0 \in Positions
    BY HalfExtentAssumption DEF Points, Positions
  <1>2. Tidy(ui) /\ ~ui.lineGeometryDirty
    BY <1>1 DEF ControlsInit, Tidy, UiStates, NoLines
  <1>3. ControlsTypeOK
    <2>1. file \in [content : Contents \cup {None}, saves : Nat]
      BY DEF ControlsInit
    <2>2. /\ player \in [position : Positions, facing : {-1, 1}, camera : {-1, 1}]
          /\ clock \in [accumulated : Nat, ticks : 0..MaxCatchUp]
      BY <1>1, TicksAssumption DEF ControlsInit
    <2> QED BY <1>2, <2>1, <2>2 DEF ControlsInit, ControlsTypeOK, Tidy, UiStates
  <1>4. ProfileOK /\ ReloadOK /\ ActiveProfileIsCurrent
    BY DEF ControlsInit, ProfileOK, ReloadOK, NoReload, Times, ActiveProfileIsCurrent
  <1> QED BY <1>2, <1>3, <1>4 DEF ControlsInv, UiOK

\* Whoever saves the file makes its time one that nobody has seen.
LEMMA SaveKeeps ==
    ASSUME ControlsInv, NEW content \in Contents \cup {None}, Save(content)
    PROVE  ControlsInv'
  <1>1. file.saves \in Nat /\ file'.saves = file.saves + 1 /\ file'.content = content
    BY DEF ControlsInv, ControlsTypeOK, Save
  <1>2. ControlsTypeOK'
    BY <1>1 DEF ControlsInv, ControlsTypeOK, Save
  <1>3. ProfileOK' /\ UiOK'
    BY DEF ControlsInv, Save, profileVars, ProfileOK, InUse, UiOK, Tidy
  <1>4. \A time \in Times : time \in Times' /\ (Loads(content) => time # FileWriteTime')
    BY <1>1, RaysAssumption DEF Times, FileWriteTime, Loads
  <1>5. ReloadOK'
    BY <1>1, <1>4 DEF ControlsInv, ReloadOK, Save, profileVars
  <1>6. ActiveProfileIsCurrent'
    BY <1>1, <1>4 DEF ControlsInv, ReloadOK, ActiveProfileIsCurrent, Save, profileVars
  <1> QED BY <1>2, <1>3, <1>5, <1>6 DEF ControlsInv

\* A time the program asks for is one of the file's.
LEMMA StampIsTime == ControlsTypeOK => FileWriteTime \in Times
  BY DEF ControlsTypeOK, FileWriteTime, Times

\* The steps that read the profile replace all of it or nothing.
LEMMA ReadingKeeps ==
    ASSUME ControlsInv,
           ReadInitial \/ StampInitial \/ StatProfile \/ ReadProfile \/ SwapProfile
    PROVE  ControlsInv'
  <1>1. CASE ReadInitial
    <2>1. ControlsTypeOK' /\ UiOK'
      BY <1>1 DEF ControlsInv, ControlsTypeOK, UiOK, Tidy, ReadInitial
    <2>2. ProfileOK'
      BY <1>1 DEF ControlsInv, ControlsTypeOK, ProfileOK, InUse, ReadInitial, Loads
    <2>3. ReloadOK' /\ ActiveProfileIsCurrent'
      BY <1>1 DEF ControlsInv, ReloadOK, InUse, Times, ActiveProfileIsCurrent, ReadInitial
    <2> QED BY <2>1, <2>2, <2>3 DEF ControlsInv
  <1>2. CASE StampInitial
    <2>1. ControlsTypeOK' /\ UiOK' /\ ProfileOK'
      BY <1>2 DEF ControlsInv, ControlsTypeOK, UiOK, Tidy, ProfileOK, InUse, StampInitial
    <2>2. ReloadOK' /\ ActiveProfileIsCurrent'
      BY <1>2, StampIsTime
      DEF ControlsInv, ReloadOK, InUse, Times, FileWriteTime, ActiveProfileIsCurrent,
          StampInitial
    <2> QED BY <2>1, <2>2 DEF ControlsInv
  <1>3. CASE StatProfile
    <2>1. ControlsTypeOK' /\ UiOK' /\ ProfileOK'
      BY <1>3 DEF ControlsInv, ControlsTypeOK, UiOK, Tidy, ProfileOK, InUse, StatProfile
    <2>2. ReloadOK' /\ ActiveProfileIsCurrent'
      BY <1>3, StampIsTime
      DEF ControlsInv, ReloadOK, InUse, Times, FileWriteTime, ActiveProfileIsCurrent,
          StatProfile
    <2> QED BY <2>1, <2>2 DEF ControlsInv
  <1>4. CASE ReadProfile
    <2>1. ControlsTypeOK' /\ UiOK' /\ ProfileOK'
      BY <1>4 DEF ControlsInv, ControlsTypeOK, UiOK, Tidy, ProfileOK, InUse, ReadProfile
    <2>2. file.content \in Contents \cup {None} /\ None \in Times
      BY DEF ControlsInv, ControlsTypeOK, Times
    <2>3. ReloadOK' /\ ActiveProfileIsCurrent'
      BY <1>4, <2>2
      DEF ControlsInv, ReloadOK, Times, FileWriteTime, ActiveProfileIsCurrent, ReadProfile,
          NoReload
    <2> QED BY <2>1, <2>3 DEF ControlsInv
  <1>5. CASE SwapProfile
    <2>1. ControlsTypeOK' /\ UiOK'
      BY <1>5 DEF ControlsInv, ControlsTypeOK, UiOK, Tidy, SwapProfile
    <2>2. reload.content \in Contents /\ Loads(reload.content)
      BY <1>5 DEF ControlsInv, ReloadOK, SwapProfile, Loads
    <2>3. ProfileOK'
      BY <1>5, <2>2 DEF ProfileOK, InUse, SwapProfile
    <2>4. ReloadOK' /\ ActiveProfileIsCurrent'
      BY <1>5, <2>2
      DEF ControlsInv, ReloadOK, Times, FileWriteTime, ActiveProfileIsCurrent, SwapProfile,
          NoReload
    <2> QED BY <2>1, <2>3, <2>4 DEF ControlsInv
  <1> QED BY <1>1, <1>2, <1>3, <1>4, <1>5

\* The other steps of the viewer leave what it has read of the profile, and its phase is
\* none of those in which that changes.
LEMMA ProfileRests ==
    ASSUME ControlsInv, UNCHANGED <<file, profileVars>>,
           phase \in {"poll", "input", "simulate", "tick", "draw"},
           phase' \in {"poll", "stat", "input", "simulate", "tick", "draw", "ended"}
    PROVE  ProfileOK' /\ ReloadOK' /\ ActiveProfileIsCurrent'
  BY DEF ControlsInv, profileVars, ProfileOK, InUse, ReloadOK, Times, FileWriteTime,
         ActiveProfileIsCurrent

\* The steps of a frame that read no profile.
LEMMA FrameKeeps ==
    ASSUME ControlsInv,
           \/ \E keys \in Polls, direction \in {-1, 1} : Poll(keys, direction)
           \/ EndLoop
           \/ \E ray \in Rays \cup {None} : HandleInput(ray)
           \/ \E time \in FrameTimes : BeginSimulation(time)
           \/ Tick \/ EndTicks \/ Draw
    PROVE  ControlsInv'
  <1> DEFINE Bodies == [position : Positions, facing : {-1, 1}, camera : {-1, 1}]
             ClockOK == clock \in [accumulated : Nat, ticks : 0..MaxCatchUp]
  <1>a. player \in Bodies /\ ClockOK /\ Tidy(ui) /\ closing \in BOOLEAN
        /\ pressed \in Polls \cup {{}}
    BY DEF ControlsInv, ControlsTypeOK, UiOK
  <1>b. phase \notin {"start", "ended"} => profile \in Tunings
    BY ProfileIsTuning DEF ControlsInv
  <1>c. ASSUME Tidy(ui'), player' \in Bodies, ClockOK', closing' \in BOOLEAN,
               pressed' \in Polls \cup {{}}, UNCHANGED <<file, profileVars>>,
               phase \in {"poll", "input", "simulate", "tick", "draw"},
               phase' \in {"poll", "stat", "input", "simulate", "tick", "draw", "ended"},
               phase' \notin {"simulate", "tick", "draw"} => ~ui'.lineGeometryDirty
        PROVE  ControlsInv'
    <2>1. ControlsTypeOK'
      BY <1>c DEF ControlsInv, ControlsTypeOK, Tidy, UiStates
    <2>2. UiOK'
      BY <1>c DEF UiOK, Tidy
    <2> QED BY <1>c, <2>1, <2>2, ProfileRests DEF ControlsInv
  <1>1. ASSUME NEW keys \in Polls, NEW direction \in {-1, 1}, Poll(keys, direction)
        PROVE  ControlsInv'
    <2>1. player' \in Bodies
      BY <1>1, <1>a DEF Poll
    <2> QED BY <1>1, <1>a, <1>c, <2>1 DEF Poll, ControlsInv, UiOK, Tidy
  <1>2. CASE EndLoop
    BY <1>2, <1>a, <1>c DEF EndLoop, ControlsInv, UiOK, Tidy
  <1>3. ASSUME NEW ray \in Rays \cup {None}, HandleInput(ray)
        PROVE  ControlsInv'
    <2>1. Tidy(ui')
      BY <1>3, <1>a, <1>b, InputTidies DEF HandleInput
    <2>2. closing' \in BOOLEAN
      BY <1>3, <1>a DEF HandleInput
    <2> QED BY <1>3, <1>a, <1>c, <2>1, <2>2 DEF HandleInput
  <1>4. ASSUME NEW time \in FrameTimes, BeginSimulation(time)
        PROVE  ControlsInv'
    <2> DEFINE freed == [ui EXCEPT !.playerMoveTarget = None]
    <2>1. freed \in UiStates
      BY <1>a DEF Tidy, UiStates, Points
    <2>2. Tidy(RebuildCursorLines(freed))
      BY <1>a, <2>1, RebuildTidies DEF Tidy, UiStates
    <2>3. Tidy(ui')
      BY <1>4, <1>a, <2>2 DEF BeginSimulation, Tidy
    <2>4. ClockOK'
      BY <1>4, <1>a, TicksAssumption DEF BeginSimulation
    <2> QED BY <1>4, <1>a, <1>c, <2>3, <2>4 DEF BeginSimulation
  <1>5. CASE Tick
    <2> DEFINE freed == [ui EXCEPT !.playerMoveTarget = None]
    <2>1. freed \in UiStates
      BY <1>a DEF Tidy, UiStates, Points
    <2>2. Tidy(RebuildCursorLines(freed))
      BY <1>a, <2>1, RebuildTidies DEF Tidy, UiStates
    <2>3. Tidy(ui')
      BY <1>5, <1>a, <2>2 DEF Tick, Tidy
    <2>4. Walks => ui.playerMoveTarget \in Positions
      BY <1>a DEF Walks, Tidy, UiStates, Points
    <2>5. player' \in Bodies
      BY <1>5, <1>b, <2>4, PlayerStays DEF Tick, ControlsInv
    <2>6. ClockOK'
      BY <1>5, <1>a, TicksAssumption DEF Tick, TickDue
    <2> QED BY <1>5, <1>a, <1>c, <2>3, <2>5, <2>6 DEF Tick
  <1>6. CASE EndTicks
    <2>1. ClockOK'
      BY <1>6, <1>a, TicksAssumption DEF EndTicks
    <2> QED BY <1>6, <1>a, <1>c, <2>1 DEF EndTicks, Tidy
  <1>7. CASE Draw
    <2>1. Tidy(ui') /\ ~ui'.lineGeometryDirty
      BY <1>7, <1>a DEF Draw, Tidy, UiStates
    <2> QED BY <1>7, <1>a, <1>c, <2>1 DEF Draw
  <1> QED BY <1>1, <1>2, <1>3, <1>4, <1>5, <1>6, <1>7

\* The strengthened invariant holds in every reachable state.
THEOREM ControlsConsistent == ControlsSpec => []ControlsInv
  <1>1. ASSUME ControlsInv, [ControlsNext]_controlVars PROVE ControlsInv'
    <2>1. CASE UNCHANGED controlVars
      BY <1>1, <2>1
      DEF controlVars, ControlsInv, ControlsTypeOK, ProfileOK, InUse, ReloadOK, Times,
          FileWriteTime, ActiveProfileIsCurrent, UiOK, Tidy
    <2>2. CASE ControlsNext
      BY <1>1, <2>2, SaveKeeps, ReadingKeeps, FrameKeeps DEF ControlsNext, ViewerNext
    <2> QED BY <1>1, <2>1, <2>2
  <1> QED BY <1>1, InvStarts, PTL DEF ControlsSpec

\* ControlsTypeOK for every content of the file, arena and length of a frame: the player
\* stays in the arena and a frame within its ticks.
THEOREM ControlsTypeCorrect == ControlsSpec => []ControlsTypeOK
  <1>1. ControlsInv => ControlsTypeOK
    BY DEF ControlsInv
  <1> QED BY <1>1, ControlsConsistent, PTL

\* ProfileIsOfOneFile (loadInitialControlProfile, maybeReloadControlProfile): however
\* often and whenever the file is saved.
THEOREM ProfileAlwaysOfOneFile == ControlsSpec => []ProfileIsOfOneFile
  <1>1. ControlsInv => ProfileIsOfOneFile
    BY DEF ControlsInv, ProfileOK, InUse, ProfileIsOfOneFile
  <1> QED BY <1>1, ControlsConsistent, PTL

\* ActiveProfileIsCurrent (maybeReloadControlProfile): no save is missed once the viewer
\* has started.
THEOREM ProfileAlwaysCurrent == ControlsSpec => []ActiveProfileIsCurrent
  <1>1. ControlsInv => ActiveProfileIsCurrent
    BY DEF ControlsInv
  <1> QED BY <1>1, ControlsConsistent, PTL

\* SteeringForgetsTarget (setCameraSteeringEnabled, handleClickToMoveInput).
THEOREM SteeringAlwaysForgets == ControlsSpec => []SteeringForgetsTarget
  <1>1. ControlsInv => SteeringForgetsTarget
    BY DEF ControlsInv, UiOK, Tidy, SteeringForgetsTarget
  <1> QED BY <1>1, ControlsConsistent, PTL

\* SquaresAreCurrent (rebuildCursorLineVertices, drawFrame).
THEOREM SquaresAlwaysCurrent == ControlsSpec => []SquaresAreCurrent
  <1>1. ControlsInv => SquaresAreCurrent
    BY DEF ControlsInv, UiOK, Tidy, SquaresAreCurrent
  <1> QED BY <1>1, ControlsConsistent, PTL

-----------------------------------------------------------------------------
(* Frames.                                                                 *)

(* The three lists of calls.                                               *)

\* The members that hold an object.
Members ==
    {"window", "instance", "debugMessenger", "surface", "device", "swapChain",
     "imageViews", "renderPass", "depthImage", "pipelines", "framebuffers",
     "commandPool", "vertexBuffers", "commandBuffers", "syncObjects"}

\* Those that recreateSwapChain replaces.
Replaced ==
    {"syncObjects", "depthImage", "framebuffers", "imageViews", "swapChain", "commandBuffers"}

Creations(objects) == [call : {"create"}, object : objects]
Destructions(objects) == [call : {"destroy"}, object : objects]
Commands(objects) == [call : {"create", "destroy"}, object : objects]

\* Destroying a sequence of objects is a sequence of destructions.
LEMMA DestroyingIsSeq ==
    ASSUME NEW S, NEW s \in Seq(S)
    PROVE  /\ Calls(Destruction, s) \in Seq(Destructions(S))
           /\ Len(Calls(Destruction, s)) = Len(s)
           /\ \A n \in 1..Len(s) : Calls(Destruction, s)[n] = Destruction(s[n])
  <1>1. DOMAIN s = 1..Len(s) /\ Len(s) \in Nat
    OBVIOUS
  <1>2. \A n \in 1..Len(s) : s[n] \in S
    OBVIOUS
  <1>3. \A n \in 1..Len(s) : Destruction(s[n]) \in Destructions(S)
    BY <1>2 DEF Destruction, Destructions
  <1>4. Calls(Destruction, s) = [n \in 1..Len(s) |-> Destruction(s[n])]
    BY <1>1 DEF Calls
  <1> QED BY <1>1, <1>3, <1>4

LEMMA CreatingIsSeq ==
    ASSUME NEW S, NEW s \in Seq(S)
    PROVE  /\ Calls(Creation, s) \in Seq(Creations(S))
           /\ \A n \in 1..Len(s) : Calls(Creation, s)[n] = Creation(s[n])
  <1>1. DOMAIN s = 1..Len(s) /\ Len(s) \in Nat
    OBVIOUS
  <1>2. \A n \in 1..Len(s) : s[n] \in S
    OBVIOUS
  <1>3. \A n \in 1..Len(s) : Creation(s[n]) \in Creations(S)
    BY <1>2 DEF Creation, Creations
  <1>4. Calls(Creation, s) = [n \in 1..Len(s) |-> Creation(s[n])]
    BY <1>1 DEF Calls
  <1> QED BY <1>1, <1>3, <1>4

\* initVulkan creates only, and a device among others.
LEMMA InitCreates ==
    /\ InitScript \in Seq(Creations(Members))
    /\ \E n \in 1..Len(InitScript) : InitScript[n] = Creation("device")
    /\ Members \subseteq Objects
  <1> DEFINE objects ==
          <<"window", "instance", "debugMessenger", "surface", "device", "swapChain",
            "imageViews", "renderPass", "depthImage", "pipelines", "framebuffers",
            "commandPool", "vertexBuffers", "commandBuffers", "syncObjects">>
  <1>1. objects \in Seq(Members) /\ Len(objects) = 15
    BY DEF Members
  <1>2. InitScript = Calls(Creation, objects)
    BY DEF InitScript
  <1>3. InitScript \in Seq(Creations(Members)) /\ Len(InitScript) = 15
    <2>1. DOMAIN objects = 1..15
      OBVIOUS
    <2>2. InitScript = [n \in 1..15 |-> Creation(objects[n])]
      BY <1>2, <2>1 DEF Calls
    <2> HIDE DEF objects
    <2>3. InitScript \in Seq(Creations(Members))
      BY <1>1, <1>2, CreatingIsSeq
    <2> QED BY <2>2, <2>3
  <1>4. \A n \in 1..15 : InitScript[n] = Creation(objects[n])
    <2> HIDE DEF objects
    <2> QED BY <1>1, <1>2, CreatingIsSeq
  <1>5. InitScript[5] = Creation("device")
    BY <1>4
  <1>6. Members \subseteq Objects
    <2>1. \A n \in 1..15 : objects[n] \in Objects
      <3> HIDE DEF objects
      <3>1. DOMAIN InitScript = 1..15
        BY <1>3
      <3> QED BY <1>4, <3>1 DEF Objects, Creation
    <2>2. \A member \in Members : \E n \in 1..15 : objects[n] = member
      BY DEF Members
    <2> QED BY <2>1, <2>2
  <1> QED BY <1>3, <1>5, <1>6

\* cleanup destroys only.
LEMMA CleanupDestroys == CleanupScript \in Seq(Destructions(Members))
  <1> DEFINE rest ==
          <<"vertexBuffers", "pipelines", "renderPass", "syncObjects", "commandBuffers",
            "commandPool", "device", "surface", "debugMessenger", "instance", "window">>
  <1>1. rest \in Seq(Members)
    BY DEF Members
  <1>2. CleanupSwapChain \in Seq(Members)
    BY DEF CleanupSwapChain, Members
  <1>3. CleanupScript = Calls(Destruction, CleanupSwapChain \o rest)
    BY DEF CleanupScript
  <1> HIDE DEF rest
  <1>4. CleanupSwapChain \o rest \in Seq(Members)
    BY <1>1, <1>2, ConcatProperties
  <1> QED BY <1>3, <1>4, DestroyingIsSeq

\* recreateSwapChain begins with the fences and semaphores, and leaves the device alone.
LEMMA RecreateReplaces ==
    /\ RecreateScript \in Seq(Commands(Replaced))
    /\ RecreateScript # <<>>
    /\ Head(RecreateScript) = Destruction("syncObjects")
  <1> DEFINE A == Calls(Destruction, <<"syncObjects">> \o CleanupSwapChain)
             B == Calls(Creation, <<"swapChain", "imageViews", "depthImage", "framebuffers">>)
             C == <<Destruction("commandBuffers")>>
             D == Calls(Creation, <<"commandBuffers", "syncObjects">>)
             K == Commands(Replaced)
  <1>1. A \in Seq(K) /\ Len(A) \in Nat \ {0} /\ A[1] = Destruction("syncObjects")
    <2> DEFINE names == <<"syncObjects">> \o CleanupSwapChain
    <2>1. <<"syncObjects">> \in Seq(Replaced) /\ CleanupSwapChain \in Seq(Replaced)
      BY DEF Replaced, CleanupSwapChain
    <2>2. names \in Seq(Replaced) /\ Len(names) \in Nat \ {0} /\ names[1] = "syncObjects"
      <3>1. Len(CleanupSwapChain) \in Nat
        BY <2>1
      <3> QED BY <2>1, <3>1, ConcatProperties
    <2> HIDE DEF names
    <2>3. /\ A \in Seq(Destructions(Replaced))
          /\ Len(A) = Len(names)
          /\ A[1] = Destruction("syncObjects")
      <3>1. A = Calls(Destruction, names)
        BY DEF names
      <3>2. 1 \in 1..Len(names)
        BY <2>2
      <3> HIDE DEF A
      <3> QED BY <2>2, <3>1, <3>2, DestroyingIsSeq
    <2>4. Destructions(Replaced) \subseteq K
      BY DEF Destructions, Commands
    <2> HIDE DEF A, K
    <2> QED BY <2>2, <2>3, <2>4, SeqMonotonic
  <1>2. B \in Seq(K)
    <2>1. <<"swapChain", "imageViews", "depthImage", "framebuffers">> \in Seq(Replaced)
      BY DEF Replaced
    <2>2. B \in Seq(Creations(Replaced))
      BY <2>1, CreatingIsSeq
    <2>3. Creations(Replaced) \subseteq K
      BY DEF Creations, Commands
    <2> HIDE DEF B, K
    <2> QED BY <2>2, <2>3, SeqMonotonic
  <1>3. C \in Seq(K)
    BY DEF Destruction, Commands, Replaced
  <1>4. D \in Seq(K)
    <2>1. <<"commandBuffers", "syncObjects">> \in Seq(Replaced)
      BY DEF Replaced
    <2>2. D \in Seq(Creations(Replaced))
      BY <2>1, CreatingIsSeq
    <2>3. Creations(Replaced) \subseteq K
      BY DEF Creations, Commands
    <2> HIDE DEF D, K
    <2> QED BY <2>2, <2>3, SeqMonotonic
  <1>5. RecreateScript = A \o B \o C \o D
    BY DEF RecreateScript
  <1> HIDE DEF A, B, C, D, K
  <1>6. /\ A \o B \in Seq(K) /\ Len(A \o B) \in Nat \ {0}
        /\ (A \o B)[1] = Destruction("syncObjects")
    <2>1. Len(B) \in Nat
      BY <1>2
    <2> QED BY <1>1, <1>2, <2>1, ConcatProperties
  <1>7. /\ A \o B \o C \in Seq(K) /\ Len(A \o B \o C) \in Nat \ {0}
        /\ (A \o B \o C)[1] = Destruction("syncObjects")
    <2>1. Len(C) \in Nat
      BY <1>3
    <2> QED BY <1>6, <1>3, <2>1, ConcatProperties
  <1>8. /\ A \o B \o C \o D \in Seq(K) /\ Len(A \o B \o C \o D) \in Nat \ {0}
        /\ (A \o B \o C \o D)[1] = Destruction("syncObjects")
    <2>1. Len(D) \in Nat
      BY <1>4
    <2> QED BY <1>7, <1>4, <2>1, ConcatProperties
  <1>9. /\ RecreateScript \in Seq(K) /\ Len(RecreateScript) \in Nat \ {0}
        /\ RecreateScript[1] = Destruction("syncObjects")
    BY <1>5, <1>8
  <1> QED BY <1>9 DEF K

-----------------------------------------------------------------------------
(* Types.                                                                  *)

Work == [frame : Frames, image : Images]

\* FramesTypeOK, with lists that are sequences, and an image once one is acquired.
TypeInv ==
    /\ FramesTypeOK
    /\ todo \in Seq(Commands(Objects))
    /\ gpu \in Seq(Work)
    /\ at \in {"imageFence", "record", "submit", "present"} => local.image \in Images

LEMMA NewSyncTyped ==
    NewSync \in [currentFrame : Frames,
                 inFlightFences : [Frames -> BOOLEAN],
                 imageAvailable : [Frames -> BOOLEAN],
                 renderFinished : [Images -> BOOLEAN],
                 imagesInFlight : [Images -> Frames \cup {NullHandle}]]
  BY FramesInFlightAssumption DEF NewSync, Frames

\* Lists of the three kinds are lists of commands.
LEMMA ListsTyped ==
    /\ InitScript \in Seq(Commands(Objects))
    /\ CleanupScript \in Seq(Commands(Objects))
    /\ RecreateScript \in Seq(Commands(Objects))
  <1>1. Creations(Members) \subseteq Commands(Objects)
    BY InitCreates DEF Creations, Commands
  <1>2. Destructions(Members) \subseteq Commands(Objects)
    BY InitCreates DEF Destructions, Commands
  <1>3. Commands(Replaced) \subseteq Commands(Objects)
    <2>1. Replaced \subseteq Members
      BY DEF Replaced, Members
    <2> QED BY <2>1, InitCreates DEF Commands
  <1> QED
    BY <1>1, <1>2, <1>3, InitCreates, CleanupDestroys, RecreateReplaces, SeqMonotonic

\* A list of commands, and of work, has the elements FramesTypeOK speaks of.
LEMMA ListsHold ==
    ASSUME todo \in Seq(Commands(Objects)), gpu \in Seq(Work)
    PROVE  /\ \A n \in DOMAIN todo :
                todo[n] \in [call : {"create", "destroy"}, object : Objects]
           /\ \A n \in DOMAIN gpu : gpu[n] \in [frame : Frames, image : Images]
  <1>1. DOMAIN todo = 1..Len(todo) /\ DOMAIN gpu = 1..Len(gpu)
    OBVIOUS
  <1>2. \A n \in DOMAIN todo : todo[n] \in Commands(Objects)
    BY <1>1, ElementOfSeq
  <1>3. \A n \in DOMAIN gpu : gpu[n] \in Work
    BY <1>1, ElementOfSeq
  <1> QED BY <1>2, <1>3 DEF Commands, Work

\* The variables but for the two lists have their types.
Scalars ==
    /\ at \in {"script", "poll", "fence", "upload", "acquire", "imageFence", "record",
               "submit", "present", "nextFrame", "loopEnd", "extent", "waitEvents", "idle",
               "cleanup", "ended"}
    /\ resume \in {"poll", "nextFrame", "loopEnd", "ended"}
    /\ live \subseteq Objects
    /\ local \in [image : Images \cup {NullHandle}, seen : WindowSizes, thrown : BOOLEAN]
    /\ sync \in [currentFrame : Frames,
                 inFlightFences : [Frames -> BOOLEAN],
                 imageAvailable : [Frames -> BOOLEAN],
                 renderFinished : [Images -> BOOLEAN],
                 imagesInFlight : [Images -> Frames \cup {NullHandle}]]
    /\ images \in [Images -> {"free", "acquired", "queued", "shown"}]
    /\ window \in [size : WindowSizes, resized : BOOLEAN, shouldClose : BOOLEAN]
    /\ extent \in WindowSizes /\ viewport \in WindowSizes
    /\ at \in {"imageFence", "record", "submit", "present"} => local.image \in Images

Lists == todo \in Seq(Commands(Objects)) /\ gpu \in Seq(Work)

LEMMA TypeInvIs == TypeInv <=> Scalars /\ Lists
  <1>1. TypeInv => Scalars /\ Lists
    BY DEF TypeInv, FramesTypeOK, Scalars, Lists
  <1>2. Scalars /\ Lists => TypeInv
    BY ListsHold DEF TypeInv, FramesTypeOK, Scalars, Lists
  <1> QED BY <1>1, <1>2

LEMMA TypeStarts == FramesInit => TypeInv
  <1> SUFFICES ASSUME FramesInit PROVE Scalars /\ Lists
    BY TypeInvIs
  <1>1. Lists
    BY ListsTyped DEF FramesInit, Lists
  <1>2. Scalars
    BY NewSyncTyped DEF FramesInit, Scalars, WindowSizes, FreeImages
  <1> QED BY <1>1, <1>2

\* No step writes a value outside a variable's range.
LEMMA TypeKeeps == TypeInv /\ [FramesNext]_frameVars => TypeInv'
  <1> SUFFICES ASSUME Scalars, Lists, [FramesNext]_frameVars
               PROVE  Scalars' /\ Lists'
    <2>1. TypeInv' <=> Scalars' /\ Lists'
      BY ListsHold, TypeInvIs, PTL
    <2> QED BY <2>1, TypeInvIs
  <1>1. CASE Perform
    <2> DEFINE object == Head(todo).object
    <2>1. Head(todo) \in Commands(Objects) /\ Tail(todo) \in Seq(Commands(Objects))
      BY <1>1, HeadTailProperties DEF Perform, Lists
    <2>2. object \in Objects
      BY <2>1 DEF Commands
    <2>3. Lists'
      BY <1>1, <2>1 DEF Perform, Lists
    <2>4. live' \subseteq Objects /\ extent' \in WindowSizes /\ viewport' \in WindowSizes
      BY <1>1, <2>2 DEF Perform, Scalars, WindowSizes
    <2>5. images' \in [Images -> {"free", "acquired", "queued", "shown"}]
      BY <1>1 DEF Perform, Scalars, FreeImages
    <2>6. sync' \in {NewSync, sync}
      BY <1>1 DEF Perform
    <2> QED BY <1>1, <2>3, <2>4, <2>5, <2>6, NewSyncTyped DEF Perform, Scalars
  <1>2. CASE PerformFails
    <2>1. Head(todo) \in Commands(Objects)
      BY <1>2, HeadTailProperties DEF PerformFails, Lists
    <2>2. Head(todo).object \in Objects
      BY <2>1 DEF Commands
    <2>3. LostBy(Head(todo).object) \subseteq Objects
      BY DEF LostBy, Objects, Lost
    <2>4. live' \subseteq Objects
      BY <1>2, <2>2, <2>3 DEF PerformFails, Scalars
    <2>5. <<>> \in Seq(Commands(Objects))
      OBVIOUS
    <2> QED BY <1>2, <2>4, <2>5 DEF PerformFails, Throw, Scalars, Lists
  <1>3. CASE ScriptEnds
    BY <1>3 DEF ScriptEnds, Scalars, Lists
  <1>4. ASSUME NEW size \in WindowSizes, NEW close \in BOOLEAN,
               PollEvents(size, close) \/ WaitEvents(size, close)
        PROVE  Scalars' /\ Lists'
    <2>1. window' \in [size : WindowSizes, resized : BOOLEAN, shouldClose : BOOLEAN]
      <3> DEFINE resized == window.resized \/ size # window.size
                 shouldClose == window.shouldClose \/ close
      <3>1. resized \in BOOLEAN /\ shouldClose \in BOOLEAN
        BY Zenon
      <3>2. window' = [size |-> size, resized |-> resized, shouldClose |-> shouldClose]
        BY <1>4, Zenon DEF PollEvents, WaitEvents, Events
      <3> HIDE DEF resized, shouldClose
      <3> QED BY <3>1, <3>2
    <2>2. /\ at' \in {"fence", "extent"}
          /\ UNCHANGED <<todo, resume, live, local, sync, gpu, images, extent, viewport>>
      BY <1>4 DEF PollEvents, WaitEvents
    <2> QED BY <2>1, <2>2 DEF Scalars, Lists
  <1>5. CASE LeaveLoop \/ WaitForFence \/ LoopEnd
    BY <1>5 DEF LeaveLoop, WaitForFence, LoopEnd, Scalars, Lists
  <1>6. CASE UploadLines \/ RecordCommandBuffer
    BY <1>6 DEF UploadLines, RecordCommandBuffer, Throw, Scalars, Lists
  <1>7. CASE Acquire
    <2>1. CASE at' = "imageFence"
      <3>1. PICK i \in Images :
              /\ images' = [images EXCEPT ![i] = "acquired"]
              /\ sync' = [sync EXCEPT !.imageAvailable[sync.currentFrame] = TRUE]
              /\ local' = [local EXCEPT !.image = i]
              /\ UNCHANGED resume
        BY <1>7, <2>1 DEF Acquire, Recreate, Throw
      <3>2. UNCHANGED <<todo, live, gpu, window, extent, viewport>>
        BY <1>7 DEF Acquire
      <3> QED BY <2>1, <3>1, <3>2 DEF Scalars, Lists
    <2>2. CASE at' # "imageFence"
      BY <1>7, <2>2 DEF Acquire, Recreate, Throw, Scalars, Lists
    <2> QED BY <2>1, <2>2
  <1>8. CASE WaitForImage
    BY <1>8 DEF WaitForImage, Scalars, Lists
  <1>9. CASE Submit
    <2>1. [frame |-> sync.currentFrame, image |-> local.image] \in Work
      BY <1>9 DEF Submit, Scalars, Work
    <2>2. Append(gpu, [frame |-> sync.currentFrame, image |-> local.image]) \in Seq(Work)
      BY <2>1, AppendProperties DEF Lists
    <2> QED BY <1>9, <2>2 DEF Submit, Throw, Scalars, Lists
  <1>10. CASE Present
    BY <1>10 DEF Present, Recreate, Throw, Scalars, Lists
  <1>11. CASE NextFrame
    <2>1. (sync.currentFrame + 1) % FramesInFlight \in Frames
      BY FramesInFlightAssumption DEF Scalars, Frames
    <2> QED BY <1>11, <2>1 DEF NextFrame, Scalars, Lists
  <1>12. CASE CheckExtent
    BY <1>12 DEF CheckExtent, Scalars, Lists
  <1>13. CASE WaitIdle \/ Cleanup
    BY <1>13, ListsTyped DEF WaitIdle, Cleanup, Scalars, Lists
  <1>14. CASE GpuFinishes
    <2>1. Head(gpu) \in Work /\ Tail(gpu) \in Seq(Work)
      BY <1>14, HeadTailProperties DEF GpuFinishes, Lists
    <2>2. Head(gpu).frame \in Frames /\ Head(gpu).image \in Images
      BY <2>1 DEF Work
    <2> QED BY <1>14, <2>1, <2>2 DEF GpuFinishes, Scalars, Lists
  <1>15. ASSUME NEW i \in Images, EngineShows(i)
         PROVE  Scalars' /\ Lists'
    BY <1>15 DEF EngineShows, Scalars, Lists
  <1>16. CASE UNCHANGED frameVars
    BY <1>16 DEF frameVars, Scalars, Lists
  <1> QED
    BY <1>1, <1>2, <1>3, <1>4, <1>5, <1>6, <1>7, <1>8, <1>9, <1>10, <1>11, <1>12, <1>13,
       <1>14, <1>15, <1>16 DEF FramesNext, ThreadStep, EventComes, Ended

\* FramesTypeOK for every number of images, frames in flight and window sizes, whatever
\* fails: in particular the index of the frame stays one that has a fence (drawFrame).
THEOREM FramesTypeCorrect == FramesSpec => []FramesTypeOK
  <1>1. TypeInv => FramesTypeOK
    BY DEF TypeInv
  <1> QED BY <1>1, TypeStarts, TypeKeeps, PTL DEF FramesSpec

-----------------------------------------------------------------------------
(* With one frame in flight, work is left alone while the GPU is at it.    *)

\* The GPU has at most the one frame's work, and only after its submission, up to the
\* wait for its fence; then there is a device to wait for.
GpuPart ==
    gpu # <<>> =>
        /\ at \in {"present", "nextFrame", "loopEnd", "poll", "fence", "extent",
                   "waitEvents", "idle", "cleanup"}
        /\ Len(gpu) = 1
        /\ ~sync.inFlightFences[0]
        /\ "device" \in live

\* The fence tells whether the semaphore of the acquisition has been taken.
FencePart ==
    /\ at \in {"record", "submit"} => ~sync.inFlightFences[0]
    /\ at \in {"upload", "acquire"} => sync.inFlightFences[0]
    /\ sync.inFlightFences[0] /\ sync.imageAvailable[0] => at = "imageFence"

\* An image that can be acquired, and the one that is, has no work and no signal left.
ImagePart ==
    /\ \A i \in Images : images[i] \in {"free", "shown"} =>
                            ~Working(i) /\ ~sync.renderFinished[i]
    /\ at \in {"imageFence", "record", "submit"} =>
         images[local.image] = "acquired" /\ ~sync.renderFinished[local.image]
    /\ \A i \in Images : Working(i) => ~sync.renderFinished[i]

\* What is left of the three lists, and that there is a device outside of them.
ListPart ==
    /\ at \in {"extent", "waitEvents", "idle"} => resume \in {"nextFrame", "loopEnd"}
    /\ resume = "ended" => at \in {"script", "ended"}
    /\ at \notin {"script", "cleanup", "ended"} => "device" \in live
    /\ at = "script" /\ resume = "poll" =>
         /\ todo \in Seq(Creations(Members))
         /\ "device" \in live \/ \E n \in 1..Len(todo) : todo[n] = Creation("device")
         /\ sync = NewSync
    /\ at = "script" /\ resume \in {"nextFrame", "loopEnd"} =>
         /\ todo \in Seq(Commands(Replaced))
         /\ "device" \in live
         /\ \/ sync = NewSync
            \/ todo # <<>> /\ Head(todo) = Destruction("syncObjects")
    /\ at = "script" /\ resume = "ended" => todo \in Seq(Destructions(Members))

WorkInv == GpuPart /\ FencePart /\ ImagePart /\ ListPart

LEMMA WorkStarts == ASSUME FramesInFlight = 1 PROVE FramesInit => WorkInv
  <1> SUFFICES ASSUME FramesInit PROVE WorkInv
    OBVIOUS
  <1>1. Frames = {0}
    BY DEF Frames
  <1>2. GpuPart /\ FencePart /\ ImagePart
    BY <1>1 DEF FramesInit, GpuPart, FencePart, ImagePart, NewSync, Working
  <1>3. ListPart
    BY InitCreates DEF FramesInit, ListPart
  <1> QED BY <1>2, <1>3 DEF WorkInv

\* What the invariant is for.
LEMMA WorkInvUndisturbed ==
    ASSUME FramesInFlight = 1, Scalars, WorkInv
    PROVE  WorkIsUndisturbed
  <1>1. sync.currentFrame = 0
    BY DEF Scalars, Frames
  <1>2. gpu = <<>> => \A i : ~Working(i)
    BY DEF Working
  <1>3. at \in {"script", "upload", "acquire", "record"} => gpu = <<>>
    BY DEF WorkInv, GpuPart
  <1>4. at = "acquire" => ~sync.imageAvailable[0]
    BY DEF WorkInv, FencePart
  <1>5. at = "record" => ~sync.inFlightFences[0]
    BY DEF WorkInv, FencePart
  <1>6. \A i \in Images : Working(i) => ~sync.renderFinished[i]
    BY DEF WorkInv, ImagePart
  <1> QED BY <1>1, <1>2, <1>3, <1>4, <1>5, <1>6 DEF WorkIsUndisturbed

\* One call of a list: nothing is submitted meanwhile, the device stays unless the
\* viewer is ending, and new images come with new semaphores.
LEMMA PerformWork ==
    ASSUME FramesInFlight = 1, Scalars, Lists, WorkInv, Perform
    PROVE  WorkInv'
  <1> DEFINE call == Head(todo)
  <1>1. at = "script" /\ todo # <<>> /\ gpu = <<>>
    BY DEF Perform, WorkInv, GpuPart
  <1>2. UNCHANGED <<at, resume, local, gpu, window>> /\ todo' = Tail(todo)
    BY DEF Perform
  <1>3. sync' = sync \/ sync' = NewSync
    BY DEF Perform
  <1>4. \A i : ~Working(i)'
    BY <1>1, <1>2 DEF Working
  <1>5. GpuPart'
    BY <1>1, <1>2 DEF GpuPart
  <1>6. FencePart'
    BY <1>1, <1>2, <1>3 DEF WorkInv, FencePart, NewSync, Frames
  <1>7. ListPart'
    <2>1. CASE resume = "poll"
      <3>1. call \in Creations(Members) /\ Tail(todo) \in Seq(Creations(Members))
        BY <1>1, <2>1, HeadTailProperties DEF WorkInv, ListPart
      <3>2. live' = live \cup {call.object}
        BY <3>1 DEF Perform, Creations
      <3>3. "device" \in live'
              \/ \E n \in 1..Len(Tail(todo)) : Tail(todo)[n] = Creation("device")
        <4>1. CASE "device" \in live
          BY <3>2, <4>1
        <4>2. ASSUME NEW n \in 1..Len(todo), todo[n] = Creation("device")
              PROVE  "device" \in live'
                       \/ \E m \in 1..Len(Tail(todo)) : Tail(todo)[m] = Creation("device")
          <5>1. CASE n = 1
            <6>1. call = Creation("device")
              BY <4>2, <5>1, <1>1 DEF Lists
            <6> QED BY <3>2, <6>1 DEF Creation
          <5>2. CASE n # 1
            <6>1. n - 1 \in 1..Len(Tail(todo)) /\ Tail(todo)[n - 1] = todo[n]
              BY <5>2, <1>1, HeadTailProperties DEF Lists
            <6> QED BY <4>2, <6>1
          <5> QED BY <5>1, <5>2
        <4> QED BY <4>1, <4>2, <1>1, <2>1 DEF WorkInv, ListPart
      <3>4. sync' = NewSync
        BY <1>1, <1>3, <2>1 DEF WorkInv, ListPart
      <3> QED BY <1>1, <1>2, <2>1, <3>1, <3>3, <3>4 DEF ListPart
    <2>2. CASE resume \in {"nextFrame", "loopEnd"}
      <3>1. call \in Commands(Replaced) /\ Tail(todo) \in Seq(Commands(Replaced))
        BY <1>1, <2>2, HeadTailProperties DEF WorkInv, ListPart
      <3>2. call.object # "device"
        BY <3>1 DEF Commands, Replaced
      <3>3. "device" \in live'
        BY <1>1, <2>2, <3>2 DEF WorkInv, ListPart, Perform
      <3>4. sync' = NewSync
        <4>1. CASE sync = NewSync
          BY <1>3, <4>1
        <4>2. CASE call = Destruction("syncObjects")
          BY <4>2 DEF Perform, Destruction
        <4> QED BY <4>1, <4>2, <1>1, <2>2 DEF WorkInv, ListPart
      <3> QED BY <1>1, <1>2, <2>2, <3>1, <3>3, <3>4 DEF ListPart
    <2>3. CASE resume = "ended"
      <3>1. Tail(todo) \in Seq(Destructions(Members))
        BY <1>1, <2>3, HeadTailProperties DEF WorkInv, ListPart
      <3> QED BY <1>1, <1>2, <2>3, <3>1 DEF ListPart
    <2> QED BY <2>1, <2>2, <2>3 DEF Scalars
  <1>8. ImagePart'
    <2>1. CASE images' = images
      BY <1>1, <1>2, <1>3, <1>4, <2>1 DEF WorkInv, ImagePart, NewSync, Scalars
    <2>2. CASE images' # images
      <3>1. call.call = "create" /\ call.object = "swapChain" /\ images' = FreeImages
        BY <2>2 DEF Perform
      <3>2. resume # "ended"
        <4>1. resume = "ended" => call \in Destructions(Members)
          BY <1>1, HeadTailProperties DEF WorkInv, ListPart
        <4> QED BY <3>1, <4>1 DEF Destructions
      <3>3. sync = NewSync
        BY <1>1, <3>1, <3>2 DEF WorkInv, ListPart, Destruction, Scalars
      <3>4. sync' = NewSync
        BY <1>3, <3>3
      <3> QED BY <1>1, <1>2, <1>4, <3>1, <3>4 DEF ImagePart, NewSync, Scalars
    <2> QED BY <2>1, <2>2
  <1> QED BY <1>5, <1>6, <1>7, <1>8 DEF WorkInv

\* A call that fails leads to cleanup, which knows whether there is a device.
LEMMA PerformFailsWork ==
    ASSUME FramesInFlight = 1, Scalars, Lists, WorkInv, PerformFails
    PROVE  WorkInv'
  <1>1. at = "script" /\ todo # <<>> /\ gpu = <<>> /\ Head(todo).call = "create"
    BY DEF PerformFails, WorkInv, GpuPart
  <1>2. /\ UNCHANGED <<resume, sync, gpu, images, window, extent, viewport>>
        /\ at' = "cleanup" /\ local'.image = local.image
    BY DEF PerformFails, Throw, Scalars
  <1>3. resume # "ended"
    <2>1. resume = "ended" => Head(todo) \in Destructions(Members)
      BY <1>1, HeadTailProperties DEF WorkInv, ListPart
    <2> QED BY <1>1, <2>1 DEF Destructions
  <1> QED BY <1>1, <1>2, <1>3
          DEF WorkInv, GpuPart, FencePart, ImagePart, ListPart, Working

\* The GPU finishes: the fence and the image's semaphore are signalled, which nobody is
\* about to use, and the semaphore of the acquisition is taken.
LEMMA GpuFinishesWork ==
    ASSUME FramesInFlight = 1, Scalars, Lists, WorkInv, GpuFinishes
    PROVE  WorkInv'
  <1> DEFINE work == Head(gpu)
  <1>1. gpu # <<>> /\ Len(gpu) = 1 /\ work \in Work /\ gpu' = <<>>
    <2>1. gpu # <<>> /\ Len(gpu) = 1
      BY DEF GpuFinishes, WorkInv, GpuPart
    <2>2. work \in Work /\ Tail(gpu) \in Seq(Work) /\ Len(Tail(gpu)) = 0
      BY <2>1, HeadTailProperties DEF Lists
    <2> QED BY <2>1, <2>2 DEF GpuFinishes
  <1>2. work.frame = 0 /\ work.image \in Images
    BY <1>1 DEF Work, Frames
  <1>3. /\ UNCHANGED <<at, todo, resume, live, local, images, window, extent, viewport>>
        /\ sync' = [sync EXCEPT !.imageAvailable[0] = FALSE,
                                !.renderFinished[work.image] = TRUE,
                                !.inFlightFences[0] = TRUE]
    BY <1>2 DEF GpuFinishes
  <1>4. /\ ~sync'.imageAvailable[0] /\ sync'.inFlightFences[0]
        /\ \A i \in Images : sync'.renderFinished[i] =>
                                i = work.image \/ sync.renderFinished[i]
    BY <1>2, <1>3 DEF Scalars, Frames
  <1>5. /\ Working(work.image)
        /\ \A i : ~Working(i)'
    <2>1. 1 \in DOMAIN gpu /\ gpu[1] = work
      BY <1>1 DEF Lists
    <2> QED BY <1>1, <2>1 DEF Working
  <1>6. at \in {"present", "nextFrame", "loopEnd", "poll", "fence", "extent",
                "waitEvents", "idle", "cleanup"}
    BY <1>1 DEF WorkInv, GpuPart
  <1>7. GpuPart' /\ FencePart'
    BY <1>1, <1>3, <1>4, <1>6 DEF WorkInv, GpuPart, FencePart
  <1>8. ImagePart'
    BY <1>2, <1>3, <1>4, <1>5, <1>6 DEF WorkInv, ImagePart
  <1>9. ListPart'
    BY <1>3, <1>6 DEF WorkInv, ListPart
  <1> QED BY <1>7, <1>8, <1>9 DEF WorkInv

\* The engine shows a queued image and frees the one it showed before.
LEMMA EngineShowsWork ==
    ASSUME FramesInFlight = 1, Scalars, Lists, WorkInv,
           NEW i \in Images, EngineShows(i)
    PROVE  WorkInv'
  <1>1. UNCHANGED <<at, todo, resume, live, local, gpu, window, extent, viewport>>
    BY DEF EngineShows
  <1>2. /\ sync.renderFinished[i]
        /\ sync' = [sync EXCEPT !.renderFinished[i] = FALSE]
    BY DEF EngineShows
  <1>3. sync # NewSync
    BY <1>2 DEF NewSync
  <1>4. /\ sync'.inFlightFences = sync.inFlightFences
        /\ sync'.imageAvailable = sync.imageAvailable
        /\ \A j \in Images :
             sync'.renderFinished[j] = IF j = i THEN FALSE ELSE sync.renderFinished[j]
    BY <1>2 DEF Scalars
  <1>5. \A j \in Images :
           /\ images'[j] \in {"free", "shown"} => j = i \/ images[j] = "shown"
                                                       \/ images[j] = "free"
           /\ images[j] = "acquired" => j # i /\ images'[j] = "acquired"
    BY DEF EngineShows, Scalars
  <1>6. GpuPart' /\ FencePart'
    BY <1>1, <1>4 DEF WorkInv, GpuPart, FencePart
  <1>7. ImagePart'
    <2>1. \A j : Working(j)' <=> Working(j)
      BY <1>1 DEF Working
    <2> QED BY <1>1, <1>2, <1>4, <1>5, <2>1 DEF WorkInv, ImagePart, Scalars
  <1>8. ListPart'
    BY <1>1, <1>3 DEF WorkInv, ListPart
  <1> QED BY <1>6, <1>7, <1>8 DEF WorkInv

\* Submitting what was recorded for the acquired image.
LEMMA SubmitWork ==
    ASSUME FramesInFlight = 1, Scalars, Lists, WorkInv, Submit
    PROVE  WorkInv'
  <1>1. /\ at = "submit" /\ gpu = <<>> /\ ~sync.inFlightFences[0] /\ "device" \in live
        /\ resume # "ended"
    BY DEF Submit, WorkInv, GpuPart, FencePart, ListPart
  <1>2. /\ UNCHANGED <<todo, resume, live, sync, images, window, extent, viewport>>
        /\ at' \in {"present", "cleanup"} /\ local'.image = local.image
    BY DEF Submit, Throw, Scalars
  <1>3. /\ gpu' = gpu \/ gpu' = <<[frame |-> sync.currentFrame, image |-> local.image]>>
    BY <1>1 DEF Submit
  <1>4. GpuPart'
    BY <1>1, <1>2, <1>3 DEF GpuPart
  <1>5. FencePart'
    BY <1>1, <1>2 DEF WorkInv, FencePart
  <1>6. ImagePart'
    <2>1. \A i : Working(i)' => i = local.image
      BY <1>1, <1>3 DEF Working
    <2>2. images[local.image] = "acquired" /\ ~sync.renderFinished[local.image]
      BY <1>1 DEF WorkInv, ImagePart
    <2> QED BY <1>2, <2>1, <2>2 DEF WorkInv, ImagePart
  <1>7. ListPart'
    BY <1>1, <1>2 DEF WorkInv, ListPart
  <1> QED BY <1>4, <1>5, <1>6, <1>7 DEF WorkInv

\* The steps of a frame that leave the GPU's work alone.
LEMMA FrameStepWork ==
    ASSUME FramesInFlight = 1, Scalars, Lists, WorkInv,
           \/ WaitForFence \/ UploadLines \/ Acquire \/ WaitForImage
           \/ RecordCommandBuffer \/ Present \/ NextFrame
    PROVE  WorkInv'
  <1> USE DEF WorkInv, GpuPart, FencePart, ImagePart, ListPart
  <1>1. gpu' = gpu /\ \A i : Working(i)' <=> Working(i)
    BY DEF WaitForFence, UploadLines, Acquire, WaitForImage, RecordCommandBuffer, Present,
           NextFrame, Working
  <1>2. sync.currentFrame = 0 /\ Frames = {0}
    BY DEF Scalars, Frames
  <1>3. gpu = <<>> => \A i : ~Working(i)
    BY DEF Working
  <1>4. CASE WaitForFence
    BY <1>1, <1>2, <1>4 DEF WaitForFence
  <1>5. CASE UploadLines
    BY <1>1, <1>5 DEF UploadLines, Throw, Scalars
  <1>6. CASE Acquire
    <2>1. /\ gpu = <<>> /\ "device" \in live /\ resume # "ended"
          /\ UNCHANGED <<todo, live, gpu>>
      BY <1>6 DEF Acquire
    <2>2. CASE at' = "imageFence"
      <3>1. PICK i \in Images :
              /\ images[i] = "free"
              /\ images' = [images EXCEPT ![i] = "acquired"]
              /\ sync' = [sync EXCEPT !.imageAvailable[sync.currentFrame] = TRUE]
              /\ local' = [local EXCEPT !.image = i]
              /\ UNCHANGED resume
        BY <1>6, <2>2 DEF Acquire, Recreate, Throw
      <3>2. /\ local'.image = i
            /\ sync'.inFlightFences = sync.inFlightFences
            /\ sync'.renderFinished = sync.renderFinished
        BY <3>1 DEF Scalars
      <3> QED BY <1>1, <1>3, <2>1, <2>2, <3>1, <3>2 DEF Scalars
    <2>3. CASE at' # "imageFence"
      <3>1. /\ UNCHANGED <<images, sync>>
            /\ \/ at' = "extent" /\ resume' = "loopEnd"
               \/ at' = "cleanup" /\ resume' = resume
        BY <1>6, <2>3 DEF Acquire, Recreate, Throw
      <3>2. ~sync.imageAvailable[0]
        BY <1>6 DEF Acquire
      <3> QED BY <1>1, <1>3, <2>1, <3>1, <3>2
    <2> QED BY <2>2, <2>3
  <1>7. CASE WaitForImage
    <2>1. /\ at = "imageFence" /\ at' = "record"
          /\ UNCHANGED <<todo, resume, live, local, gpu, images>>
      BY <1>7 DEF WaitForImage
    <2>2. /\ ~sync'.inFlightFences[0]
          /\ sync'.renderFinished = sync.renderFinished
      BY <1>2, <1>7 DEF WaitForImage, Scalars
    <2> QED BY <1>1, <2>1, <2>2
  <1>8. CASE RecordCommandBuffer
    BY <1>1, <1>8 DEF RecordCommandBuffer, Throw, Scalars
  <1>9. CASE Present
    <2>1. /\ at = "present" /\ UNCHANGED <<todo, live, sync, gpu>>
          /\ images' = [images EXCEPT ![local.image] = "queued"]
          /\ resume # "ended" /\ "device" \in live
          /\ \/ at' \in {"nextFrame", "cleanup"} /\ resume' = resume
             \/ at' = "extent" /\ resume' = "nextFrame"
      BY <1>9 DEF Present, Recreate, Throw
    <2>2. \A i \in Images : images'[i] \in {"free", "shown"} => images'[i] = images[i]
      BY <2>1 DEF Scalars
    <2> QED BY <1>1, <2>1, <2>2
  <1>10. CASE NextFrame
    <2>1. /\ at = "nextFrame" /\ at' = "loopEnd"
          /\ UNCHANGED <<todo, resume, live, local, gpu, images>>
          /\ sync'.inFlightFences = sync.inFlightFences
          /\ sync'.imageAvailable = sync.imageAvailable
          /\ sync'.renderFinished = sync.renderFinished
      BY <1>10 DEF NextFrame, Scalars
    <2> QED BY <1>1, <2>1
  <1> QED BY <1>4, <1>5, <1>6, <1>7, <1>8, <1>9, <1>10

\* The steps of the loop, of recreateSwapChain and of cleanup.
LEMMA LoopStepWork ==
    ASSUME FramesInFlight = 1, Scalars, Lists, WorkInv,
           \/ ScriptEnds \/ LeaveLoop \/ LoopEnd \/ CheckExtent \/ WaitIdle \/ Cleanup
           \/ \E size \in WindowSizes, close \in BOOLEAN :
                PollEvents(size, close) \/ WaitEvents(size, close)
    PROVE  WorkInv'
  <1> USE DEF WorkInv, GpuPart, FencePart, ImagePart, ListPart
  <1>1. gpu' = gpu /\ sync' = sync /\ images' = images /\ live' = live
        /\ local'.image = local.image
    BY DEF ScriptEnds, LeaveLoop, LoopEnd, CheckExtent, WaitIdle, Cleanup, PollEvents,
           WaitEvents, Scalars
  <1>2. \A i : Working(i)' <=> Working(i)
    BY <1>1 DEF Working
  <1>3. CASE ScriptEnds
    <2>1. /\ at = "script" /\ todo = <<>> /\ at' = resume
          /\ UNCHANGED <<todo, resume>>
      BY <1>3 DEF ScriptEnds
    <2>2. resume # "ended" => "device" \in live
      <3>1. Len(todo) = 0
        BY <2>1
      <3> QED BY <2>1, <3>1 DEF Scalars
    <2> QED BY <1>1, <1>2, <2>1, <2>2 DEF Scalars
  <1>4. CASE LeaveLoop \/ LoopEnd
    BY <1>1, <1>2, <1>4 DEF LeaveLoop, LoopEnd
  <1>5. CASE CheckExtent
    BY <1>1, <1>2, <1>5 DEF CheckExtent
  <1>6. CASE WaitIdle
    <2>1. /\ at = "idle" /\ gpu = <<>> /\ at' = "script" /\ todo' = RecreateScript
          /\ resume' = resume /\ resume \in {"nextFrame", "loopEnd"} /\ "device" \in live
      BY <1>6 DEF WaitIdle
    <2> QED BY <1>1, <1>2, <2>1, RecreateReplaces
  <1>7. CASE Cleanup
    <2>1. /\ at = "cleanup" /\ gpu = <<>> /\ at' = "script" /\ todo' = CleanupScript
          /\ resume' = "ended"
      BY <1>7 DEF Cleanup
    <2> QED BY <1>1, <1>2, <2>1, CleanupDestroys
  <1>8. ASSUME NEW size \in WindowSizes, NEW close \in BOOLEAN,
               PollEvents(size, close) \/ WaitEvents(size, close)
        PROVE  WorkInv'
    BY <1>1, <1>2, <1>8 DEF PollEvents, WaitEvents
  <1> QED BY <1>3, <1>4, <1>5, <1>6, <1>7, <1>8

LEMMA WorkKeeps ==
    ASSUME FramesInFlight = 1
    PROVE  TypeInv /\ WorkInv /\ [FramesNext]_frameVars => WorkInv'
  <1> SUFFICES ASSUME Scalars, Lists, WorkInv, [FramesNext]_frameVars
               PROVE  WorkInv'
    BY TypeInvIs
  <1>1. CASE UNCHANGED frameVars
    BY <1>1 DEF frameVars, WorkInv, GpuPart, FencePart, ImagePart, ListPart, Working
  <1> QED
    BY <1>1, PerformWork, PerformFailsWork, GpuFinishesWork, EngineShowsWork, SubmitWork,
       FrameStepWork, LoopStepWork DEF FramesNext, ThreadStep, EventComes, Ended

\* With the one frame in flight of the code, on any number of images and whatever
\* fails, nothing the GPU's work uses is written, signalled or destroyed while it runs
\* (drawFrame's waits for the frame's and the image's fence, vkDeviceWaitIdle).
THEOREM WorkNeverDisturbed ==
    ASSUME FramesInFlight = 1
    PROVE  FramesSpec => []WorkIsUndisturbed
  <1>1. FramesInit => TypeInv /\ WorkInv
    BY TypeStarts, WorkStarts
  <1>2. TypeInv /\ WorkInv /\ [FramesNext]_frameVars => TypeInv' /\ WorkInv'
    BY TypeKeeps, WorkKeeps
  <1>3. TypeInv /\ WorkInv => WorkIsUndisturbed
    BY TypeInvIs, WorkInvUndisturbed
  <1> QED BY <1>1, <1>2, <1>3, PTL DEF FramesSpec

-----------------------------------------------------------------------------
(* Every object within the lifetime of those it is made from.              *)

\* The place of a member in initVulkan and in cleanup.
InitAt(o) ==
    CASE o = "window" -> 1 [] o = "instance" -> 2 [] o = "debugMessenger" -> 3
      [] o = "surface" -> 4 [] o = "device" -> 5 [] o = "swapChain" -> 6
      [] o = "imageViews" -> 7 [] o = "renderPass" -> 8 [] o = "depthImage" -> 9
      [] o = "pipelines" -> 10 [] o = "framebuffers" -> 11 [] o = "commandPool" -> 12
      [] o = "vertexBuffers" -> 13 [] o = "commandBuffers" -> 14 [] OTHER -> 15

CleanupAt(o) ==
    CASE o = "depthImage" -> 1 [] o = "framebuffers" -> 2 [] o = "imageViews" -> 3
      [] o = "swapChain" -> 4 [] o = "vertexBuffers" -> 5 [] o = "pipelines" -> 6
      [] o = "renderPass" -> 7 [] o = "syncObjects" -> 8 [] o = "commandBuffers" -> 9
      [] o = "commandPool" -> 10 [] o = "device" -> 11 [] o = "surface" -> 12
      [] o = "debugMessenger" -> 13 [] o = "instance" -> 14 [] OTHER -> 15

\* The calls of recreateSwapChain that destroy and create a member.
GoneAt(o) ==
    CASE o = "syncObjects" -> 1 [] o = "depthImage" -> 2 [] o = "framebuffers" -> 3
      [] o = "imageViews" -> 4 [] o = "swapChain" -> 5 [] o = "commandBuffers" -> 10
      [] OTHER -> 13

BackAt(o) ==
    CASE o = "swapChain" -> 6 [] o = "imageViews" -> 7 [] o = "depthImage" -> 8
      [] o = "framebuffers" -> 9 [] o = "commandBuffers" -> 11 [] OTHER -> 12

\* initVulkan and cleanup name each member once, at its place.
LEMMA InitPlaces ==
    /\ Len(InitScript) = 15
    /\ \A n \in 1..15 : /\ InitScript[n].call = "create"
                        /\ InitScript[n].object \in Members
                        /\ InitAt(InitScript[n].object) = n
    /\ \A o \in Members : InitAt(o) \in 1..15 /\ InitScript[InitAt(o)].object = o
  <1> DEFINE objects ==
          <<"window", "instance", "debugMessenger", "surface", "device", "swapChain",
            "imageViews", "renderPass", "depthImage", "pipelines", "framebuffers",
            "commandPool", "vertexBuffers", "commandBuffers", "syncObjects">>
  <1>1. objects \in Seq(Members) /\ DOMAIN objects = 1..15
    BY DEF Members
  <1>2. InitScript = Calls(Creation, objects)
    BY DEF InitScript
  <1>3. InitScript = [n \in 1..15 |-> Creation(objects[n])]
    BY <1>1, <1>2 DEF Calls
  <1>4. \A n \in 1..15 : InitAt(objects[n]) = n
    BY DEF InitAt
  <1>5. \A o \in Members : InitAt(o) \in 1..15 /\ objects[InitAt(o)] = o
    BY DEF InitAt, Members
  <1> HIDE DEF objects
  <1>6. \A n \in 1..15 : objects[n] \in Members
    <2>1. Len(objects) = 15
      BY <1>1
    <2> QED BY <1>1, <2>1, ElementOfSeq
  <1> QED BY <1>3, <1>4, <1>5, <1>6 DEF Creation

LEMMA CleanupPlaces ==
    /\ Len(CleanupScript) = 15
    /\ \A n \in 1..15 : /\ CleanupScript[n].call = "destroy"
                        /\ CleanupScript[n].object \in Members
                        /\ CleanupAt(CleanupScript[n].object) = n
    /\ \A o \in Members : CleanupAt(o) \in 1..15 /\ CleanupScript[CleanupAt(o)].object = o
  <1> DEFINE rest ==
          <<"vertexBuffers", "pipelines", "renderPass", "syncObjects", "commandBuffers",
            "commandPool", "device", "surface", "debugMessenger", "instance", "window">>
             objects == CleanupSwapChain \o rest
  <1>1. rest \in Seq(Members) /\ Len(rest) = 11
    BY DEF Members
  <1>2. CleanupSwapChain \in Seq(Members) /\ Len(CleanupSwapChain) = 4
    BY DEF CleanupSwapChain, Members
  <1>3. /\ objects \in Seq(Members) /\ Len(objects) = 15
        /\ \A n \in 1..4 : objects[n] = CleanupSwapChain[n]
        /\ \A n \in 5..15 : objects[n] = rest[n - 4]
    <2> DEFINE first == CleanupSwapChain
    <2>1. first \in Seq(Members) /\ Len(first) = 4
      BY <1>2
    <2>2. objects = first \o rest
      OBVIOUS
    <2> HIDE DEF rest, first, objects
    <2>3. /\ objects \in Seq(Members)
          /\ Len(objects) = Len(first) + Len(rest)
          /\ \A n \in 1..(Len(first) + Len(rest)) :
               objects[n] = IF n <= Len(first) THEN first[n] ELSE rest[n - Len(first)]
      <3>1. /\ first \o rest \in Seq(Members)
            /\ Len(first \o rest) = Len(first) + Len(rest)
            /\ \A n \in 1..(Len(first) + Len(rest)) :
                 (first \o rest)[n] = IF n <= Len(first) THEN first[n]
                                                         ELSE rest[n - Len(first)]
        BY <1>1, <2>1, ConcatProperties
      <3> QED BY <2>2, <3>1, Zenon
    <2>4. /\ objects \in Seq(Members) /\ Len(objects) = 15
          /\ \A n \in 1..4 : objects[n] = first[n]
          /\ \A n \in 5..15 : objects[n] = rest[n - 4]
      BY <1>1, <2>1, <2>3
    <2> QED BY <2>4 DEF first
  <1>4. \A n \in 1..4 : CleanupAt(CleanupSwapChain[n]) = n
    BY DEF CleanupAt, CleanupSwapChain
  <1>5. \A n \in 5..15 : CleanupAt(rest[n - 4]) = n
    <2>1. \A n \in 1..11 : CleanupAt(rest[n]) = n + 4
      BY DEF CleanupAt
    <2> QED BY <2>1
  <1>6. \A o \in Members :
           /\ CleanupAt(o) \in 1..15
           /\ CleanupAt(o) <= 4 => CleanupSwapChain[CleanupAt(o)] = o
           /\ CleanupAt(o) > 4 => rest[CleanupAt(o) - 4] = o
    BY DEF CleanupAt, CleanupSwapChain, Members
  <1>7. CleanupScript = Calls(Destruction, objects)
    BY DEF CleanupScript
  <1> HIDE DEF rest, objects
  <1>8. \A n \in 1..15 : CleanupAt(objects[n]) = n /\ objects[n] \in Members
    <2>1. \A n \in 1..15 : objects[n] \in Members
      <3>1. \A n \in 1..Len(objects) : objects[n] \in Members
        BY <1>3, ElementOfSeq
      <3> QED BY <1>3, <3>1
    <2> QED BY <1>3, <1>4, <1>5, <2>1
  <1>9. \A o \in Members : objects[CleanupAt(o)] = o
    BY <1>3, <1>6
  <1>10. Len(CleanupScript) = 15 /\ \A n \in 1..15 : CleanupScript[n] = Destruction(objects[n])
    BY <1>3, <1>7, DestroyingIsSeq
  <1> QED BY <1>6, <1>8, <1>9, <1>10 DEF Destruction

\* What a step of recreateSwapChain does, by its place.
LEMMA RecreatePlaces ==
    /\ Len(RecreateScript) = 12
    /\ \A n \in 1..12 :
         LET o == RecreateScript[n].object
         IN  /\ o \in Members
             /\ \/ RecreateScript[n].call = "destroy" /\ GoneAt(o) = n
                \/ RecreateScript[n].call = "create" /\ BackAt(o) = n /\ GoneAt(o) < n
             /\ \A p \in Members : p # o => GoneAt(p) # n /\ (BackAt(p) # n \/ GoneAt(p) = 13)
  <1> DEFINE names == <<"syncObjects">> \o CleanupSwapChain
             made == <<"swapChain", "imageViews", "depthImage", "framebuffers">>
             last == <<"commandBuffers", "syncObjects">>
             A == Calls(Destruction, names)
             B == Calls(Creation, made)
             C == <<Destruction("commandBuffers")>>
             D == Calls(Creation, last)
             K == Commands(Replaced)
  <1>1. /\ names \in Seq(Replaced) /\ Len(names) = 5
        /\ names[1] = "syncObjects" /\ names[2] = "depthImage" /\ names[3] = "framebuffers"
        /\ names[4] = "imageViews" /\ names[5] = "swapChain"
    <2> DEFINE first == <<"syncObjects">>
    <2>1. /\ first \in Seq(Replaced) /\ Len(first) = 1 /\ first[1] = "syncObjects"
          /\ CleanupSwapChain \in Seq(Replaced) /\ Len(CleanupSwapChain) = 4
      BY DEF Replaced, CleanupSwapChain
    <2>2. /\ CleanupSwapChain[1] = "depthImage" /\ CleanupSwapChain[2] = "framebuffers"
          /\ CleanupSwapChain[3] = "imageViews" /\ CleanupSwapChain[4] = "swapChain"
      BY DEF CleanupSwapChain
    <2> HIDE DEF first
    <2>3. /\ first \o CleanupSwapChain \in Seq(Replaced)
          /\ Len(first \o CleanupSwapChain) = Len(first) + Len(CleanupSwapChain)
          /\ \A n \in 1..(Len(first) + Len(CleanupSwapChain)) :
               (first \o CleanupSwapChain)[n] =
                   IF n <= Len(first) THEN first[n] ELSE CleanupSwapChain[n - Len(first)]
      BY <2>1, ConcatProperties
    <2>4. names = first \o CleanupSwapChain
      BY DEF first
    <2> HIDE DEF names
    <2> QED BY <2>1, <2>2, <2>3, <2>4
  <1>2. made \in Seq(Replaced) /\ Len(made) = 4 /\ last \in Seq(Replaced) /\ Len(last) = 2
    BY DEF Replaced
  <1> HIDE DEF names
  <1>3. /\ A \in Seq(Destructions(Replaced)) /\ Len(A) = 5
        /\ \A n \in 1..5 : A[n] = Destruction(names[n])
    BY <1>1, DestroyingIsSeq
  <1>4. B = [n \in 1..4 |-> Creation(made[n])] /\ D = [n \in 1..2 |-> Creation(last[n])]
    <2>1. DOMAIN made = 1..4 /\ DOMAIN last = 1..2
      OBVIOUS
    <2> QED BY <2>1 DEF Calls
  <1>5. /\ B \in Seq(Creations(Replaced)) /\ Len(B) = 4
        /\ D \in Seq(Creations(Replaced)) /\ Len(D) = 2
    <2>1. B \in Seq(Creations(Replaced)) /\ D \in Seq(Creations(Replaced))
      <3> HIDE DEF made, last
      <3> QED BY <1>2, CreatingIsSeq
    <2> HIDE DEF B, D
    <2> QED BY <1>4, <2>1
  <1>6. Destructions(Replaced) \subseteq K /\ Creations(Replaced) \subseteq K
    BY DEF Creations, Destructions, Commands
  <1>7. C \in Seq(K) /\ Len(C) = 1 /\ C[1] = Destruction("commandBuffers")
    BY DEF Destruction, Commands, Replaced
  <1>8. RecreateScript = A \o B \o C \o D
    BY DEF RecreateScript, names
  <1> HIDE DEF A, B, C, D, K
  <1>9. A \in Seq(K) /\ B \in Seq(K) /\ D \in Seq(K)
    BY <1>3, <1>5, <1>6, SeqMonotonic
  <1>10. /\ A \o B \in Seq(K) /\ Len(A \o B) = 9
         /\ \A n \in 1..5 : (A \o B)[n] = A[n]
         /\ \A n \in 6..9 : (A \o B)[n] = B[n - 5]
    <2>1. /\ A \o B \in Seq(K) /\ Len(A \o B) = Len(A) + Len(B)
          /\ \A n \in 1..(Len(A) + Len(B)) :
               (A \o B)[n] = IF n <= Len(A) THEN A[n] ELSE B[n - Len(A)]
      BY <1>9, ConcatProperties
    <2> QED BY <1>3, <1>5, <2>1
  <1> DEFINE X == A \o B
             Y == X \o C
  <1>11. /\ X \in Seq(K) /\ Len(X) = 9
         /\ \A n \in 1..5 : X[n] = A[n]
         /\ \A n \in 6..9 : X[n] = B[n - 5]
    BY <1>10
  <1> HIDE DEF X
  <1>12. Y = X \o C
    OBVIOUS
  <1> HIDE DEF Y
  <1>13. /\ Y \in Seq(K) /\ Len(Y) = Len(X) + Len(C)
         /\ \A n \in 1..(Len(X) + Len(C)) :
              Y[n] = IF n <= Len(X) THEN X[n] ELSE C[n - Len(X)]
    <2>1. /\ X \o C \in Seq(K) /\ Len(X \o C) = Len(X) + Len(C)
          /\ \A n \in 1..(Len(X) + Len(C)) :
               (X \o C)[n] = IF n <= Len(X) THEN X[n] ELSE C[n - Len(X)]
      BY <1>7, <1>11, ConcatProperties
    <2> QED BY <1>12, <2>1, Zenon
  <1>14. /\ Y \in Seq(K) /\ Len(Y) = 10
         /\ \A n \in 1..9 : Y[n] = X[n]
         /\ Y[10] = C[1]
    BY <1>7, <1>11, <1>13
  <1>15. /\ Len(RecreateScript) = 12
         /\ \A n \in 1..10 : RecreateScript[n] = Y[n]
         /\ \A n \in 11..12 : RecreateScript[n] = D[n - 10]
    <2>1. /\ Y \o D \in Seq(K) /\ Len(Y \o D) = Len(Y) + Len(D)
          /\ \A n \in 1..(Len(Y) + Len(D)) :
               (Y \o D)[n] = IF n <= Len(Y) THEN Y[n] ELSE D[n - Len(Y)]
      BY <1>9, <1>14, ConcatProperties
    <2>2. RecreateScript = Y \o D
      BY <1>8 DEF X, Y
    <2> HIDE DEF D
    <2>3. /\ Len(RecreateScript) = Len(Y) + Len(D)
          /\ \A n \in 1..(Len(Y) + Len(D)) :
               RecreateScript[n] = IF n <= Len(Y) THEN Y[n] ELSE D[n - Len(Y)]
      BY <2>1, <2>2, Zenon
    <2>4. Len(Y) = 10 /\ Len(D) = 2
      BY <1>5, <1>14
    <2> QED BY <2>3, <2>4
  <1>16. /\ \A n \in 1..5 : RecreateScript[n] = A[n]
         /\ \A n \in 6..9 : RecreateScript[n] = B[n - 5]
         /\ RecreateScript[10] = C[1]
    BY <1>11, <1>14, <1>15
  <1>17. /\ RecreateScript[1] = Destruction("syncObjects")
         /\ RecreateScript[2] = Destruction("depthImage")
         /\ RecreateScript[3] = Destruction("framebuffers")
         /\ RecreateScript[4] = Destruction("imageViews")
         /\ RecreateScript[5] = Destruction("swapChain")
    BY <1>1, <1>3, <1>16
  <1>18. /\ RecreateScript[6] = Creation("swapChain")
         /\ RecreateScript[7] = Creation("imageViews")
         /\ RecreateScript[8] = Creation("depthImage")
         /\ RecreateScript[9] = Creation("framebuffers")
    <2>1. /\ RecreateScript[6] = B[1] /\ RecreateScript[7] = B[2]
          /\ RecreateScript[8] = B[3] /\ RecreateScript[9] = B[4]
      BY <1>16
    <2> QED BY <1>4, <2>1
  <1>19. /\ RecreateScript[10] = Destruction("commandBuffers")
         /\ RecreateScript[11] = Creation("commandBuffers")
         /\ RecreateScript[12] = Creation("syncObjects")
    <2>1. RecreateScript[10] = C[1] /\ RecreateScript[11] = D[1] /\ RecreateScript[12] = D[2]
      BY <1>16, <1>15
    <2> QED BY <1>4, <1>7, <2>1
  <1> HIDE DEF made, last
  <1>20. \A n \in 1..12 : n = 1 \/ n = 2 \/ n = 3 \/ n = 4 \/ n = 5 \/ n = 6 \/ n = 7
                          \/ n = 8 \/ n = 9 \/ n = 10 \/ n = 11 \/ n = 12
    OBVIOUS
  <1> QED
    BY <1>15, <1>17, <1>18, <1>19, <1>20
    DEF Creation, Destruction, GoneAt, BackAt, Members

\* An object is made after those it is made from, and destroyed before them.
LEMMA ParentsAround ==
    \A child \in Members : \A parent \in MadeFrom(child) :
        /\ parent \in Members
        /\ InitAt(parent) < InitAt(child)
        /\ CleanupAt(child) < CleanupAt(parent) \/ parent \in Attached(child)
        /\ GoneAt(parent) # 13 =>
              \/ child = "imageViews" /\ parent = "swapChain"
              \/ parent \in Attached(child)
  BY DEF Members, MadeFrom, Attached, InitAt, CleanupAt, GoneAt

\* Views are attached to framebuffers only.
LEMMA AttachedAre ==
    \A child \in Members :
        /\ Attached(child) \subseteq MadeFrom(child)
        /\ Attached(child) =
              IF child = "framebuffers" THEN {"imageViews", "depthImage"} ELSE {}
  BY DEF Members, MadeFrom, Attached

\* What the three lists leave of the members after k calls is nested.
InitLeaves(k) == {o \in Members : InitAt(o) <= k}

RecreateLeaves(k) == {o \in Members : ~ (GoneAt(o) <= k /\ k < BackAt(o))}

Nested(objects) == \A o \in objects : MadeFrom(o) \subseteq objects

\* Every prefix of the list leaves each object with those it is made from.
LEMMA InitNests == \A k \in 0..15 : Nested(InitLeaves(k))
  <1> SUFFICES ASSUME NEW k \in 0..15, NEW child \in InitLeaves(k), NEW parent \in MadeFrom(child)
               PROVE  parent \in InitLeaves(k)
    BY DEF Nested
  <1>1. /\ child \in Members /\ parent \in Members
        /\ InitAt(child) <= k /\ InitAt(parent) < InitAt(child)
    BY ParentsAround DEF InitLeaves
  <1>2. InitAt(child) \in 1..15 /\ InitAt(parent) \in 1..15
    BY <1>1, InitPlaces
  <1> QED BY <1>1, <1>2 DEF InitLeaves

\* The same for recreateSwapChain, but that the depth view is destroyed in its second
\* call and the framebuffers in its third.
LEMMA RecreateNests ==
    \A k \in 0..12 : \A child \in RecreateLeaves(k) : \A parent \in MadeFrom(child) :
        \/ parent \in RecreateLeaves(k)
        \/ k = 2 /\ child = "framebuffers" /\ parent \in Attached(child)
  <1> SUFFICES ASSUME NEW k \in 0..12, NEW child \in RecreateLeaves(k),
                      NEW parent \in MadeFrom(child)
               PROVE  \/ parent \in RecreateLeaves(k)
                      \/ k = 2 /\ child = "framebuffers" /\ parent \in Attached(child)
    OBVIOUS
  <1>1. /\ child \in Members /\ parent \in Members
        /\ ~ (GoneAt(child) <= k /\ k < BackAt(child))
        /\ \/ GoneAt(parent) = 13
           \/ child = "imageViews" /\ parent = "swapChain"
           \/ parent \in Attached(child)
    BY ParentsAround DEF RecreateLeaves
  <1>2. CASE GoneAt(parent) = 13
    BY <1>1, <1>2 DEF RecreateLeaves
  <1>3. CASE child = "imageViews" /\ parent = "swapChain"
    <2>1. GoneAt(child) = 4 /\ BackAt(child) = 7 /\ GoneAt(parent) = 5 /\ BackAt(parent) = 6
      BY <1>3 DEF GoneAt, BackAt
    <2> QED BY <1>1, <2>1 DEF RecreateLeaves
  <1>4. CASE parent \in Attached(child)
    <2>1. child = "framebuffers" /\ parent \in {"imageViews", "depthImage"}
      BY <1>1, <1>4, AttachedAre
    <2>2. /\ GoneAt(child) = 3 /\ BackAt(child) = 9
          /\ \/ GoneAt(parent) = 4 /\ BackAt(parent) = 7
             \/ GoneAt(parent) = 2 /\ BackAt(parent) = 8
      BY <2>1 DEF GoneAt, BackAt
    <2> QED BY <1>1, <1>4, <2>1, <2>2 DEF RecreateLeaves
  <1> QED BY <1>1, <1>2, <1>3, <1>4

\* What the first and the last call leave.
LEMMA LeavesEnds ==
    /\ InitLeaves(0) = {} /\ InitLeaves(15) = Members
    /\ RecreateLeaves(0) = Members /\ RecreateLeaves(12) = Members
    /\ Members \cap Lost = {}
  <1>1. \A o \in Members : GoneAt(o) \in 1..13 /\ BackAt(o) \in 6..12
    BY DEF GoneAt, BackAt, Members
  <1>2. \A o \in Members : InitAt(o) \in 1..15
    BY InitPlaces
  <1>3. InitLeaves(0) = {} /\ InitLeaves(15) = Members
    BY <1>2 DEF InitLeaves
  <1>4. RecreateLeaves(0) = Members /\ RecreateLeaves(12) = Members
    BY <1>1 DEF RecreateLeaves
  <1> QED BY <1>3, <1>4 DEF Members, Lost

\* One call of each list, by its place.
LEMMA InitCall ==
    ASSUME NEW k \in 0..14
    PROVE  LET call == InitScript[k + 1]
           IN  /\ call.call = "create" /\ call.object \in Members
               /\ call.object \notin InitLeaves(k)
               /\ InitLeaves(k + 1) = InitLeaves(k) \cup {call.object}
  <1>1. k + 1 \in 1..15
    OBVIOUS
  <1> DEFINE object == InitScript[k + 1].object
  <1>2. /\ InitScript[k + 1].call = "create" /\ object \in Members /\ InitAt(object) = k + 1
    BY <1>1, InitPlaces
  <1>3. \A o \in Members : InitAt(o) \in 1..15 /\ (InitAt(o) = k + 1 => o = object)
    BY InitPlaces
  <1> HIDE DEF object
  <1>4. object \notin InitLeaves(k)
    BY <1>2 DEF InitLeaves
  <1>5. InitLeaves(k + 1) = InitLeaves(k) \cup {object}
    <2>1. \A o \in Members : InitAt(o) <= k + 1 <=> InitAt(o) <= k \/ o = object
      BY <1>2, <1>3
    <2> QED BY <1>2, <2>1 DEF InitLeaves
  <1> QED BY <1>2, <1>4, <1>5 DEF object

LEMMA RecreateCall ==
    ASSUME NEW k \in 0..11
    PROVE  LET call == RecreateScript[k + 1]
           IN  /\ call.object \in Members
               /\ k = 2 => call.call = "destroy" /\ call.object = "framebuffers"
               /\ call.call = "create" => k >= 5
               /\ \/ /\ call.call = "destroy"
                     /\ RecreateLeaves(k + 1) = RecreateLeaves(k) \ {call.object}
                  \/ /\ call.call = "create"
                     /\ call.object \notin RecreateLeaves(k)
                     /\ RecreateLeaves(k + 1) = RecreateLeaves(k) \cup {call.object}
  <1>1. k + 1 \in 1..12
    OBVIOUS
  <1> DEFINE object == RecreateScript[k + 1].object
             kind == RecreateScript[k + 1].call
  <1>2. /\ object \in Members
        /\ \/ kind = "destroy" /\ GoneAt(object) = k + 1
           \/ kind = "create" /\ BackAt(object) = k + 1 /\ GoneAt(object) < k + 1
        /\ \A p \in Members : p # object =>
              GoneAt(p) # k + 1 /\ (BackAt(p) # k + 1 \/ GoneAt(p) = 13)
    BY <1>1, RecreatePlaces
  <1>3. \A o \in Members : /\ GoneAt(o) \in 1..13 /\ BackAt(o) \in 6..12
                           /\ GoneAt(o) < 13 => GoneAt(o) < BackAt(o)
    BY DEF GoneAt, BackAt, Members
  <1>4. k = 2 => kind = "destroy" /\ object = "framebuffers"
    <2>1. \A o \in Members : GoneAt(o) = 3 => o = "framebuffers"
      BY DEF GoneAt
    <2> HIDE DEF object, kind
    <2> QED BY <1>2, <1>3, <2>1
  <1> HIDE DEF object, kind
  <1>5. kind = "create" => k >= 5
    BY <1>2, <1>3
  <1> DEFINE Away(o, n) == GoneAt(o) <= n /\ n < BackAt(o)
  <1>6. \A o \in Members : o # object => (Away(o, k + 1) <=> Away(o, k))
    BY <1>2, <1>3
  <1>7. CASE kind = "destroy"
    <2>1. Away(object, k + 1)
      BY <1>2, <1>3, <1>7
    <2>2. RecreateLeaves(k + 1) = RecreateLeaves(k) \ {object}
      BY <1>6, <2>1 DEF RecreateLeaves
    <2> QED BY <1>2, <1>7, <1>4, <1>5, <2>2 DEF object, kind
  <1>8. CASE kind = "create"
    <2>1. Away(object, k) /\ ~Away(object, k + 1)
      BY <1>2, <1>3, <1>8
    <2>2. /\ object \notin RecreateLeaves(k)
          /\ RecreateLeaves(k + 1) = RecreateLeaves(k) \cup {object}
      BY <1>2, <1>6, <2>1 DEF RecreateLeaves
    <2> QED BY <1>2, <1>8, <1>4, <1>5, <2>2 DEF object, kind
  <1> QED BY <1>2, <1>7, <1>8, <1>4, <1>5 DEF object, kind

\* k calls of a list have been made, and "calls" are the others.
Left(calls, list, length, k) ==
    /\ k \in 0..length
    /\ Len(calls) = length - k
    /\ \A j \in 1..(length - k) : calls[j] = list[k + j]

\* A list that is begun, one that has ended, and one more call of it.
LEMMA LeftStarts ==
    ASSUME NEW S, NEW list \in Seq(S), NEW length \in Nat, Len(list) = length
    PROVE  Left(list, list, length, 0)
  BY DEF Left

LEMMA LeftEnds ==
    ASSUME NEW list, NEW length \in Nat, NEW k, Left(<<>>, list, length, k)
    PROVE  k = length
  <1>1. Len(<<>>) = 0
    OBVIOUS
  <1> QED BY <1>1 DEF Left

LEMMA LeftGoesOn ==
    ASSUME NEW S, NEW calls \in Seq(S), NEW list, NEW length \in Nat, NEW k,
           Left(calls, list, length, k), calls # <<>>
    PROVE  /\ k \in 0..(length - 1)
           /\ Head(calls) = list[k + 1]
           /\ Left(Tail(calls), list, length, k + 1)
  <1>1. /\ Len(calls) \in Nat \ {0} /\ Head(calls) = calls[1]
        /\ Tail(calls) \in Seq(S) /\ Len(Tail(calls)) = Len(calls) - 1
        /\ \A j \in 1..Len(Tail(calls)) : Tail(calls)[j] = calls[j + 1]
    BY HeadTailProperties
  <1>2. /\ k \in 0..length /\ Len(calls) = length - k
        /\ \A j \in 1..(length - k) : calls[j] = list[k + j]
    BY DEF Left
  <1>3. k \in 0..(length - 1) /\ k + 1 \in 0..length
    BY <1>1, <1>2
  <1>4. Head(calls) = list[k + 1]
    BY <1>1, <1>2, <1>3
  <1>5. \A j \in 1..(length - (k + 1)) : Tail(calls)[j] = list[(k + 1) + j]
    <2> TAKE j \in 1..(length - (k + 1))
    <2>1. j + 1 \in 1..(length - k) /\ k + (j + 1) = (k + 1) + j
      BY <1>2
    <2>2. j \in 1..Len(Tail(calls))
      BY <1>1, <1>2
    <2> QED BY <1>1, <1>2, <2>1, <2>2
  <1>6. Left(Tail(calls), list, length, k + 1)
    BY <1>1, <1>2, <1>3, <1>5 DEF Left
  <1> QED BY <1>3, <1>4, <1>6

\* The same for the list the thread is in.
LEMMA TodoGoesOn ==
    ASSUME Lists, todo # <<>>, NEW list, NEW length \in Nat, NEW k,
           Left(todo, list, length, k)
    PROVE  /\ k \in 0..(length - 1)
           /\ Head(todo) = list[k + 1]
           /\ Left(Tail(todo), list, length, k + 1)
  BY LeftGoesOn DEF Lists

\* The next call of a list that has not ended.
LEMMA LeftGoesNext ==
    ASSUME NEW S, NEW calls \in Seq(S), NEW list, NEW length \in Nat, NEW k,
           Left(calls, list, length, k), k < length
    PROVE  calls # <<>> /\ Head(calls) = list[k + 1]
  <1>1. /\ k \in 0..length /\ Len(calls) = length - k
        /\ \A j \in 1..(length - k) : calls[j] = list[k + j]
    BY DEF Left
  <1>2. Len(calls) > 0
    BY <1>1
  <1>3. calls # <<>> /\ Head(calls) = calls[1]
    BY <1>2
  <1> QED BY <1>1, <1>2, <1>3

\* Where the thread is in a list tells which objects there are; everywhere else but
\* after an error there are all of them.  Once something failed or the loop was left,
\* only cleanup's list is followed, and it destroys children first.
AtWork == {"poll", "fence", "upload", "acquire", "imageFence", "record", "submit", "present",
           "nextFrame", "loopEnd", "extent", "waitEvents", "idle"}

HoldPart ==
    /\ ParentsOutliveChildren
    /\ live \subseteq Members \cup Lost
    /\ live \cap Lost # {} => local.thrown

\* In a list of calls the GPU has no work, and what it works on is the device's.
IdlePart ==
    /\ at = "script" => gpu = <<>>
    /\ gpu # <<>> => "device" \in live
    /\ at # "script" => todo = <<>>

WherePart ==
    /\ at \in {"extent", "waitEvents", "idle"} => resume \in {"nextFrame", "loopEnd"}
    /\ resume = "ended" => at \in {"script", "ended"}
    /\ at = "ended" => resume = "ended" /\ live \cap Members = {}
    /\ at \in AtWork => live = Members

InitPhase ==
    at = "script" /\ resume = "poll" =>
        \E k \in 0..15 : Left(todo, InitScript, 15, k) /\ live = InitLeaves(k)

RecreatePhase ==
    at = "script" /\ resume \in {"nextFrame", "loopEnd"} =>
        \E k \in 0..12 : Left(todo, RecreateScript, 12, k) /\ live = RecreateLeaves(k)

CleanupPhase ==
    at = "script" /\ resume = "ended" =>
        \E k \in 0..15 : /\ Left(todo, CleanupScript, 15, k)
                         /\ \A o \in Members : CleanupAt(o) <= k => o \notin live

LifeInv == HoldPart /\ IdlePart /\ WherePart /\ InitPhase /\ RecreatePhase /\ CleanupPhase

\* When the next call destroys nothing, the views of a framebuffer are there as well.
LEMMA NestedHolds ==
    ASSUME ParentsOutliveChildren,
           todo = <<>> \/ (todo # <<>> /\ Head(todo).call = "create")
    PROVE  \A o \in live \ Lost : MadeFrom(o) \subseteq live
  BY DEF ParentsOutliveChildren

\* The invariant holds at the start.
LEMMA LifeStarts == FramesInit => LifeInv
  <1> SUFFICES ASSUME FramesInit PROVE LifeInv
    OBVIOUS
  <1>1. at = "script" /\ todo = InitScript /\ resume = "poll" /\ live = {}
    BY DEF FramesInit
  <1>2. Left(todo, InitScript, 15, 0)
    BY <1>1, InitCreates, InitPlaces, LeftStarts
  <1>3. live = InitLeaves(0)
    BY <1>1, LeavesEnds
  <1>4. InitPhase
    BY <1>2, <1>3 DEF InitPhase
  <1>5. IdlePart
    BY <1>1 DEF IdlePart, FramesInit
  <1> QED
    BY <1>1, <1>4, <1>5 DEF LifeInv, HoldPart, WherePart, RecreatePhase, CleanupPhase,
                      ParentsOutliveChildren, AtWork

\* It implies the property.
LEMMA LifeImplies ==
    ASSUME Scalars, Lists, LifeInv
    PROVE  LifetimesNest
  <1>1. ParentsOutliveChildren
    BY DEF LifeInv, HoldPart
  <1>2. AllReleased
    BY DEF LifeInv, HoldPart, WherePart, AllReleased
  <1>3. ASSUME at = "script", todo # <<>>, Head(todo).call = "create"
        PROVE  Head(todo).object \notin live
    <2>1. CASE resume = "poll"
      <3>1. PICK k \in 0..15 : Left(todo, InitScript, 15, k) /\ live = InitLeaves(k)
        BY <1>3, <2>1 DEF LifeInv, InitPhase
      <3>2. k \in 0..14 /\ Head(todo) = InitScript[k + 1]
        <4>1. Left(todo, InitScript, 15, k) /\ 15 \in Nat
          BY <3>1
        <4>2. k \in 0..(15 - 1)
          BY <1>3, <4>1, TodoGoesOn
        <4>3. Head(todo) = InitScript[k + 1]
          BY <1>3, <4>1, TodoGoesOn
        <4> QED BY <4>2, <4>3
      <3> QED BY <3>1, <3>2, InitCall
    <2>2. CASE resume \in {"nextFrame", "loopEnd"}
      <3>1. PICK k \in 0..12 : Left(todo, RecreateScript, 12, k) /\ live = RecreateLeaves(k)
        BY <1>3, <2>2 DEF LifeInv, RecreatePhase
      <3>2. k \in 0..11 /\ Head(todo) = RecreateScript[k + 1]
        <4>1. Left(todo, RecreateScript, 12, k) /\ 12 \in Nat
          BY <3>1
        <4>2. k \in 0..(12 - 1)
          BY <1>3, <4>1, TodoGoesOn
        <4>3. Head(todo) = RecreateScript[k + 1]
          BY <1>3, <4>1, TodoGoesOn
        <4> QED BY <4>2, <4>3
      <3> QED BY <1>3, <3>1, <3>2, RecreateCall
    <2>3. CASE resume = "ended"
      <3>1. PICK k \in 0..15 : Left(todo, CleanupScript, 15, k)
        BY <1>3, <2>3 DEF LifeInv, CleanupPhase
      <3>2. k \in 0..14 /\ Head(todo) = CleanupScript[k + 1]
        <4>1. Left(todo, CleanupScript, 15, k) /\ 15 \in Nat
          BY <3>1
        <4>2. k \in 0..(15 - 1)
          BY <1>3, <4>1, TodoGoesOn
        <4>3. Head(todo) = CleanupScript[k + 1]
          BY <1>3, <4>1, TodoGoesOn
        <4> QED BY <4>2, <4>3
      <3>3. Head(todo).call = "destroy"
        BY <3>2, CleanupPlaces
      <3> QED BY <1>3, <3>3
    <2> QED BY <2>1, <2>2, <2>3 DEF Scalars
  <1> QED BY <1>1, <1>2, <1>3 DEF LifetimesNest, NothingOverwritten

\* One call of the list the thread is in.
LEMMA LifePerform ==
    ASSUME Scalars, Lists, LifeInv, Perform
    PROVE  LifeInv'
  <1> DEFINE object == Head(todo).object
  <1>1. /\ at = "script" /\ todo # <<>> /\ todo' = Tail(todo)
        /\ live' = IF Head(todo).call = "create" THEN live \cup {object} ELSE live \ {object}
        /\ UNCHANGED <<at, resume, local, gpu>>
    BY DEF Perform
  <1> HIDE DEF object
  <1>2. HoldPart
    BY DEF LifeInv
  <1>3. IdlePart' /\ gpu = <<>> /\ todo' \in Seq(Commands(Objects))
    <2>1. gpu = <<>>
      BY <1>1 DEF LifeInv, IdlePart
    <2>2. todo' \in Seq(Commands(Objects))
      BY <1>1, HeadTailProperties DEF Lists
    <2> QED BY <1>1, <2>1, <2>2 DEF IdlePart
  <1>4. CASE resume = "poll"
    <2>1. PICK k : Left(todo, InitScript, 15, k) /\ live = InitLeaves(k)
      BY <1>1, <1>4 DEF LifeInv, InitPhase
    <2>2. /\ k \in 0..14 /\ Head(todo) = InitScript[k + 1]
          /\ Left(todo', InitScript, 15, k + 1)
      <3>1. Left(todo, InitScript, 15, k) /\ 15 \in Nat
        BY <2>1
      <3>2. k \in 0..(15 - 1)
        BY <1>1, <3>1, TodoGoesOn
      <3>3. Head(todo) = InitScript[k + 1]
        BY <1>1, <3>1, TodoGoesOn
      <3>4. Left(Tail(todo), InitScript, 15, k + 1)
        BY <1>1, <3>1, TodoGoesOn
      <3> QED BY <1>1, <3>2, <3>3, <3>4
    <2>3. k + 1 \in 0..15 /\ object \in Members /\ live' = InitLeaves(k + 1)
      <3>1. /\ Head(todo).call = "create" /\ object \in Members
            /\ InitLeaves(k + 1) = InitLeaves(k) \cup {object}
        BY <2>2, InitCall DEF object
      <3> QED BY <1>1, <2>1, <2>2, <3>1
    <2>4. live' \in SUBSET Members /\ \A o \in live' : MadeFrom(o) \subseteq live'
      BY <2>3, InitNests DEF InitLeaves, Nested
    <2>5. HoldPart'
      <3>1. \A o \in live' : Attached(o) \subseteq live'
        BY <2>4, AttachedAre
      <3> QED BY <2>4, <3>1, LeavesEnds DEF HoldPart, ParentsOutliveChildren
    <2>6. InitPhase'
      BY <2>2, <2>3 DEF InitPhase
    <2> QED
      BY <1>1, <1>4, <1>3, <2>5, <2>6 DEF LifeInv, WherePart, AtWork, RecreatePhase, CleanupPhase
  <1>5. CASE resume \in {"nextFrame", "loopEnd"}
    <2>1. PICK k : Left(todo, RecreateScript, 12, k) /\ live = RecreateLeaves(k)
      BY <1>1, <1>5 DEF LifeInv, RecreatePhase
    <2>2. /\ k \in 0..11 /\ Head(todo) = RecreateScript[k + 1]
          /\ Left(todo', RecreateScript, 12, k + 1)
      <3>1. Left(todo, RecreateScript, 12, k) /\ 12 \in Nat
        BY <2>1
      <3>2. k \in 0..(12 - 1)
        BY <1>1, <3>1, TodoGoesOn
      <3>3. Head(todo) = RecreateScript[k + 1]
        BY <1>1, <3>1, TodoGoesOn
      <3>4. Left(Tail(todo), RecreateScript, 12, k + 1)
        BY <1>1, <3>1, TodoGoesOn
      <3> QED BY <1>1, <3>2, <3>3, <3>4
    <2>3. k + 1 \in 0..12 /\ live' = RecreateLeaves(k + 1)
      <3>1. \/ /\ Head(todo).call = "destroy"
               /\ RecreateLeaves(k + 1) = RecreateLeaves(k) \ {object}
            \/ /\ Head(todo).call = "create"
               /\ RecreateLeaves(k + 1) = RecreateLeaves(k) \cup {object}
        BY <2>2, RecreateCall DEF object
      <3>2. live' = RecreateLeaves(k + 1)
        BY <1>1, <2>1, <3>1
      <3>3. k + 1 \in 0..12
        BY <2>2
      <3> QED BY <3>2, <3>3
    <2>4. live' \in SUBSET Members
      BY <2>3 DEF RecreateLeaves
    <2>5. HoldPart'
      <3>1. ASSUME NEW o \in live', NEW parent \in MadeFrom(o), parent \notin live'
            PROVE  k + 1 = 2 /\ o = "framebuffers" /\ parent \in Attached(o)
        BY <2>3, <3>1, RecreateNests
      <3>2. ASSUME k + 1 = 2
            PROVE  todo' # <<>> /\ Head(todo').call = "destroy"
                   /\ Head(todo').object = "framebuffers"
        <4>1. todo' # <<>> /\ Head(todo') = RecreateScript[(k + 1) + 1]
          BY <1>3, <2>2, <3>2, LeftGoesNext
        <4>2. k + 1 \in 0..11
          BY <3>2
        <4> QED BY <3>2, <4>1, <4>2, RecreateCall
      <3>3. ASSUME NEW o \in live' \ Lost
            PROVE  /\ MadeFrom(o) \ Attached(o) \subseteq live'
                   /\ \/ Attached(o) \subseteq live'
                      \/ /\ todo' # <<>> /\ Head(todo').call = "destroy"
                         /\ Head(todo').object = o /\ gpu' = <<>>
        <4>1. Attached(o) \subseteq MadeFrom(o)
          BY <2>4, AttachedAre
        <4> QED BY <1>1, <1>3, <3>1, <3>2, <4>1
      <3> QED BY <2>4, <3>3, LeavesEnds DEF HoldPart, ParentsOutliveChildren
    <2>6. RecreatePhase'
      BY <2>2, <2>3 DEF RecreatePhase
    <2> QED
      BY <1>1, <1>5, <1>3, <2>5, <2>6 DEF LifeInv, WherePart, AtWork, InitPhase, CleanupPhase
  <1>6. CASE resume = "ended"
    <2>1. PICK k : /\ Left(todo, CleanupScript, 15, k)
                   /\ \A o \in Members : CleanupAt(o) <= k => o \notin live
      BY <1>1, <1>6 DEF LifeInv, CleanupPhase
    <2>2. /\ k \in 0..14 /\ Head(todo) = CleanupScript[k + 1]
          /\ Left(todo', CleanupScript, 15, k + 1)
      <3>1. Left(todo, CleanupScript, 15, k) /\ 15 \in Nat
        BY <2>1
      <3>2. k \in 0..(15 - 1)
        BY <1>1, <3>1, TodoGoesOn
      <3>3. Head(todo) = CleanupScript[k + 1]
        BY <1>1, <3>1, TodoGoesOn
      <3>4. Left(Tail(todo), CleanupScript, 15, k + 1)
        BY <1>1, <3>1, TodoGoesOn
      <3> QED BY <1>1, <3>2, <3>3, <3>4
    <2>3. k + 1 \in 1..15
      BY <2>2
    <2>4. /\ Head(todo).call = "destroy" /\ object \in Members /\ CleanupAt(object) = k + 1
      BY <2>2, <2>3, CleanupPlaces DEF object
    <2>5. live' = live \ {object}
      BY <1>1, <2>4
    <2>6. \A o \in Members : /\ CleanupAt(o) \in 1..15
                             /\ CleanupAt(o) = k + 1 => o = object
      BY <2>2, <2>4, CleanupPlaces
    <2>7. \A o \in Members : CleanupAt(o) <= k + 1 => o \notin live'
      BY <2>1, <2>2, <2>5, <2>6
    <2>8. ASSUME NEW child \in live' \ Lost
          PROVE  /\ MadeFrom(child) \ Attached(child) \subseteq live'
                 /\ \/ Attached(child) \subseteq live'
                    \/ /\ todo' # <<>> /\ Head(todo').call = "destroy"
                       /\ Head(todo').object = child /\ gpu' = <<>>
      <3>1. /\ child \in live \ Lost /\ child \in Members /\ child # object
            /\ MadeFrom(child) \ Attached(child) \subseteq live
            /\ Attached(child) \subseteq live
        BY <1>2, <2>5, <2>8 DEF HoldPart, ParentsOutliveChildren, object
      <3>2. object \in MadeFrom(child) => object \in Attached(child)
        <4>1. object \in MadeFrom(child) =>
                 CleanupAt(child) < k + 1 \/ object \in Attached(child)
          BY <2>4, <3>1, ParentsAround
        <4>2. CleanupAt(child) <= k + 1 => FALSE
          BY <2>7, <2>8, <3>1
        <4> QED BY <2>2, <2>6, <3>1, <4>1, <4>2
      <3>3. CASE object \notin Attached(child)
        BY <2>5, <3>1, <3>2, <3>3
      <3>4. CASE object \in Attached(child)
        <4>1. child = "framebuffers" /\ object \in {"imageViews", "depthImage"}
          BY <3>1, <3>4, AttachedAre
        <4>2. k = 0
          <5>1. CleanupAt("framebuffers") = 2 /\ CleanupAt("imageViews") = 3
                /\ CleanupAt("depthImage") = 1
            BY DEF CleanupAt
          <5>2. ~ (CleanupAt(child) <= k + 1)
            BY <2>7, <2>8, <3>1
          <5> QED BY <2>2, <2>4, <4>1, <5>1, <5>2
        <4>3. todo' # <<>> /\ Head(todo') = CleanupScript[(k + 1) + 1]
          BY <1>3, <2>2, <4>2, LeftGoesNext
        <4>4. /\ CleanupScript[2].call = "destroy"
              /\ CleanupScript[2].object = "framebuffers"
          <5>1. "framebuffers" \in Members /\ CleanupAt("framebuffers") = 2
            BY DEF Members, CleanupAt
          <5> QED BY <5>1, CleanupPlaces
        <4> QED BY <1>1, <1>3, <2>5, <3>1, <3>2, <4>1, <4>2, <4>3, <4>4
      <3> QED BY <3>3, <3>4
    <2>9. HoldPart'
      BY <1>1, <1>2, <2>5, <2>8 DEF HoldPart, ParentsOutliveChildren
    <2>10. CleanupPhase'
      BY <2>2, <2>3, <2>7 DEF CleanupPhase
    <2> QED
      BY <1>1, <1>6, <1>3, <2>9, <2>10 DEF LifeInv, WherePart, AtWork, InitPhase, RecreatePhase
  <1> QED BY <1>4, <1>5, <1>6 DEF Scalars

\* A function that fails has made some of its objects, from those there are.
LEMMA LifePerformFails ==
    ASSUME Scalars, Lists, LifeInv, PerformFails
    PROVE  LifeInv'
  <1> DEFINE object == Head(todo).object
  <1>1. /\ at = "script" /\ todo # <<>> /\ Head(todo).call = "create"
        /\ at' = "cleanup" /\ local'.thrown /\ resume' = resume
        /\ todo' = <<>> /\ gpu' = gpu
    BY DEF PerformFails, Throw, Scalars
  <1>2. PICK some \in SUBSET ({object} \cap Partial) : live' = live \cup some \cup LostBy(object)
    BY DEF PerformFails
  <1> HIDE DEF object
  <1>3. /\ resume # "ended" /\ object \in Members /\ live \subseteq Members
        /\ MadeFrom(object) \subseteq live
    <2>1. CASE resume = "poll"
      <3>1. PICK k : Left(todo, InitScript, 15, k) /\ live = InitLeaves(k)
        BY <1>1, <2>1 DEF LifeInv, InitPhase
      <3>2. k \in 0..14 /\ Head(todo) = InitScript[k + 1]
        <4>1. Left(todo, InitScript, 15, k) /\ 15 \in Nat
          BY <3>1
        <4>2. k \in 0..(15 - 1)
          BY <1>1, <4>1, TodoGoesOn
        <4>3. Head(todo) = InitScript[k + 1]
          BY <1>1, <4>1, TodoGoesOn
        <4> QED BY <4>2, <4>3
      <3>3. k + 1 \in 0..15 /\ object \in Members /\ object \notin live
            /\ InitLeaves(k + 1) = live \cup {object}
        BY <3>1, <3>2, InitCall DEF object
      <3>4. MadeFrom(object) \subseteq live \cup {object}
        BY <3>3, InitNests DEF Nested
      <3>5. object \notin MadeFrom(object)
        BY <3>3 DEF MadeFrom
      <3> QED BY <2>1, <3>1, <3>3, <3>4, <3>5 DEF InitLeaves
    <2>2. CASE resume \in {"nextFrame", "loopEnd"}
      <3>1. PICK k : Left(todo, RecreateScript, 12, k) /\ live = RecreateLeaves(k)
        BY <1>1, <2>2 DEF LifeInv, RecreatePhase
      <3>2. k \in 0..11 /\ Head(todo) = RecreateScript[k + 1]
        <4>1. Left(todo, RecreateScript, 12, k) /\ 12 \in Nat
          BY <3>1
        <4>2. k \in 0..(12 - 1)
          BY <1>1, <4>1, TodoGoesOn
        <4>3. Head(todo) = RecreateScript[k + 1]
          BY <1>1, <4>1, TodoGoesOn
        <4> QED BY <4>2, <4>3
      <3>3. k + 1 \in 0..12 /\ object \in Members
            /\ RecreateLeaves(k + 1) = live \cup {object} /\ k >= 5
        BY <1>1, <3>1, <3>2, RecreateCall DEF object
      <3>4. MadeFrom(object) \subseteq live \cup {object}
        <4>1. object \in RecreateLeaves(k + 1) /\ k + 1 # 2
          BY <3>2, <3>3
        <4> QED BY <3>3, <4>1, RecreateNests
      <3>5. object \notin MadeFrom(object)
        BY <3>3 DEF MadeFrom
      <3> QED BY <2>2, <3>1, <3>3, <3>4, <3>5 DEF RecreateLeaves
    <2>3. CASE resume = "ended"
      <3>1. PICK k : Left(todo, CleanupScript, 15, k)
        BY <1>1, <2>3 DEF LifeInv, CleanupPhase
      <3>2. k \in 0..14 /\ Head(todo) = CleanupScript[k + 1]
        <4>1. Left(todo, CleanupScript, 15, k) /\ 15 \in Nat
          BY <3>1
        <4>2. k \in 0..(15 - 1)
          BY <1>1, <4>1, TodoGoesOn
        <4>3. Head(todo) = CleanupScript[k + 1]
          BY <1>1, <4>1, TodoGoesOn
        <4> QED BY <4>2, <4>3
      <3>3. k + 1 \in 1..15
        BY <3>2
      <3>4. Head(todo).call = "destroy"
        BY <3>2, <3>3, CleanupPlaces
      <3> QED BY <1>1, <3>4
    <2> QED BY <2>1, <2>2, <2>3 DEF Scalars
  <1>4. LostBy(object) \subseteq Lost
    BY DEF LostBy, Lost
  <1>5. \A o \in live' \ Lost : o \in live \/ o = object
    BY <1>2, <1>4
  <1>6. \A o \in live : o \notin Lost => MadeFrom(o) \subseteq live /\ Attached(o) \subseteq live
    <2>1. \A o \in live \ Lost : MadeFrom(o) \subseteq live
      BY <1>1, NestedHolds DEF LifeInv, HoldPart
    <2> QED BY <1>3, <2>1, AttachedAre
  <1>7. ParentsOutliveChildren'
    <2>1. Attached(object) \subseteq live
      BY <1>3, AttachedAre
    <2> QED BY <1>2, <1>3, <1>5, <1>6, <2>1 DEF ParentsOutliveChildren
  <1>8. IdlePart'
    BY <1>1 DEF LifeInv, IdlePart
  <1>9. HoldPart'
    BY <1>1, <1>2, <1>3, <1>4, <1>7 DEF HoldPart
  <1> QED
    BY <1>1, <1>3, <1>9, <1>8 DEF LifeInv, WherePart, AtWork, InitPhase, RecreatePhase, CleanupPhase

\* A list ends with all its calls made.
LEMMA LifeScriptEnds ==
    ASSUME Scalars, Lists, LifeInv, ScriptEnds
    PROVE  LifeInv'
  <1>1. /\ at = "script" /\ todo = <<>> /\ at' = resume
        /\ UNCHANGED <<resume, live, local, todo, gpu>>
    BY DEF ScriptEnds
  <1>2. resume = "poll" => live = Members
    <2> SUFFICES ASSUME resume = "poll" PROVE live = Members
      OBVIOUS
    <2>1. PICK k : Left(todo, InitScript, 15, k) /\ live = InitLeaves(k)
      BY <1>1 DEF LifeInv, InitPhase
    <2>2. k = 15
      BY <1>1, <2>1, LeftEnds
    <2> QED BY <2>1, <2>2, LeavesEnds
  <1>3. resume \in {"nextFrame", "loopEnd"} => live = Members
    <2> SUFFICES ASSUME resume \in {"nextFrame", "loopEnd"} PROVE live = Members
      OBVIOUS
    <2>1. PICK k : Left(todo, RecreateScript, 12, k) /\ live = RecreateLeaves(k)
      BY <1>1 DEF LifeInv, RecreatePhase
    <2>2. k = 12
      BY <1>1, <2>1, LeftEnds
    <2> QED BY <2>1, <2>2, LeavesEnds
  <1>4. resume = "ended" => live \cap Members = {}
    <2> SUFFICES ASSUME resume = "ended" PROVE live \cap Members = {}
      OBVIOUS
    <2>1. PICK k : /\ Left(todo, CleanupScript, 15, k)
                   /\ \A o \in Members : CleanupAt(o) <= k => o \notin live
      BY <1>1 DEF LifeInv, CleanupPhase
    <2>2. k = 15
      BY <1>1, <2>1, LeftEnds
    <2> QED BY <2>1, <2>2, CleanupPlaces
  <1>5. HoldPart'
    BY <1>1 DEF LifeInv, HoldPart, ParentsOutliveChildren
  <1>6. IdlePart'
    BY <1>1 DEF LifeInv, IdlePart
  <1> QED
    BY <1>1, <1>2, <1>3, <1>4, <1>5, <1>6
    DEF LifeInv, WherePart, AtWork, InitPhase, RecreatePhase, CleanupPhase, Scalars

\* The two steps that begin a list anew.
LEMMA LifeListBegins ==
    ASSUME Scalars, Lists, LifeInv, WaitIdle \/ Cleanup
    PROVE  LifeInv'
  <1>1. /\ live' = live /\ local' = local /\ at' = "script" /\ gpu' = gpu /\ todo = <<>>
    BY DEF WaitIdle, Cleanup, LifeInv, IdlePart
  <1>2. HoldPart'
    <2>1. \A o \in live \ Lost : MadeFrom(o) \subseteq live
      BY <1>1, NestedHolds DEF LifeInv, HoldPart
    <2>2. \A o \in live \ Lost : Attached(o) \subseteq live
      BY <2>1 DEF Attached
    <2> QED BY <1>1, <2>1, <2>2 DEF LifeInv, HoldPart, ParentsOutliveChildren
  <1>3. IdlePart'
    BY <1>1 DEF LifeInv, IdlePart, WaitIdle, Cleanup
  <1>4. CASE WaitIdle
    <2>1. /\ todo' = RecreateScript /\ resume' = resume /\ resume \in {"nextFrame", "loopEnd"}
          /\ live = Members
      BY <1>4 DEF WaitIdle, LifeInv, WherePart, AtWork
    <2>2. Left(todo', RecreateScript, 12, 0)
      BY <2>1, RecreateReplaces, RecreatePlaces, LeftStarts
    <2>3. RecreatePhase'
      BY <1>1, <2>1, <2>2, LeavesEnds DEF RecreatePhase
    <2> QED
      BY <1>1, <1>2, <1>3, <2>1, <2>3 DEF LifeInv, WherePart, AtWork, InitPhase, CleanupPhase
  <1>5. CASE Cleanup
    <2>1. todo' = CleanupScript /\ resume' = "ended"
      BY <1>5 DEF Cleanup
    <2>2. Left(todo', CleanupScript, 15, 0)
      BY <2>1, CleanupDestroys, CleanupPlaces, LeftStarts
    <2>3. \A o \in Members : ~ CleanupAt(o) <= 0
      BY CleanupPlaces
    <2>4. CleanupPhase'
      BY <1>1, <2>1, <2>2, <2>3 DEF CleanupPhase
    <2> QED
      BY <1>1, <1>2, <1>3, <2>1, <2>4 DEF LifeInv, WherePart, AtWork, InitPhase, RecreatePhase
  <1> QED BY <1>4, <1>5

\* The steps of the loop and of a frame make and destroy nothing; the GPU's and the
\* engine's leave the thread where it is.
LEMMA LifeWorkGoesOn ==
    ASSUME LifeInv, at \in AtWork, at' \in AtWork \cup {"cleanup"}, live' = live,
           todo' = todo, resume' = resume \/ resume' \in {"nextFrame", "loopEnd"},
           at' \in {"extent", "waitEvents", "idle"} => resume' \in {"nextFrame", "loopEnd"}
    PROVE  LifeInv'
  <1>1. live = Members /\ live \cap Lost = {}
    BY LeavesEnds DEF LifeInv, WherePart
  <1>2. /\ todo = <<>> /\ "device" \in live
    BY <1>1 DEF AtWork, LifeInv, IdlePart, Members
  <1>3. HoldPart'
    BY <1>1, <1>2 DEF LifeInv, HoldPart, ParentsOutliveChildren
  <1>4. /\ at' # "script" /\ at' # "ended" /\ resume' # "ended"
    BY DEF AtWork, LifeInv, WherePart
  <1>5. IdlePart'
    BY <1>4, <1>2 DEF IdlePart
  <1>6. WherePart'
    BY <1>1, <1>4 DEF WherePart
  <1> QED BY <1>3, <1>4, <1>6, <1>5 DEF LifeInv, InitPhase, RecreatePhase, CleanupPhase

\* A step of neither the thread nor its objects.
LEMMA LifeStays ==
    ASSUME LifeInv, UNCHANGED <<at, todo, resume, live, local>>, gpu = <<>> => gpu' = <<>>
    PROVE  LifeInv'
  BY DEF LifeInv, HoldPart, ParentsOutliveChildren, IdlePart, WherePart, InitPhase, RecreatePhase,
         CleanupPhase

\* Every step keeps it.
LEMMA LifeKeeps == TypeInv /\ LifeInv /\ [FramesNext]_frameVars => LifeInv'
  <1> SUFFICES ASSUME Scalars, Lists, LifeInv, [FramesNext]_frameVars
               PROVE  LifeInv'
    BY TypeInvIs
  <1>1. ASSUME NEW size \in WindowSizes, NEW close \in BOOLEAN,
               PollEvents(size, close) \/ WaitEvents(size, close)
        PROVE  LifeInv'
    BY <1>1, LifeWorkGoesOn DEF PollEvents, WaitEvents, AtWork, LifeInv, WherePart
  <1>2. CASE LeaveLoop \/ WaitForFence \/ UploadLines \/ WaitForImage \/ RecordCommandBuffer
    BY <1>2, LifeWorkGoesOn DEF LeaveLoop, WaitForFence, UploadLines, WaitForImage,
                               RecordCommandBuffer, Throw, AtWork
  <1>3. CASE Acquire
    BY <1>3, LifeWorkGoesOn DEF Acquire, Recreate, Throw, AtWork
  <1>4. CASE Submit \/ NextFrame \/ LoopEnd
    BY <1>4, LifeWorkGoesOn DEF Submit, NextFrame, LoopEnd, Throw, AtWork
  <1>5. CASE Present
    BY <1>5, LifeWorkGoesOn DEF Present, Recreate, Throw, AtWork
  <1>6. CASE CheckExtent
    BY <1>6, LifeWorkGoesOn DEF CheckExtent, AtWork, LifeInv, WherePart
  <1>7. CASE GpuFinishes \/ (\E i \in Images : EngineShows(i)) \/ UNCHANGED frameVars
    BY <1>7, LifeStays DEF GpuFinishes, EngineShows, frameVars
  <1> QED
    BY <1>1, <1>2, <1>3, <1>4, <1>5, <1>6, <1>7, LifePerform, LifePerformFails,
       LifeScriptEnds, LifeListBegins DEF FramesNext, ThreadStep, EventComes, Ended

\* Whatever fails, on any number of images and frames in flight, no object is made over
\* another or outlives one it was made from, and none is left in the end but what a
\* failing function held (initVulkan, recreateSwapChain, cleanup); only framebuffers outlive
\* a view, with the GPU idle and until the thread's next call (cleanupSwapChain).
THEOREM LifetimesAlwaysNest == FramesSpec => []LifetimesNest
  <1>1. FramesInit => TypeInv /\ LifeInv
    BY TypeStarts, LifeStarts
  <1>2. TypeInv /\ LifeInv /\ [FramesNext]_frameVars => TypeInv' /\ LifeInv'
    BY TypeKeeps, LifeKeeps
  <1>3. TypeInv /\ LifeInv => LifetimesNest
    BY TypeInvIs, LifeImplies
  <1> QED BY <1>1, <1>2, <1>3, PTL DEF FramesSpec
=============================================================================
