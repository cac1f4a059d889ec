---------------------------- MODULE ViewerFrames ----------------------------
(***************************************************************************)
(* How the scene viewer draws (src/vulkan_scene_viewer.cpp): initVulkan    *)
(* creates the Vulkan objects, drawFrame waits, uploads, acquires, submits *)
(* and presents, recreateSwapChain replaces what depends on the window's   *)
(* size, and cleanup destroys everything.                                  *)
(*                                                                         *)
(* The program's thread runs beside the GPU, which works on what was       *)
(* submitted, and the presentation engine, which shows images and hands    *)
(* them back.  Objects are named by the member that holds them, all images *)
(* of a swapchain share one extent, and what is drawn is left out, except  *)
(* that submitted work reads the line buffer.  The window's size changes   *)
(* only while the thread processes events: the window is the thread's own. *)
(***************************************************************************)
EXTENDS Integers, Sequences, FiniteSets

CONSTANTS
    Images,           \* images of a swapchain
    FramesInFlight,   \* kMaxFramesInFlight
    Sizes,            \* sizes of a window that is not minimised
    FailingCalls,     \* calls that may fail: "create", "acquire", "submit", "present"
    NullHandle        \* VK_NULL_HANDLE: no fence; and no image

Frames == 0..(FramesInFlight - 1)

ASSUME ImagesAssumption == IsFiniteSet(Images) /\ NullHandle \notin Images \cup Frames
ASSUME FramesInFlightAssumption == FramesInFlight \in Nat \ {0}
ASSUME SizesAssumption == Sizes # {} /\ 0 \notin Sizes

\* A size of 0 stands for a minimised window.
WindowSizes == Sizes \cup {0}

VARIABLES
    at,        \* where the thread is
    todo,      \* the calls that create and destroy, still to be made
    resume,    \* where recreateSwapChain returns to
    live,      \* the objects there are
    local,     \* local variables: image index, size seen, whether an error was thrown
    sync,      \* m_currentFrame, fences, semaphores, m_imagesInFlight
    gpu,       \* submitted work the GPU has not finished, oldest first
    images,    \* what the presentation engine does with each image
    window,    \* the window's size, m_framebufferResized, glfwWindowShouldClose
    extent,    \* m_swapChainExtent
    viewport   \* the extent createPipelines built the viewport and scissor of

frameVars == <<at, todo, resume, live, local, sync, gpu, images, window, extent, viewport>>

-----------------------------------------------------------------------------
(* Creating and destroying.                                                *)

Creation(object) == [call |-> "create", object |-> object]

Destruction(object) == [call |-> "destroy", object |-> object]

Calls(kind(_), objects) == [n \in DOMAIN objects |-> kind(objects[n])]

\* initWindow and initVulkan.
InitScript ==
    Calls(Creation,
          <<"window", "instance", "debugMessenger", "surface", "device", "swapChain",
            "imageViews", "renderPass", "depthImage", "pipelines", "framebuffers",
            "commandPool", "vertexBuffers", "commandBuffers", "syncObjects">>)

CleanupSwapChain == <<"depthImage", "framebuffers", "imageViews", "swapChain">>

\* recreateSwapChain once the GPU is idle; createCommandBuffers frees the old ones.
RecreateScript ==
    Calls(Destruction, <<"syncObjects">> \o CleanupSwapChain)
    \o Calls(Creation, <<"swapChain", "imageViews", "depthImage", "framebuffers">>)
    \o <<Destruction("commandBuffers")>>
    \o Calls(Creation, <<"commandBuffers", "syncObjects">>)

\* MUTANT of CleanupScript: the surface goes before the swapchain made from it.
CleanupScript_SurfaceFirst ==
    Calls(Destruction,
          <<"surface">> \o CleanupSwapChain
          \o <<"vertexBuffers", "pipelines", "renderPass", "syncObjects", "commandBuffers",
               "commandPool", "device", "debugMessenger", "instance", "window">>)

\* cleanup; the command buffers go with their pool.
CleanupScript ==
    Calls(Destruction,
          CleanupSwapChain
          \o <<"vertexBuffers", "pipelines", "renderPass", "syncObjects", "commandBuffers",
               "commandPool", "device", "surface", "debugMessenger", "instance", "window">>)

\* Objects a function that fails half way may have made some of.
Partial == {"imageViews", "depthImage", "pipelines", "framebuffers", "vertexBuffers",
            "syncObjects"}

\* Objects a function holds in a local variable, which an error loses: the shader
\* modules of createPipelines and the buffer createVertexBuffers is about to keep.
LostBy(object) ==
    CASE object = "pipelines" -> {"shaderModules"}
      [] object = "vertexBuffers" -> {"modelBuffer"}
      [] OTHER -> {}

Lost == {"shaderModules", "modelBuffer"}

\* createSyncObjects: every fence is signalled, every semaphore is not.
NewSync ==
    [currentFrame |-> 0,
     inFlightFences |-> [f \in Frames |-> TRUE],
     imageAvailable |-> [f \in Frames |-> FALSE],
     renderFinished |-> [i \in Images |-> FALSE],
     imagesInFlight |-> [i \in Images |-> NullHandle]]

FreeImages == [i \in Images |-> "free"]

Throw == at' = "cleanup" /\ local' = [local EXCEPT !.thrown = TRUE]

Perform ==
    /\ at = "script" /\ todo # <<>>
    /\ todo' = Tail(todo)
    /\ LET object == Head(todo).object
           creates == Head(todo).call = "create"
       IN  /\ live' = IF creates THEN live \cup {object} ELSE live \ {object}
           /\ extent' = IF creates /\ object = "swapChain" THEN window.size ELSE extent
           /\ images' = IF creates /\ object = "swapChain" THEN FreeImages ELSE images
           /\ viewport' = IF creates /\ object = "pipelines" THEN extent ELSE viewport
           /\ sync' = IF object = "syncObjects" THEN NewSync ELSE sync
    /\ UNCHANGED <<at, resume, local, gpu, window>>

PerformFails ==
    /\ "create" \in FailingCalls
    /\ at = "script" /\ todo # <<>>
    /\ LET object == Head(todo).object
       IN  /\ Head(todo).call = "create"
           /\ \E some \in SUBSET ({object} \cap Partial) :
                live' = live \cup some \cup LostBy(object)
    /\ Throw
    /\ todo' = <<>>
    /\ UNCHANGED <<resume, sync, gpu, images, window, extent, viewport>>

ScriptEnds ==
    /\ at = "script" /\ todo = <<>>
    /\ at' = resume
    /\ UNCHANGED <<todo, resume, live, local, sync, gpu, images, window, extent, viewport>>

-----------------------------------------------------------------------------
(* The main loop and drawFrame.                                            *)

\* MUTANT of Events: no callback tells the viewer that its window was resized.
Events_Unnoticed(size, close) ==
    window' = [size |-> size,
               resized |-> window.resized,
               shouldClose |-> window.shouldClose \/ close]

\* Processing the events that have come; the callback notes a new size.
Events(size, close) ==
    window' = [size |-> size,
               resized |-> window.resized \/ size # window.size,
               shouldClose |-> window.shouldClose \/ close]

PollEvents(size, close) ==
    /\ at = "poll" /\ ~window.shouldClose
    /\ Events(size, close)
    /\ at' = "fence"
    /\ UNCHANGED <<todo, resume, live, local, sync, gpu, images, extent, viewport>>

LeaveLoop ==
    /\ at = "poll" /\ window.shouldClose
    /\ at' = "cleanup"
    /\ UNCHANGED <<todo, resume, live, local, sync, gpu, images, window, extent, viewport>>

\* MUTANT of WaitForFence: the thread does not wait for the frame before.
WaitForFence_Skipped ==
    /\ at = "fence"
    /\ at' = "upload"
    /\ UNCHANGED <<todo, resume, live, local, sync, gpu, images, window, extent, viewport>>

WaitForFence ==
    /\ at = "fence"
    /\ sync.inFlightFences[sync.currentFrame]
    /\ at' = "upload"
    /\ UNCHANGED <<todo, resume, live, local, sync, gpu, images, window, extent, viewport>>

\* Changed lines are written into the one line buffer there is; more lines than it
\* holds take a new one.
UploadLines ==
    /\ at = "upload"
    /\ \/ at' = "acquire" /\ UNCHANGED local
       \/ "create" \in FailingCalls /\ Throw
    /\ UNCHANGED <<todo, resume, live, sync, gpu, images, window, extent, viewport>>

\* The thread goes on to recreateSwapChain, which first asks for the window's size.
Recreate(where) ==
    /\ at' = "extent"
    /\ resume' = where
    /\ local' = [local EXCEPT !.seen = window.size]

\* The presentation engine may say that the window has another size.
Outdated == window.size # extent

Acquire ==
    /\ at = "acquire"
    /\ \/ \E i \in Images :
            /\ images[i] = "free"
            /\ images' = [images EXCEPT ![i] = "acquired"]
            /\ sync' = [sync EXCEPT !.imageAvailable[sync.currentFrame] = TRUE]
            /\ local' = [local EXCEPT !.image = i]
            /\ at' = "imageFence"
            /\ UNCHANGED resume
       \/ Outdated /\ Recreate("loopEnd") /\ UNCHANGED <<images, sync>>
       \/ "acquire" \in FailingCalls /\ Throw /\ UNCHANGED <<images, sync, resume>>
    /\ UNCHANGED <<todo, live, gpu, window, extent, viewport>>

\* MUTANT of WaitForImage: the frame's fence is reset before the image's is waited for.
WaitForImage_ResetsFirst ==
    /\ at = "imageFence"
    /\ LET fence == sync.imagesInFlight[local.image]
           reset == [sync.inFlightFences EXCEPT ![sync.currentFrame] = FALSE]
       IN  /\ fence # NullHandle => reset[fence]
           /\ sync' = [sync EXCEPT !.imagesInFlight[local.image] = sync.currentFrame,
                                   !.inFlightFences = reset]
    /\ at' = "record"
    /\ UNCHANGED <<todo, resume, live, local, gpu, images, window, extent, viewport>>

\* The image's last frame must be done; then its fence is this frame's, and is reset.
WaitForImage ==
    /\ at = "imageFence"
    /\ LET fence == sync.imagesInFlight[local.image]
       IN  fence # NullHandle => sync.inFlightFences[fence]
    /\ sync' = [sync EXCEPT !.imagesInFlight[local.image] = sync.currentFrame,
                            !.inFlightFences[sync.currentFrame] = FALSE]
    /\ at' = "record"
    /\ UNCHANGED <<todo, resume, live, local, gpu, images, window, extent, viewport>>

\* recordCommandBuffer begins the image's buffer anew and may fail.
RecordCommandBuffer ==
    /\ at = "record"
    /\ \/ at' = "submit" /\ UNCHANGED local
       \/ "submit" \in FailingCalls /\ Throw
    /\ UNCHANGED <<todo, resume, live, sync, gpu, images, window, extent, viewport>>

Submit ==
    /\ at = "submit"
    /\ \/ /\ gpu' = Append(gpu, [frame |-> sync.currentFrame, image |-> local.image])
          /\ at' = "present"
          /\ UNCHANGED local
       \/ "submit" \in FailingCalls /\ Throw /\ UNCHANGED gpu
    /\ UNCHANGED <<todo, resume, live, sync, images, window, extent, viewport>>

Present ==
    /\ at = "present"
    /\ images' = [images EXCEPT ![local.image] = "queued"]
    /\ \/ /\ ~window.resized
          /\ at' = "nextFrame"
          /\ UNCHANGED <<window, local, resume>>
       \/ /\ Outdated \/ window.resized
          /\ window' = [window EXCEPT !.resized = FALSE]
          /\ Recreate("nextFrame")
       \/ "present" \in FailingCalls /\ ~window.resized /\ Throw /\ UNCHANGED <<window, resume>>
    /\ UNCHANGED <<todo, live, sync, gpu, extent, viewport>>

\* MUTANT of NextFrame: the index of the frame only grows.
NextFrame_Unwrapped ==
    /\ at = "nextFrame"
    /\ sync' = [sync EXCEPT !.currentFrame = @ + 1]
    /\ at' = "loopEnd"
    /\ UNCHANGED <<todo, resume, live, local, gpu, images, window, extent, viewport>>

NextFrame ==
    /\ at = "nextFrame"
    /\ sync' = [sync EXCEPT !.currentFrame = (@ + 1) % FramesInFlight]
    /\ at' = "loopEnd"
    /\ UNCHANGED <<todo, resume, live, local, gpu, images, window, extent, viewport>>

\* The loop goes round, or leaves after the frames or the hours it was given.
LoopEnd ==
    /\ at = "loopEnd"
    /\ at' \in {"poll", "cleanup"}
    /\ UNCHANGED <<todo, resume, live, local, sync, gpu, images, window, extent, viewport>>

-----------------------------------------------------------------------------
(* recreateSwapChain and cleanup.                                          *)

\* The loop that waits for a window that is not minimised: it asks for the size, and
\* waits for an event before it looks at the answer.
CheckExtent ==
    /\ at = "extent"
    /\ IF local.seen # 0
       THEN at' = "idle" /\ UNCHANGED local
       ELSE at' = "waitEvents" /\ local' = [local EXCEPT !.seen = window.size]
    /\ UNCHANGED <<todo, resume, live, sync, gpu, images, window, extent, viewport>>

WaitEvents(size, close) ==
    /\ at = "waitEvents"
    /\ Events(size, close)
    /\ at' = "extent"
    /\ UNCHANGED <<todo, resume, live, local, sync, gpu, images, extent, viewport>>

\* vkDeviceWaitIdle
WaitIdle ==
    /\ at = "idle" /\ gpu = <<>>
    /\ at' = "script"
    /\ todo' = RecreateScript
    /\ UNCHANGED <<resume, live, local, sync, gpu, images, window, extent, viewport>>

Cleanup ==
    /\ at = "cleanup"
    /\ "device" \in live => gpu = <<>>
    /\ at' = "script"
    /\ todo' = CleanupScript
    /\ resume' = "ended"
    /\ UNCHANGED <<live, local, sync, gpu, images, window, extent, viewport>>

-----------------------------------------------------------------------------
(* The GPU and the presentation engine.                                    *)

\* The GPU waits until the image is there, draws, and signals that it is done.
GpuFinishes ==
    /\ gpu # <<>>
    /\ LET work == Head(gpu)
       IN  /\ sync.imageAvailable[work.frame]
           /\ sync' = [sync EXCEPT !.imageAvailable[work.frame] = FALSE,
                                   !.renderFinished[work.image] = TRUE,
                                   !.inFlightFences[work.frame] = TRUE]
    /\ gpu' = Tail(gpu)
    /\ UNCHANGED <<at, todo, resume, live, local, images, window, extent, viewport>>

\* A finished image is shown, and the one it replaces can be acquired again.
EngineShows(i) ==
    /\ images[i] = "queued"
    /\ sync.renderFinished[i]
    /\ sync' = [sync EXCEPT !.renderFinished[i] = FALSE]
    /\ images' = [j \in Images |-> IF j = i THEN "shown"
                                   ELSE IF images[j] = "shown" THEN "free"
                                   ELSE images[j]]
    /\ UNCHANGED <<at, todo, resume, live, local, gpu, window, extent, viewport>>

-----------------------------------------------------------------------------
(* The specification.                                                      *)

\* run; the members start out empty.
FramesInit ==
    /\ at = "script" /\ todo = InitScript /\ resume = "poll"
    /\ live = {}
    /\ local = [image |-> NullHandle, seen |-> 0, thrown |-> FALSE]
    /\ sync = NewSync
    /\ gpu = <<>>
    /\ images = FreeImages
    /\ window \in [size : Sizes, resized : {FALSE}, shouldClose : {FALSE}]
    /\ extent = 0 /\ viewport = 0

\* A call that does not wait for ever, or waits only for the GPU or the engine.
ThreadStep ==
    \/ Perform \/ PerformFails \/ ScriptEnds
    \/ \E size \in WindowSizes, close \in BOOLEAN : PollEvents(size, close)
    \/ LeaveLoop \/ WaitForFence \/ UploadLines \/ Acquire \/ WaitForImage
    \/ RecordCommandBuffer \/ Submit \/ Present \/ NextFrame \/ LoopEnd
    \/ CheckExtent \/ WaitIdle \/ Cleanup

EventComes == \E size \in WindowSizes, close \in BOOLEAN : WaitEvents(size, close)

Ended == at = "ended" /\ UNCHANGED frameVars

FramesNext ==
    \/ ThreadStep
    \/ EventComes
    \/ GpuFinishes
    \/ \E i \in Images : EngineShows(i)
    \/ Ended

FramesSpec == FramesInit /\ [][FramesNext]_frameVars

\* The operating system runs the thread, the GPU and the engine go on working, and
\* the window keeps getting events, if only those of the mouse.
FramesFairSpec ==
    /\ FramesSpec
    /\ WF_frameVars(ThreadStep)
    /\ WF_frameVars(EventComes)
    /\ WF_frameVars(GpuFinishes)
    /\ \A i \in Images : WF_frameVars(EngineShows(i))

-----------------------------------------------------------------------------
(* Properties.                                                             *)

Objects == {InitScript[n].object : n \in DOMAIN InitScript} \cup Lost

\* The type invariant: every variable stays in its range; in particular the frame's
\* index stays one for which there are a fence and a semaphore.
FramesTypeOK ==
    /\ at \in {"script", "poll", "fence", "upload", "acquire", "imageFence", "record",
               "submit", "present", "nextFrame", "loopEnd", "extent", "waitEvents", "idle",
               "cleanup", "ended"}
    /\ \A n \in DOMAIN todo :
         todo[n] \in [call : {"create", "destroy"}, object : Objects]
    /\ resume \in {"poll", "nextFrame", "loopEnd", "ended"}
    /\ live \subseteq Objects
    /\ local \in [image : Images \cup {NullHandle}, seen : WindowSizes, thrown : BOOLEAN]
    /\ sync \in [currentFrame : Frames,
                 inFlightFences : [Frames -> BOOLEAN],
                 imageAvailable : [Frames -> BOOLEAN],
                 renderFinished : [Images -> BOOLEAN],
                 imagesInFlight : [Images -> Frames \cup {NullHandle}]]
    /\ \A n \in DOMAIN gpu : gpu[n] \in [frame : Frames, image : Images]
    /\ images \in [Images -> {"free", "acquired", "queued", "shown"}]
    /\ window \in [size : WindowSizes, resized : BOOLEAN, shouldClose : BOOLEAN]
    /\ extent \in WindowSizes /\ viewport \in WindowSizes

Working(image) == \E n \in DOMAIN gpu : gpu[n].image = image

\* While the GPU works, the thread writes nothing the work reads and signals nothing
\* the work has not taken: it does not upload lines, does not record the command
\* buffer the work came from, acquires with a semaphore that is not signalled, and
\* the work's own semaphore has been taken by the engine (drawFrame's two waits); and
\* nothing is destroyed (the vkDeviceWaitIdle of recreateSwapChain and of cleanup).
WorkIsUndisturbed ==
    /\ at = "script" /\ (\E n \in DOMAIN todo : todo[n].call = "destroy") => gpu = <<>>
    /\ at = "upload" => gpu = <<>>
    /\ at = "acquire" => ~sync.imageAvailable[sync.currentFrame]
    /\ at = "record" => ~Working(local.image) /\ ~sync.inFlightFences[sync.currentFrame]
    /\ \A i \in Images : Working(i) => ~sync.renderFinished[i]

\* What each object is made from.
MadeFrom(object) ==
    CASE object \in {"window", "instance"} -> {}
      [] object = "debugMessenger" -> {"instance"}
      [] object = "surface" -> {"instance", "window"}
      [] object = "device" -> {"instance"}
      [] object = "swapChain" -> {"device", "surface"}
      [] object = "imageViews" -> {"device", "swapChain"}
      [] object = "pipelines" -> {"device", "renderPass"}
      [] object = "framebuffers" -> {"device", "renderPass", "imageViews", "depthImage"}
      [] object = "commandBuffers" -> {"device", "commandPool"}
      [] OTHER -> {"device"}

\* The views a framebuffer refers to.  Vulkan wants them there as long as it is used, and
\* an unused framebuffer may outlive them.
Attached(object) == MadeFrom(object) \cap {"imageViews", "depthImage"}

\* No object outlives one it was made from, except those an error loses.  Only the views
\* of a framebuffer may go before it, when the GPU has no work that could use it and its
\* destruction is the thread's next call.
ParentsOutliveChildren ==
    \A object \in live \ Lost :
        /\ MadeFrom(object) \ Attached(object) \subseteq live
        /\ \/ Attached(object) \subseteq live
           \/ /\ todo # <<>> /\ Head(todo).call = "destroy" /\ Head(todo).object = object
              /\ gpu = <<>>

\* A member that holds an object is never given another, which would leak the first.
NothingOverwritten ==
    at = "script" /\ todo # <<>> /\ Head(todo).call = "create"
        => Head(todo).object \notin live

\* When the viewer has ended, everything is destroyed: after an error, everything but
\* the shader modules or the model buffer that the failing function held.
AllReleased ==
    at = "ended" => /\ live \subseteq Lost
                    /\ ~local.thrown => live = {}

\* Whatever fails and whenever the window is resized or closed, every object is made
\* once, destroyed before those it was made from, and destroyed in the end (cleanup,
\* recreateSwapChain).  One pair is the other way round: cleanupSwapChain destroys the
\* depth view just before the framebuffers that refer to it, which nothing uses by then.
LifetimesNest == ParentsOutliveChildren /\ NothingOverwritten /\ AllReleased

\* A frame that is begun ends: no wait for a fence, an image or an idle GPU is for
\* something that only the waiting thread could bring about.
FrameCompletes == at = "fence" ~> at \in {"loopEnd", "waitEvents", "ended"}

\* A window that keeps one size is drawn in that size, also when it was resized
\* between any two calls of a frame (m_framebufferResized, recreateSwapChain).
ResizeFollows ==
    \A size \in Sizes : <>[](window.size = size) => []<>(extent = size \/ at = "ended")

\* What a frame shows is projected for the extent in which clicks are projected back
\* (createPipelines, groundPointUnderCursor with m_swapChainExtent).
PickedWhereDrawn == at = "record" => viewport = extent
=============================================================================
