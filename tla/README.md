# Formal models of the Vulkan action client

TLA+ modules for the programs of this repository: the UDP state server, the
relay inside it, the network client and the packets they exchange; the scene
viewer that draws, moves and publishes an actor; the deterministic runtime
world; the authored scenes it is compiled from; and the command line and result
file that the hosts share. TLC checks the modules on small instances; TLAPS
proves, for every value of the constants, all their safety properties and the
three refinements; what is left to TLC alone is liveness.

Paths below are relative to the repository root (`src/...` is its source
directory, `docs/...` its documentation).

## 1. The system

Several viewer processes, each started with a client id of its own choice,
send datagrams to one server. The server keeps no simulation: it accepts the
latest snapshot of every client's actor and fans it out to the others. Nothing
is acknowledged and nothing is sent again (`docs/network-architecture.md`).

| Component | State | Operations | Hard behaviour | What makes it correct |
|---|---|---|---|---|
| Snapshot relay, `src/network/snapshot_relay.cpp` | sessions by client id, client id by endpoint, latest snapshot by client id, last sequence of each client | `ingest` of a connect, disconnect or snapshot, with the outputs to send | an id claimed from a second endpoint, an endpoint that changes its id, late packets of a displaced process, half removed sessions | the maps stay inverse; the cache holds only live clients; a newcomer is told everything; only its owner or a claim ends a session |
| Server process, `src/udp_state_server.cpp` | relay, endpoints by key, socket | receive, ingest, send each output | a send that throws in the middle of a fan-out, restart without sessions | viewers that have sessions show each other |
| Codec, `src/network/state_protocol.cpp` | none | encode and decode bit-packed packets | fields that straddle bytes, negative numbers in 22 bits, quantisation at a full turn, foreign or damaged datagrams | what decodes means what was sent; relaying again keeps the bits |
| Socket, `src/network/udp_socket.cpp` | a descriptor | open, `sendTo`, non-blocking `receive` | loss, duplication, reordering | - |
| Snapshot client, `src/network/snapshot_client.cpp` | id, sequence, connected | connect once, `sendSnapshot`, `receive` a batch, disconnect once | a batch sorts events before snapshots; the single connect or disconnect is lost | the own actor is never moved by the network |
| Viewer: network actors, `src/vulkan_scene_viewer.cpp:460-727` | instances, actor states, index maps, player and sparring index, line geometry | create, remove and move actors, apply the profile, upload lines | indexes shift when an actor is erased; reloads between creations | every index is exact; what is drawn is current |
| Viewer: controls, `:395-458`, `:736-1111` | profile, bindings, write time, mode, click target, cursor, accumulator | reload, toggle, click, tick, draw | saves while a reload runs, mode changes while walking, limits that change under a target | no save is missed, bad saves change nothing, walks arrive |
| Viewer: frames, `:314-393`, `:1157-2224` | Vulkan objects, fences, semaphores, images in flight, resize flag | create, draw, replace the swapchain, clean up | GPU and engine run beside the thread; resizes, errors half way | nothing in use is touched, all is destroyed in order, frames end, resizes are followed |
| Combat simulation, `src/combat/combat_simulation.cpp` | none (pure) | four movement functions | speed scales, clamping | stays in the arena, backpedal is slow |
| Control profile and key bindings, `src/config`, `src/input` | none | load, resolve | fails half way | all or nothing |
| Runtime world, `src/simulation/runtime_world.cpp` | actors, tick, accumulator | import, fixed ticks over a log of inputs, render cadence | an unstable sort of a tick's inputs, sums of frame times that are a little off, three flags per actor | a tick does to an actor what its input says, whatever the order; ticks follow from time |
| Authoring content, `src/content/authoring_scene.cpp` | a document and its file | load, validate, compile, save | a save cut short, repeated or missing ids, values that are no numbers | what loads is what was saved whole; the ids of a compiled world resolve |
| Host command line, `src/host/host_cli.cpp` | words and which are consumed | look for each option, refuse the rest | options are looked for in the code's order, a value may look like an option | a line is accepted exactly by its grammar |
| Result file, `src/host/host_cli.cpp:194-239`, `src/scene_probe.cpp` | the file and its temporary | make directories, write, remove, rename | any call fails, the process is killed between two of them, a second error in the handler | exit code and result agree; a result that appears is whole and of its run |
| Scene loading and geometry, `src/scene`, `src/render` | none | load, bounds, vertices | - | - |
| Tests, tools, shaders, `toolchain_probe` | - | - | - | - |

Interactions: viewer and server exchange datagrams; the viewer's main loop runs
profile reload, network pump, user input, simulation and drawing one after
another on one thread, and these share the actor vectors, the click target and
the flag that asks for an upload of the lines; the GPU and the presentation
engine work beside that thread; the profile file is written by somebody else.

## 2. Modules

| Module | What it is |
|---|---|
| `SnapshotRelay` | the relay: one action per branch of `ingest`, the outputs of the last call as a variable |
| `RelaySessions` | abstract: who owns which id and which snapshot is current; join, leave, publish |
| `SnapshotBatch` | operators: what `SnapshotClient::receive` and the pump make of a batch of datagrams |
| `SnapshotBatch_proofs` | lemmas about `SnapshotBatch`, and about numbers and positions |
| `NetworkActors` | the viewer's vectors and index maps over frames |
| `ViewerRoster` | abstract: a pose per client id, a batch applied in one step |
| `NetworkActors_proofs` | theorems about `NetworkActors` |
| `RelaySystem` | composition: processes, queues of datagrams, the server with `SnapshotRelay` inside |
| `RelaySystem_proofs` | theorems about `SnapshotRelay` and, built on them, about `RelaySystem` |
| `Locomotion` | operators: the movement functions of `combat_simulation.cpp` that viewer and runtime world share |
| `ViewerControls` | one viewer's loop beside an editor of its profile |
| `ViewerFrames` | one viewer's thread beside the GPU and the presentation engine |
| `Viewer_proofs` | theorems about `ViewerControls` and about `ViewerFrames`, each by itself |
| `RuntimeWorld` | the simulation, a tick statement by statement |
| `FixedTicks` | abstract: a tick in one step, each actor from its own inputs alone |
| `RuntimeWorld_proofs` | theorems about `RuntimeWorld`, the refinement among them |
| `StateProtocol` | packets as sequences of bits, sent, damaged, decoded and relayed |
| `StateProtocol_proofs` | theorems about `StateProtocol` |
| `AuthoringScene` | validating, compiling, saving and loading authored scenes |
| `AuthoringScene_proofs` | theorems about `AuthoringScene` |
| `CommandLine` | operators: how a host consumes its words, and the grammar that is meant |
| `HostProcess` | hosts run one after the other over one file system |
| `HostProcess_proofs` | theorems about `HostProcess` |
| `MC*` | constants for TLC |

`RelaySystem` composes `SnapshotRelay` (instantiated) with viewers and queues,
`HostProcess` extends `CommandLine`, `ViewerControls` and `RuntimeWorld` extend
`Locomotion`; `SnapshotRelay` refines `RelaySessions`, `NetworkActors` refines
`ViewerRoster`, and `RuntimeWorld` refines `FixedTicks`.

Correspondence in short (`PROJECT.json`, "map", has the lines of each definition):

- **SnapshotRelay.** `relay` holds the three maps of `snapshot_relay.hpp:50-52`,
  `result` the `RelayResult` of the last call. `Ingest` splits into
  `IngestUndecodable`, `IngestRejected`, `IngestDuplicateConnect`,
  `IngestConnect`, `IngestDisconnect` and `IngestSnapshot`, each with the
  removals, insertions and outputs of its branch in the code's order. The
  sequence a client sent last is kept and sent on in events; nobody compares
  it. A snapshot keeps the fields properties tell apart: id, tick and yaw,
  where yaw lives on a ring of `YawMax` and `YawMax` itself is the full turn.
- **NetworkActors.** A frame is `Receive`, one `HandleEvent` or `HandleSnapshot`
  per packet, `EndPump`, `SimulateNoTick` or `SimulateTicks`, `DrawFrame`, in
  the order of `mainLoop` and `pumpNetworkSnapshots`. `RemoveActor` erases from
  both vectors and decrements every later index as the code does.
- **RelaySystem.** A viewer starts (connect), publishes, pumps any prefix of
  what has arrived, closes (disconnect) or crashes. The server ingests one
  datagram, sends the outputs one after another, may fail at any of them, and
  may stop and start again with empty maps. A run starts in one of `Settings`:
  which process has which id, and in `faults` what the network and the processes
  may do beside their work.
- **ViewerControls.** The phases are the statements of `mainLoop`; `StatProfile`,
  `ReadProfile` and `SwapProfile` are steps of their own because the file may
  be saved in between. The arena is a line, and yaw one of its two directions.
- **ViewerFrames.** `Perform` runs one creating or destroying call of a script
  (`InitScript`, `RecreateScript`, `CleanupScript`), which may fail; the other
  actions are the statements of `drawFrame` and `recreateSwapChain`. Each wait
  is an action that is enabled when the wait would return.
- **RuntimeWorld.** `BeginTick`, one `ApplyNext` per recorded input, and
  `EndTick` are the statements of `advanceFixedTick`; `BeginFrame`, `EndFrame` and the loop
  condition are `runWithRenderCadence`. The sort compares actors only and is
  not stable, so inputs of one actor come in any order. Time is an integer; each sum of
  the accumulator may be off by `Rounding`, and `Slack` is the code's 1e-9. The
  state hash is the record of what it covers, compared as a value.
- **AuthoringScene.** An id is a number in the order of the strings, a value is
  `"good"`, `"bad"` (the validator names it) or `"notANumber"`. A save is three
  steps, for the stream is truncated when it is opened and written in pieces.
- **StateProtocol.** A datagram is its sequence of bits; the layouts are
  translated at the real widths (22, 16, 8 and 4 bits). `Ends` is where the writer's
  and the reader's `m_bitOffset` stand after each field; `WriteFields` writes every
  field's bits there (`Bit`), `ReadFields` sums them up again (`Number`). A coordinate
  is counted in parts of the step it is rounded to, in the run quarters.
- **CommandLine, HostProcess.** A line is a sequence of words, and parsing keeps
  what is not consumed yet. `Takes` says which word `stoul` and `stof` convert.
  Each call `writeResultFile` makes is a step, which may fail; `Killed` ends the
  process between any two.

## 3. Runs

| Run | Configuration and bounds | What it shows |
|---|---|---|
| `relay` | 3 endpoints, ids 1-3, one sequence number, yaws 0-2 | the relay's properties and the refinement of `RelaySessions` |
| `actors` | 4 ids, the own one and three that come and go; batches of up to two datagrams per frame | vectors and indexes, and the refinement of `ViewerRoster` |
| `system` | 3 viewers of which two have one id, with takeover, crash, server failure and restart; 2 with duplication and reordering; 2 that publish for longer | viewers with sessions know each other when all is quiet; poses of a peer never go back |
| `system_served` | no losses with two processes competing for an id; losses and reordering with ticks that wrap | the single connect is served, the single disconnect is final; viewers with sessions come to show each other |
| `system_ghost` | violation, 2 viewers, no fault | a departed peer's actor stays (below) |
| `viewer_controls` | an arena of five places, ticks of two time units, frames shorter than a tick and longer than the catch-up limit, two saves of two good texts, a bad one, or a removal | reload, modes, click-to-move |
| `viewer_frames` | 3 images, 1 frame in flight (the code's value), two sizes and minimised, every call may fail | frame loop and object lifetimes |
| `frames_viewport` | violation | drawing and picking disagree after a resize (below) |
| `world` | 2 actors, logs of four inputs, frames shorter and longer than a tick, four frames | ticks match time, moved bodies are seen, the refinement of `FixedTicks` |
| `content` | scenes of up to three objects and spawn points of every defect, three edits | saves that are cut short do not load; compiled ids resolve |
| `codec` | every kind of packet with the ends of its fields; every cut, added bits, every single flipped bit; relayed twice | decoding and relaying |
| `host` | all lines of up to four words for both hosts, then two more runs of up to two words; every failure and a kill at every call | the grammar, and what a reader of the result file may conclude |

**Why the bounds are enough.** Three ids on three endpoints is the least that
has a claim, a rebind and a bystander at the same time, so every combination of
two removals and an insertion in one `ingest` occurs. One sequence number is
enough because the relay compares none. A yaw range of three values has zero,
the full turn and one other. Four actors are the least in which one with actors
on both sides is erased and an index beyond the next one has to move.
Two-datagram batches contain each pair of an event and a snapshot in both
orders. Three viewers, two of them with one id, give takeovers with a bystander.
In `viewer_controls` two saves are enough for one to fall inside the reload that
the other caused. In `viewer_frames` three images are what a mailbox swapchain
commonly has; with one frame in flight two would do. In `world` frames of a
third, two thirds and twice a tick, each sum off by one of sixty, reach the case
in which a tick is due only because of the slack. In `host` four words hold an
option with its value twice, and three runs a file left by a run before the last. In
`codec` two hops show what the relay makes of its own packets.

The bounds are named constants or fields: `lastTick`, the tick at which a
process stops publishing, `inFlight`, the length of a queue at which it does,
`MaxEdits`, `MaxFrames`, `MaxHops`, `LongestLine`, `ShortLine` and `MaxRuns`. In the
lossy setting of `system_served` ticks wrap below `lastTick`, so publishing goes
on. `viewer_controls` allows saves once the viewer has started (below).

**Fairness.** `RelaySystem`: viewers that run pump and publish (weak fairness),
because `mainLoop` does both in each round; the server finishes its loop body
(weak) and takes from every queue (strong, because it is busy with other
endpoints in between, and the operating system hands out datagrams in the order
they arrive). Of datagrams sent again and again to one socket, not all are lost
(strong): without it no protocol without acknowledgements could promise anything.
Nobody is obliged to start, close, crash or restart. `ViewerControls`: the thread is
scheduled (weak fairness of its steps together, since one thread has one next
step); nobody is obliged to save. `ViewerFrames`: the thread, the GPU and the
engine go on, and window events keep coming. The last is needed because
`glfwWaitEvents` returns only for an event, and after a restored window the code
asks for one more than the restoring itself (`:1227-1230`). The other modules
state safety only: their processes may end anywhere.

**Deadlock** is checked except where the programs may stop for good; there the
configuration says so. `ViewerFrames` has an explicit step for the ended
program, so that a thread that waits for itself is found as a deadlock.

## 4. Disagreements between code and documents

- `system_ghost`: `SnapshotClient::receive` sorts a batch into events and
  snapshots, and the pump applies all events first. A viewer that drains a
  peer's last snapshot together with the disconnect that followed it removes the
  actor and creates it again; it stays on the screen.
- `frames_viewport`: the viewport and scissor are part of the pipelines, built
  once; after a resize the frame is drawn with the first extent and clicks are
  projected back with the new one.

Also met while modelling, without a run.

In the viewer and the network:

- `loadInitialControlProfile` reads the file and then asks for its time
  (`vulkan_scene_viewer.cpp:399`): a save in between is recorded as seen and
  never read, though `docs/control-profile.md:3` promises a swap when the file
  changes. `maybeReloadControlProfile` has the right order, which
  `ActiveProfileIsCurrent` and `EditsTakeEffect` confirm for saves after the start.
- The loop in `recreateSwapChain` that waits for a size (`:1227`) does not look at
  `glfwWindowShouldClose`: a window closed while minimised keeps the process
  running (`README.md:95`: "The viewer keeps running until the window is closed.").
- The size is read before the event is waited for (`:1228`), so a window that is
  restored and minimised again gets a swapchain of extent zero.
- `cleanupSwapChain` destroys the depth view before the framebuffers made of it
  (`:1159-1163`), on every resize and at the end. Vulkan allows that: a framebuffer may
  outlive a view as long as it is not used. `LifetimesNest` makes this one exception, and
  asks for an idle GPU and for the framebuffers to be destroyed by the very next call.
- The shader modules and a model buffer are lost when `createPipelines` or
  `createVertexBuffers` throws (`AllReleased` names them as the only exceptions).
- An endpoint that connects again under another id is told of its own former id,
  since the list of existing clients is copied before that session is removed
  (`snapshot_relay.cpp:45`); no client in this repository does this.

In the hosts, the world and the content:

- A write that falls short is not noticed by `writeResultFile` (`host_cli.cpp:218`) or
  by `saveAuthoringScene`: the exit code is 0 and the file is torn.
  `ResultsAreWholeAndFresh` excepts a full disk for this reason.
- An error whose message is not UTF-8, for it may quote a word of the line, is not
  reported: writing it as JSON throws (`host_cli.cpp:218`), and an empty temporary stays.
- A viewer that refuses its command line, and a probe whose common options do
  not parse, write no result file (`docs/tickets/SP1-002-host-cli-results.md:94`:
  "Viewer result files must still be written on handled exceptions where possible.").
- `std::stoul` takes `-1`: `--seed -1` is accepted everywhere, `--frames -1` as
  4294967295 where `unsigned long` has 32 bits.
- `runtime_world.cpp:70-71` lets a backpedalling actor sprint at the third of the
  sprint's speed, while `docs/input-pipeline.md` has backward movement ignore sprint, as
  the viewer does.
- `saveAuthoringScene` truncates the file and writes in place
  (`docs/action_combat_engine_editor_design.md:404`: "Save through a temporary file
  followed by atomic replace."). `LoadsWhatWasSaved` shows that a torn file never
  loads; the scene saved before is gone all the same.
- The validator names missing parents but accepts cycles (the same document,
  `:430`: "... missing parents, and cycles are rejected."), and the compiled world
  has no parents at all. `saveAuthoringScene` does not validate: a coordinate that is
  no number is saved as `null`, which makes a file that cannot be loaded again.

## 5. Proofs

In each proof module the inductive invariant strengthens the property by what
the code relies on without saying so; lemmas state what the operators do, and
each action is a lemma or a step of its own.

**`RelaySystem_proofs`** proves of the relay by itself, for every set of endpoints and client ids, every
sequence range and every yaw range, that all reachable states satisfy
`RelayTypeOK`, `OwnershipAgrees`, `CacheBelongsToSessions`, `OutputsReachPeers` and
`RelayedSnapshotIsCached`, that every step satisfies `SessionsEndByOwnerOrClaim` and
`NewcomerSeesWorld`, and that the relay implements `RelaySessions`. The
inductive invariant is `Consistent`: the types, the two session maps as inverse
partial functions, the cache inside the sessions, and the last outputs following
from the maps. Inverseness alone is not inductive: without the cache inside the
sessions and each entry carrying its own id, a removal could leave a snapshot
or an index entry that the next connect brings back. Assumptions: client ids are
1..255 and sequences 0..65535, as on the wire; `None` is no endpoint, id or
packet; yaws have a range of at least one.

**`NetworkActors_proofs`** proves `ActorsTypeOK`, `IndexTableExact`,
`PlayerSpeedFollowsPlayer`, `DrawnLinesAreCurrent` and `NetworkNeverMovesOwnActor`,
and that `NetworkActors` implements `ViewerRoster` (`ImplementsRoster`), for any number
of clients and any batches. Its
inductive invariant `ActorsInv` adds to the properties that both vectors have one
length and one index per actor (`GoodScene`), that lines not marked dirty are
the uploaded ones, that none are dirty between frames, and that instances show
the actors' transforms except while a pump has moved some (`Placed`). Erasing is
the hard step: every later index is shifted, and the shifted map is exact for the
shortened vectors. For the refinement, the rest of a batch applied to the poses so far
is always the whole batch applied to the poses at its start; that rests on
`SnapshotBatch_proofs`, which says what the loop of `receive` keeps, and what one more
event or snapshot at the front of a batch changes. Assumptions: the own id is a client
id, the spawn pose a pose, `None` neither an index nor a pose, and what arrives is of the
four kinds of packets.

**`RelaySystem_proofs`** proves of viewers, network and relay together, for any processes, ids, queues of any length and any mix
of faults:

- `SystemTypeOK`, from `Sound`: beside the types, that a process sends packets of its own
  id and facing only, that an endpoint's session is of the id its process was started
  with, that nothing waits for a process that does not run, and the relay's own
  `Consistent`.
- `NoPeerMissing` where `Announcing` holds: no datagram is lost, and where datagrams
  overtake each other no two processes use one id. Without the first the single
  announcement can be lost; without the second a late disconnect of a displaced process
  arrives after the connect of the one that took its id. The inductive
  invariant is `AllHeard`: of two viewers with sessions, each shows the other
  or has an announcement of it on its way which no dismissal follows (`Heard`).
- `FollowsHolder`, if a process ends before its 16-bit ticks wrap, which is what the
  property can promise: behind the wrap a later pose has a smaller tick. `AllFollowed`
  says that ticks ascend along the whole way of a snapshot, from the queue to the server
  (`Ascends`) over the relay's cache and outputs (`Relays`) and the queue to each viewer to
  the pose that is shown (`Follows`), and that nothing of a process is anywhere before
  it has connected (`Unseen`). The last is needed because a displaced process and its
  successor share an id but not a facing.

Assumptions: every process has a facing of its own, by which a pose tells who published
it; a spawn pose is no snapshot's.

**`RuntimeWorld_proofs`** proves `WorldTypeOK`, `MovedIsSeen` and that `RuntimeWorld` implements
`FixedTicks` (`ImplementsFixedTicks`), for any spawn points, tuning, log, frame lengths,
rounding and order of the sort. `WorldInv` says, within a tick, which of its
inputs are done and that an actor is then what `Respond` makes of the one that
was recorded for it, or still what `Rest` leaves; between ticks nothing is owed.
The refinement maps the abstract tick to `EndTick` and every other step to a stutter.
It also proves `TicksMatchTime`, if tick and frames are multiples of a grain of time,
and what the sums can be off by over all the frames is within the slack of the loop's
condition and with it less than a grain: `TimeInv` says that the accumulator is
the time not yet simulated, off by at most so much for each frame drawn. The hypothesis
is what the slack needs to be right: with more frames a tick comes late, with
a finer grain one may come early. In the run the grain is 20, the slack 4, and each of the four frames
off by at most 1.
Assumptions: speeds are positive integers and a backward step is no way of zero.

**`AuthoringScene_proofs`** proves `LoadsWhatWasSaved` and `CompiledWorldResolves`, for any
documents, edits and number of objects and spawn points. `ContentInv` says that the
document being written is the one of the scene in memory, and that the file is not
whole then; that a whole file is of the scene last written whole or was written by hand;
and that the scene in memory, when it was read from that file, is `Alike` the one
that was saved: the same but for the order in which it lists objects, spawn points, masks
and tags. `SceneReadBack` and `DocumentIsRead` are the way of a scene through
`saveAuthoringScene` and back, a field at a time; the order is lost there, for
`std::sort` leaves open how equal keys are arranged. So the property rests on three
facts about scenes that are alike: they have the same errors (`SameErrors`), the same
documents (`SameDocuments`) and the same meaning (`SameMeaning`). For a valid
scene `std::sort` leaves nothing open: ids occur once, so an element's
place in any sorting counts the ids before it (`RisingCounts`), and there is one
sorting (`SortingIsOne`). Assumptions: edits are scenes, documents have the fields of a
document, and `None` is none of the values they hold.

**`HostProcess_proofs`** proves `AcceptsExactly`, `ExitMatchesResult` and
`ResultsAreWholeAndFresh`, for any words, lines of any length and any number of runs.
`HostInv` says what the temporary holds at each call, that a file of the present run
appears only by its rename, and that nothing is claimed by a process that was killed.
For the command line, `HasRead` says what is consumed once some of the options have been
looked for: the first place of each and, if it takes one, its value. It is kept by one
more option because what one option consumes is no place of another (`EatenApart`), and
so the order of the code does not matter; at the end what is consumed is the whole line
exactly if the line is of the grammar. Assumption: no option is one of the words
without dashes, and no word is of both kinds.

**`Viewer_proofs`** proves of the controls `ControlsTypeOK`, `ProfileIsOfOneFile`,
`ActiveProfileIsCurrent`, `SteeringForgetsTarget` and `SquaresAreCurrent`, for any
contents of the file and any keys, clicks, frame lengths and number of saves. The
inductive invariant `ControlsInv` says of a reload that is under way: if the file
still has the time that was looked at and loads, what was read is what it holds
(`ReloadOK`). That is why the order of the look and the reading matters. `Tidy`
relates mode, target, lines and the flag for their upload at every statement of
a frame. Assumptions: what loads is a tuning, and a tick takes time.

**`Viewer_proofs`** proves of the frames `FramesTypeOK` for any number of frames in flight, and
`WorkIsUndisturbed` for `FramesInFlight = 1`, the code's `kMaxFramesInFlight`; with
two it is false, for there is one line buffer. `WorkInv` says that the GPU has work
only between a submission and the wait for its fence (`GpuPart`), that fence and
semaphore are never both signalled but just after an acquisition (`FencePart`),
that an image that can be acquired has no work and no signal left (`ImagePart`),
and what remains of the lists of calls (`ListPart`): the device is destroyed by
cleanup only, and `recreateSwapChain` makes new semaphores before it makes new
images. Without the last, an image could be acquired whose semaphore is still
signalled.

It also proves `LifetimesNest`, for any number of frames in flight and any
failures, with an object made from all the objects its creation names (`MadeFrom`):
`LifeInv` says which members hold an object after `k` calls of the list
the thread is in (`InitLeaves`, `RecreateLeaves`, and for cleanup what is gone at
least), and that outside the lists there are all of them. What a prefix of a list leaves is
nested because an object's place is after its parents' in `initVulkan` and before
them in `cleanup`, and `recreateSwapChain` replaces a parent only with its children.
The exception is the depth view, which `cleanupSwapChain` destroys one call before the
framebuffers: `ParentsAround` finds no other pair, and `IdlePart` (in a list of calls the
GPU has no work) is needed to say that nothing can use them then.

**`StateProtocol_proofs`** proves `DatagramsMeanThePacket` and `RelayedBitsAreKept`, for
any packets, sent and relayed any number of times, and any even number of parts of a
step. `CodecInv` says that what was received is what the datagram decodes to, and that a
datagram nobody cut or flipped is the encoding of some packet, with more bits behind it
perhaps, which says what was sent. The packet that is encoded
is not the one that was sent once the relay has rounded it: so the invariant needs that
rounding a second time changes nothing (`SaysWhatTheWireSaid`), not for the sent packet
but for any that says what it said. The rest are facts about one field, then about
all fields of a layout, then about a packet:

- A number is the sum of its bits and the bits of a sum are its bits (`BitsOfNumber`,
  `NumberFromBits`), for unsigned fields and for two's complement (`FitsUnsigned`,
  `FitsSigned`).
- Every bit of a datagram belongs to one field (`EveryBit`), so what is written is read
  (`FieldsReadBack`) and what is read is written again (`FieldsWrittenBack`).
- Hence decoding an encoded packet gives what the wire rounds it to (`EncodedIsDecoded`),
  whatever decodes is encoded to the same bits (`RelayedIsReceived`), and a datagram that
  is cut is too short for its kind (`CutIsNothing`).
- A yaw of the full turn decodes to `FullTurn`, which the encoder reduces to zero: the
  one value that is not kept (`YawKept`, `FullTurnIsNoTurn`).

Assumptions: the fields of a packet hold what their C++ integers hold, the parts of a
step are a positive even number (so that half a step is a number of parts), and `None`
and `Pending` are neither packets nor kinds.

**Induction over data.** The library's induction theorems take an operator, which
the installed provers cannot instantiate. `NumbersUpTo` (`SnapshotBatch_proofs`) is the
induction on numbers said of a set, from the least element of a well-founded
order, and reaches recursive functions such as `Kept`, the loop of `receive`; likewise
in `HostProcess_proofs` the loop over a list of options, and in `StateProtocol_proofs`
the loops over bits and over fields (`LoopExists`: such a recursive function exists).

**Only model-checked.** Everything temporal under fairness (`ConnectsAreServed`,
`ClosedAreForgotten`, `ViewersMeet`, `EditsTakeEffect`, `WalksArrive`,
`FrameCompletes`, `ResizeFollows`), which the prover does not reach. Every other
property of a passing run is a theorem. Four theorems need a hypothesis,
which the text above gives and the constants of their runs meet: `NoPeerMissing`
(`Announcing`), `FollowsHolder` (no process publishes behind the wrap of its ticks),
`WorkIsUndisturbed` (one frame in flight) and `TicksMatchTime` (the grain of time). The type invariants of `SnapshotRelay`,
`NetworkActors`, `RuntimeWorld` and `ViewerControls` are proved and not checked again.

## 6. Not modelled

Socket set-up, where a datagram longer than the buffer makes `recvfrom` fail and
ends the process; console output; the content of frames; gamepad, camera
distance and pitch, window title, sparring partner with
`applyCharacterLocomotion`, and interpolation; single JSON fields of the control
profile with their fall-backs; float arithmetic below half a quantisation step
and coordinates beyond 2^31 steps; two hosts at once on one result file, for
which the code promises nothing; scene loading and geometry (pure functions in
floating point, called once); `toolchain_probe`, scripts and shaders.

## 7. Plan

Done: relay, actors and their abstract specifications; the composition;
controls; frames; runtime world with its refinement; content; codec; command line
and result file; proofs of all of these.

Next, in this order:

1. The sparring partner in `ViewerControls`, which shares ticks and lines with
   the player.
2. `loadScene` and the bounds of a scene, over small documents.
