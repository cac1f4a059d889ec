---------------------------- MODULE RelaySystem ----------------------------
(***************************************************************************)
(* Scene viewers, the UDP network and the relay server, composed.          *)
(*                                                                         *)
(* The server (src/udp_state_server.cpp) is SnapshotRelay behind a loop    *)
(* that receives one datagram, ingests it and sends the outputs one after  *)
(* the other.  A viewer process (src/network/snapshot_client.cpp as driven *)
(* by src/vulkan_scene_viewer.cpp) connects once, publishes a snapshot per *)
(* fixed tick, and once per frame drains its socket and applies the batch, *)
(* which SnapshotBatch gives.  A process has a socket of its own, so it is *)
(* named by its endpoint; two processes may use the same client id, and a  *)
(* process that is started again is another endpoint.                      *)
(*                                                                         *)
(* The network is not code of this repository: between two sockets it is a *)
(* queue, which the faults in Faults may disturb.                          *)
(***************************************************************************)
EXTENDS SnapshotRelay, SequencesExt

CONSTANTS
    Settings,   \* how the processes are started, and what can go wrong
    Facing,     \* the yaw a process publishes; it tells processes apart
    SpawnPose   \* the transform a new actor is created with

FaultKinds == {"lose", "duplicate", "reorder", "crash", "stop"}

\* idOf: the --net-client-id of each process, None for one that is never started.
\* modulus: 2^16 in the code.  lastTick (bound): the tick at which a process stops
\* publishing.  inFlight (bound): datagrams in a queue at which nothing more is.
ASSUME SettingsAssumption ==
    \A s \in Settings :
        /\ s.idOf \in [Endpoints -> ClientIds \cup {None}]
        /\ s.faults \subseteq FaultKinds
        /\ {s.modulus, s.inFlight} \subseteq Nat \ {0} /\ s.lastTick \in Nat
        /\ 0..(s.modulus - 1) \subseteq Sequences
ASSUME FacingAssumption ==
    /\ Facing \in [Endpoints -> 0..(YawMax - 1)]
    /\ \A v, w \in Endpoints : Facing[v] = Facing[w] => v = w
ASSUME FirstSequencesAssumption == {1, 2} \subseteq Sequences

Batch == INSTANCE SnapshotBatch

\* A pose a snapshot brings, and any pose of an actor.
SnapshotPoses == [tick : Sequences, yaw : 0..YawMax]
Poses == {SpawnPose} \cup SnapshotPoses

ASSUME PosesAssumption ==
    SpawnPose # None /\ SpawnPose \notin SnapshotPoses /\ None \notin SnapshotPoses

VARIABLES
    setting,   \* one of Settings; no step changes it
    server,    \* "running" or "stopped"
    viewers,   \* per process: how far it is, and m_networkTick
    rosters,   \* per process: the pose of the actor of every client id, or None
    toServer,  \* per process: datagrams on their way to the server
    toViewer   \* per process: datagrams on their way from the server

vars == <<setting, relay, result, server, viewers, rosters, toServer, toViewer>>

IdOf == setting.idOf
Faults == setting.faults

NoActors == [c \in ClientIds |-> None]

Init ==
    /\ RelayInit
    /\ setting \in Settings
    /\ server = "running"
    /\ viewers = [v \in Endpoints |-> [state |-> "new", tick |-> 0]]
    /\ rosters = [v \in Endpoints |-> NoActors]
    /\ toServer = [v \in Endpoints |-> <<>>]
    /\ toViewer = [v \in Endpoints |-> <<>>]

Runs(v) == viewers[v].state = "running"

\* A queue a datagram is sent into: it may be lost, arrive twice, or overtake.
Sent(queue, packet) ==
    {Append(queue, packet)}
    \cup {queue : fault \in {"lose"} \cap Faults}
    \cup {queue \o <<packet, packet>> : fault \in {"duplicate"} \cap Faults}
    \cup {InsertAt(queue, i, packet) :
              i \in IF "reorder" \in Faults THEN DOMAIN queue ELSE {}}

\* UdpSocket::sendTo.  A datagram to a stopped server, or to a process that has
\* ended, reaches no socket.
SendToServer(v, packet) ==
    IF server = "running"
    THEN \E queue \in Sent(toServer[v], packet) : toServer' = [toServer EXCEPT ![v] = queue]
    ELSE UNCHANGED toServer

SendToViewer(v, packet) ==
    IF Runs(v)
    THEN \E queue \in Sent(toViewer[v], packet) : toViewer' = [toViewer EXCEPT ![v] = queue]
    ELSE UNCHANGED toViewer
-----------------------------------------------------------------------------
(***************************************************************************)
(* Viewer processes.                                                       *)
(***************************************************************************)
\* The constructor: the own actor, then a socket and one connect.
Start(v) ==
    /\ viewers[v].state = "new" /\ IdOf[v] # None
    /\ viewers' = [viewers EXCEPT ![v].state = "running"]
    /\ rosters' = [rosters EXCEPT ![v] = [NoActors EXCEPT ![IdOf[v]] = SpawnPose]]
    /\ SendToServer(v, [kind |-> "connect", clientId |-> IdOf[v], sequence |-> 1])
    /\ UNCHANGED <<setting, relay, result, server, toViewer>>

\* MUTANT of Publish: the tick does not wrap.
Publish_Unwrapped(v) ==
    /\ Runs(v) /\ viewers[v].tick < setting.lastTick
    /\ Len(toServer[v]) < setting.inFlight
    /\ \A w \in Endpoints : Len(toViewer[w]) < setting.inFlight
    /\ SendToServer(v, [kind |-> "snapshot", clientId |-> IdOf[v],
                        tick |-> viewers[v].tick, yaw |-> Facing[v]])
    /\ viewers' = [viewers EXCEPT ![v].tick = @ + 1]
    /\ UNCHANGED <<setting, relay, result, server, rosters, toViewer>>

\* sendLocalNetworkSnapshot, once per fixed tick.
Publish(v) ==
    /\ Runs(v) /\ viewers[v].tick < setting.lastTick
    /\ Len(toServer[v]) < setting.inFlight
    /\ \A w \in Endpoints : Len(toViewer[w]) < setting.inFlight
    /\ SendToServer(v, [kind |-> "snapshot", clientId |-> IdOf[v],
                        tick |-> viewers[v].tick, yaw |-> Facing[v]])
    /\ viewers' = [viewers EXCEPT ![v].tick = (@ + 1) % setting.modulus]
    /\ UNCHANGED <<setting, relay, result, server, rosters, toViewer>>

\* A snapshot as the pump uses it: its pose is its tick (for the position) and yaw.
Posed(packet) ==
    IF packet.kind = "snapshot"
    THEN [kind |-> "snapshot", clientId |-> packet.clientId,
          pose |-> [tick |-> packet.tick, yaw |-> packet.yaw]]
    ELSE packet

\* pumpNetworkSnapshots with the first n datagrams: receive stops where the
\* socket has nothing more, or where recvfrom reports a connection reset.
Pump(v, n) ==
    /\ Runs(v)
    /\ LET drained == [i \in 1..n |-> Posed(toViewer[v][i])]
       IN  rosters' = [rosters EXCEPT ![v] =
                Batch!AfterBatch(@, IdOf[v], Batch!EventsIn(drained),
                                 Batch!SnapshotsIn(drained, IdOf[v]))]
    /\ toViewer' = [toViewer EXCEPT ![v] = SubSeq(@, n + 1, Len(@))]
    /\ UNCHANGED <<setting, relay, result, server, viewers, toServer>>

\* MUTANT of Close: the destructor sends no disconnect.
Close_Silently(v) ==
    /\ Runs(v)
    /\ viewers' = [viewers EXCEPT ![v].state = "closed"]
    /\ toViewer' = [toViewer EXCEPT ![v] = <<>>]
    /\ UNCHANGED <<setting, relay, result, server, rosters, toServer>>

\* The main loop ends: ~SnapshotClient sends one disconnect, the socket closes.
Close(v) ==
    /\ Runs(v)
    /\ viewers' = [viewers EXCEPT ![v].state = "closed"]
    /\ SendToServer(v, [kind |-> "disconnect", clientId |-> IdOf[v], sequence |-> 2])
    /\ toViewer' = [toViewer EXCEPT ![v] = <<>>]
    /\ UNCHANGED <<setting, relay, result, server, rosters>>

\* The process is killed: no destructor runs.
Crash(v) ==
    /\ "crash" \in Faults /\ Runs(v)
    /\ viewers' = [viewers EXCEPT ![v].state = "crashed"]
    /\ toViewer' = [toViewer EXCEPT ![v] = <<>>]
    /\ UNCHANGED <<setting, relay, result, server, rosters, toServer>>
-----------------------------------------------------------------------------
(***************************************************************************)
(* The server loop.  While it sends, result.outputs holds the outputs that *)
(* are not sent yet.                                                       *)
(***************************************************************************)
Receives(v) == server = "running" /\ result = NoResult /\ toServer[v] # <<>>

ServerIngests(v) ==
    /\ Receives(v)
    /\ Ingest(v, Head(toServer[v]))
    /\ toServer' = [toServer EXCEPT ![v] = Tail(@)]
    /\ UNCHANGED <<setting, server, viewers, rosters, toViewer>>

\* The outputs vector is in the order of an unordered map, but a peer's cached
\* snapshot follows the event that announces the peer.
IsNext(output) ==
    output.packet.kind = "snapshot" =>
        ~ \E o \in result.outputs : /\ o.to = output.to
                                    /\ o.packet.kind = "serverEvent"
                                    /\ o.packet.clientId = output.packet.clientId

ServerSends(output) ==
    /\ server = "running" /\ output \in result.outputs /\ IsNext(output)
    /\ SendToViewer(output.to, output.packet)
    /\ result' = [result EXCEPT !.outputs = @ \ {output}]
    /\ UNCHANGED <<setting, relay, server, viewers, rosters, toServer>>

\* All outputs are sent: the loop goes round.
ServerLoops ==
    /\ server = "running" /\ result # NoResult /\ result.outputs = {}
    /\ result' = NoResult
    /\ UNCHANGED <<setting, relay, server, viewers, rosters, toServer, toViewer>>

\* A send fails, --max-packets is reached or the process is killed: the object,
\* and the outputs not sent yet, are gone.
ServerStops ==
    /\ "stop" \in Faults /\ server = "running"
    /\ server' = "stopped"
    /\ relay' = EmptyRelay /\ result' = NoResult
    /\ toServer' = [v \in Endpoints |-> <<>>]
    /\ UNCHANGED <<setting, viewers, rosters, toViewer>>

ServerRestarts ==
    /\ server = "stopped"
    /\ server' = "running"
    /\ UNCHANGED <<setting, relay, result, viewers, rosters, toServer, toViewer>>
-----------------------------------------------------------------------------
ViewerStep(v) ==
    \/ Start(v)
    \/ Publish(v)
    \/ \E n \in 1..Len(toViewer[v]) : Pump(v, n)
    \/ Close(v)
    \/ Crash(v)

ServerStep ==
    \/ \E v \in Endpoints : ServerIngests(v)
    \/ \E output \in result.outputs : ServerSends(output)
    \/ ServerLoops
    \/ ServerStops
    \/ ServerRestarts

Next ==
    \/ \E v \in Endpoints : ViewerStep(v)
    \/ ServerStep

Spec == Init /\ [][Next]_vars
-----------------------------------------------------------------------------
(***************************************************************************)
(* Properties.                                                             *)
(***************************************************************************)
\* Every process, roster and queue holds what its type says.
SystemTypeOK ==
    /\ setting \in Settings
    /\ server \in {"running", "stopped"}
    /\ viewers \in [Endpoints -> [state : {"new", "running", "closed", "crashed"},
                                  tick : 0..(setting.modulus - 1)]]
    /\ rosters \in [Endpoints -> [ClientIds -> Poses \cup {None}]]
    /\ \A v \in Endpoints : /\ toServer[v] \in Seq(Packets)
                            /\ toViewer[v] \in Seq(Packets)

\* v is the running process that has the session of its client id.
Holds(v) == Runs(v) /\ relay.clientIdByEndpoint[v] = IdOf[v]

Knows(v, c) == rosters[v][c] # None

\* The server receives what arrives in the order it arrives and finishes its loop
\* body; a viewer runs a frame, and a fixed tick, again and again.  Of the
\* datagrams sent to a socket again and again, not all are lost.
Fairness ==
    /\ WF_vars(ServerLoops)
    /\ WF_vars(\E output \in result.outputs : ServerSends(output))
    /\ \A v \in Endpoints :
          /\ WF_vars(Publish(v))
          /\ SF_vars(ServerIngests(v))
          /\ WF_vars(\E n \in 1..Len(toViewer[v]) : Pump(v, n))
          /\ SF_vars(Publish(v) /\ toServer' # toServer)
          /\ SF_vars(\E output \in result.outputs :
                        output.to = v /\ ServerSends(output) /\ toViewer' # toViewer)

FairSpec == Spec /\ Fairness

\* Nothing is on its way any more.
Settled ==
    /\ result = NoResult
    /\ \A v \in Endpoints : toServer[v] = <<>> /\ toViewer[v] = <<>>

\* However processes start, close, crash and take over each other's ids, and
\* however the server fails between two sends and is started again: once nothing
\* is on its way, two viewers that both have a session show each other.  A viewer
\* that joins while another leaves, or whose peers' announcements are split over
\* two frames, misses nobody.
NoPeerMissing ==
    Settled => \A v, w \in Endpoints : Holds(v) /\ Holds(w) => Knows(v, IdOf[w])

\* While process w has the session of its client id, and the network brings what it
\* carries once and in order, a viewer that shows a pose of w does not go back: neither
\* to an earlier pose of w nor to one of a process w has displaced, whose snapshots may
\* still be on their way.
FollowsHolder ==
    [][{"reorder", "duplicate"} \cap Faults = {} => \A v, w \in Endpoints :
          LET shown == rosters[v][IdOf[w]]
              next == rosters'[v][IdOf[w]]
          IN  /\ Holds(w) /\ v # w /\ Runs(v) /\ IdOf[v] # IdOf[w]
              /\ shown \notin {None, SpawnPose} /\ shown.yaw = Facing[w]
              => /\ next \notin {None, SpawnPose}
                 /\ next.yaw = shown.yaw
                 /\ next.tick >= shown.tick]_vars

\* docs/network-architecture.md: "Disconnected peers are removed from the local
\* presentation scene."  So once nothing is on its way, every other actor a
\* viewer with a session shows is of a client id that has a session.
NoGhostActors ==
    Settled => \A v \in Endpoints, c \in ClientIds :
                  Holds(v) /\ Knows(v, c) => Session(c) # None

\* v's connect is on its way.
Connecting(v) ==
    Runs(v) /\ \E i \in DOMAIN toServer[v] : toServer[v][i].kind = "connect"

\* On a network that loses nothing, a viewer that keeps running gets its session
\* at some point: one connect, never acknowledged or sent again, is enough.
ConnectsAreServed ==
    \A v \in Endpoints :
        "lose" \notin Faults /\ Connecting(v) ~> (Holds(v) \/ ~ Runs(v))

\* There too, a viewer that was closed loses its session for good, whether it was
\* displaced before or not and whatever it published just before.
ClosedAreForgotten ==
    \A v \in Endpoints :
        "lose" \notin Faults /\ viewers[v].state = "closed"
            ~> [](relay.clientIdByEndpoint[v] = None)

\* Lost announcements heal: while two viewers both have a session, each comes to
\* show the other in the end, for a snapshot alone makes an actor appear.
ViewersMeet ==
    \A v, w \in Endpoints :
        []<>(Holds(v) /\ Holds(w) => Knows(v, IdOf[w]))
=============================================================================
