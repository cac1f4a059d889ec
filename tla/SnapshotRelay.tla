---------------------------- MODULE SnapshotRelay ----------------------------
(***************************************************************************)
(* The session core of the UDP state relay: class SnapshotRelay of         *)
(* src/network/snapshot_relay.{hpp,cpp}.                                   *)
(*                                                                         *)
(* The object keeps three hash maps, here the three fields of `relay`; a   *)
(* key that is not in a map is mapped to None.  Its one mutating operation *)
(* is ingest(endpointKey, packet), here the action Ingest(e, p); what the  *)
(* call returns is kept in `result`, together with the endpoint it was     *)
(* called for.  The maps are unordered, so the outputs vector of a call is *)
(* kept as the set of its elements (no call emits the same output twice).  *)
(***************************************************************************)
EXTENDS Integers

CONSTANTS
    Endpoints,  \* "host:port" strings of the peers' sockets
    ClientIds,  \* the nonzero client ids in use
    Sequences,  \* values of the 16-bit sequence and tick fields
    YawMax,     \* largest quantized yaw on the wire (65535 in the code)
    None        \* "no entry in the map" / std::nullopt

ASSUME ClientIdsAssumption == ClientIds \subseteq 1..255
ASSUME SequencesAssumption == Sequences \subseteq 0..65535
ASSUME YawMaxAssumption == YawMax \in Nat \ {0}

(***************************************************************************)
(* Packets, decoded.  A snapshot carries the fields a property tells       *)
(* apart: owner, tick and yaw; flags and position ride along unchanged.    *)
(***************************************************************************)
EventKinds == {"clientConnected", "clientDisconnected"}

WireIds == ClientIds \cup {0}

ConnectPackets == [kind : {"connect"}, clientId : WireIds, sequence : Sequences]

DisconnectPackets ==
    [kind : {"disconnect"}, clientId : WireIds, sequence : Sequences]

ActorSnapshots ==
    [kind : {"snapshot"}, clientId : WireIds, tick : Sequences, yaw : 0..YawMax]

ServerEventPackets ==
    [kind : {"serverEvent"}, event : EventKinds, clientId : WireIds,
     sequence : Sequences]

Packets ==
    ConnectPackets \cup DisconnectPackets \cup ActorSnapshots \cup ServerEventPackets

ServerEvent(event, c, seq) ==
    [kind |-> "serverEvent", event |-> event, clientId |-> c, sequence |-> seq]

RelayOutput(e, p) == [to |-> e, packet |-> p]

RelayOutputs == [to : Endpoints, packet : ActorSnapshots \cup ServerEventPackets]

ClientSessions ==
    [clientId : ClientIds, endpointKey : Endpoints, lastSequence : Sequences]

ASSUME NoneAssumption ==
    /\ None \notin Endpoints
    /\ None \notin ClientIds
    /\ None \notin Packets
    /\ None \notin ClientSessions

\* MUTANT of Reencoded: a full turn is clamped to the yaw before it, not wrapped.
Reencoded_Clamped(s) == IF s.yaw = YawMax THEN [s EXCEPT !.yaw = YawMax - 1] ELSE s

\* encodeActorSnapshot of a decoded snapshot.  A full turn decodes to 360.0
\* degrees, which quantizeYaw wraps to 0; every other field and every other
\* yaw encodes to the value it was decoded from.
Reencoded(s) == IF s.yaw = YawMax THEN [s EXCEPT !.yaw = 0] ELSE s
-----------------------------------------------------------------------------
VARIABLES
    relay,   \* the SnapshotRelay object: its three maps
    result   \* the RelayResult of the last ingest call, and its endpointKey

relayVars == <<relay, result>>

Session(c) == relay.clientsById[c]

Sessions == {c \in ClientIds : Session(c) # None}

\* The sessions a call fans out to: all but that of the client itself.
Peers(c) == Sessions \ {c}

EmptyRelay ==
    [clientsById |-> [c \in ClientIds |-> None],
     clientIdByEndpoint |-> [e \in Endpoints |-> None],
     latestSnapshotsByClientId |-> [c \in ClientIds |-> None]]

RelayResult(e, packet, accepted, outputs) ==
    [from |-> e, packet |-> packet, accepted |-> accepted, outputs |-> outputs]

NoResult == RelayResult(None, None, FALSE, {})

RelayInit == relay = EmptyRelay /\ result = NoResult

\* MUTANT of EndpointOwnsClient: any live session will do.
EndpointOwnsClient_AnySession(e, c) == c \in Sessions

EndpointOwnsClient(e, c) == relay.clientIdByEndpoint[e] = c

\* MUTANT of RemoveEndpoint: only the endpoint's own entry is erased.
RemoveEndpoint_EntryOnly(r, e) == [r EXCEPT !.clientIdByEndpoint[e] = None]

\* Forget endpoint e: its entry, its client's cached snapshot, and the session
\* if that session still names e.
RemoveEndpoint(r, e) ==
    LET c == r.clientIdByEndpoint[e]
    IN  IF c = None THEN r
        ELSE [clientsById |->
                [d \in ClientIds |->
                    IF /\ d = c
                       /\ r.clientsById[d] # None
                       /\ r.clientsById[d].endpointKey = e
                    THEN None ELSE r.clientsById[d]],
              clientIdByEndpoint |-> [r.clientIdByEndpoint EXCEPT ![e] = None],
              latestSnapshotsByClientId |->
                [r.latestSnapshotsByClientId EXCEPT ![c] = None]]

\* MUTANTS of RemoveClient: the endpoint's entry, or the cached snapshot, stays.
RemoveClient_KeepsEndpoint(r, c) ==
    [r EXCEPT !.clientsById[c] = None, !.latestSnapshotsByClientId[c] = None]

RemoveClient_KeepsCache(r, c) ==
    IF r.clientsById[c] = None THEN r
    ELSE [r EXCEPT !.clientsById[c] = None,
                   !.clientIdByEndpoint[r.clientsById[c].endpointKey] = None]

\* Forget client c: its endpoint's entry, its cached snapshot, its session.
RemoveClient(r, c) ==
    IF r.clientsById[c] = None THEN r
    ELSE [clientsById |-> [r.clientsById EXCEPT ![c] = None],
          clientIdByEndpoint |->
            [r.clientIdByEndpoint EXCEPT ![r.clientsById[c].endpointKey] = None],
          latestSnapshotsByClientId |->
            [r.latestSnapshotsByClientId EXCEPT ![c] = None]]

\* Enter the session of client c at endpoint e.
InsertSession(r, e, c, seq) ==
    [clientsById |->
        [r.clientsById EXCEPT ![c] =
            [clientId |-> c, endpointKey |-> e, lastSequence |-> seq]],
     clientIdByEndpoint |-> [r.clientIdByEndpoint EXCEPT ![e] = c],
     latestSnapshotsByClientId |-> r.latestSnapshotsByClientId]

\* Note the sequence (of a connect, or the tick of a snapshot) client c sent.
NoteSequence(r, c, seq) ==
    [clientsById |->
        [r.clientsById EXCEPT ![c] = [r.clientsById[c] EXCEPT !.lastSequence = seq]],
     clientIdByEndpoint |-> r.clientIdByEndpoint,
     latestSnapshotsByClientId |-> r.latestSnapshotsByClientId]

\* Remember s as the last snapshot of client c.
CacheSnapshot(r, c, s) ==
    [clientsById |-> r.clientsById,
     clientIdByEndpoint |-> r.clientIdByEndpoint,
     latestSnapshotsByClientId |-> [r.latestSnapshotsByClientId EXCEPT ![c] = s]]

\* The three maps after endpoint e connects as client c.
Rebound(r, e, c, seq) ==
    InsertSession(RemoveClient(RemoveEndpoint(r, e), c), e, c, seq)

\* MUTANT of ConnectOutputs: the newcomer is not sent the cached world.
ConnectOutputs_EventsOnly(existing, latest, e, c, seq) ==
    UNION {{RelayOutput(e, ServerEvent("clientConnected", peer.clientId,
                                       peer.lastSequence)),
            RelayOutput(peer.endpointKey, ServerEvent("clientConnected", c, seq))}
           : peer \in existing}

\* What a new session at e gets to hear of, and what the others hear of it.
\* `existing` was copied before the removals, the cache is read after them.
ConnectOutputs(existing, latest, e, c, seq) ==
    UNION {{RelayOutput(e, ServerEvent("clientConnected", peer.clientId,
                                       peer.lastSequence)),
            RelayOutput(peer.endpointKey, ServerEvent("clientConnected", c, seq))}
           \cup {RelayOutput(e, Reencoded(s)) :
                    s \in {latest[peer.clientId]} \ {None}}
           : peer \in existing}
-----------------------------------------------------------------------------
\* decodePacket fails: nothing happens, result.packet stays empty.
IngestUndecodable(e) ==
    /\ result' = RelayResult(e, None, FALSE, {})
    /\ UNCHANGED relay

\* MUTANT of Rejects: a connect as an id that another endpoint has is refused.
Rejects_TakenIds(e, p) ==
    \/ p.kind = "serverEvent"
    \/ p.clientId = 0
    \/ p.kind = "connect" /\ Session(p.clientId) # None /\ ~EndpointOwnsClient(e, p.clientId)
    \/ p.kind \in {"disconnect", "snapshot"} /\ ~EndpointOwnsClient(e, p.clientId)

\* The early returns: id 0, an id the endpoint does not own, a server event.
Rejects(e, p) ==
    \/ p.kind = "serverEvent"
    \/ p.clientId = 0
    \/ p.kind \in {"disconnect", "snapshot"} /\ ~EndpointOwnsClient(e, p.clientId)

IngestRejected(e, p) ==
    /\ Rejects(e, p)
    /\ result' = RelayResult(e, p, FALSE, {})
    /\ UNCHANGED relay

\* A connect from the endpoint that already owns the id only notes its sequence.
IngestDuplicateConnect(e, p) ==
    /\ p.kind = "connect" /\ ~Rejects(e, p)
    /\ EndpointOwnsClient(e, p.clientId)
    /\ relay' = NoteSequence(relay, p.clientId, p.sequence)
    /\ result' = RelayResult(e, p, TRUE, {})

IngestConnect(e, p) ==
    LET existing == {Session(c) : c \in Peers(p.clientId)}
        rebound == Rebound(relay, e, p.clientId, p.sequence)
    IN  /\ p.kind = "connect" /\ ~Rejects(e, p)
        /\ ~EndpointOwnsClient(e, p.clientId)
        /\ relay' = rebound
        /\ result' = RelayResult(e, p, TRUE,
              ConnectOutputs(existing, rebound.latestSnapshotsByClientId,
                             e, p.clientId, p.sequence))

IngestDisconnect(e, p) ==
    /\ p.kind = "disconnect" /\ ~Rejects(e, p)
    /\ relay' = RemoveClient(relay, p.clientId)
    /\ result' = RelayResult(e, p, TRUE,
          {RelayOutput(Session(c).endpointKey,
                       ServerEvent("clientDisconnected", p.clientId, p.sequence))
           : c \in Peers(p.clientId)})

\* A snapshot is cached as decoded and fanned out as the bytes that came in.
IngestSnapshot(e, p) ==
    /\ p.kind = "snapshot" /\ ~Rejects(e, p)
    /\ relay' = CacheSnapshot(NoteSequence(relay, p.clientId, p.tick), p.clientId, p)
    /\ result' = RelayResult(e, p, TRUE,
          {RelayOutput(Session(c).endpointKey, p)
           : c \in Peers(p.clientId)})

Ingest(e, p) ==
    \/ IngestRejected(e, p)
    \/ IngestDuplicateConnect(e, p)
    \/ IngestConnect(e, p)
    \/ IngestDisconnect(e, p)
    \/ IngestSnapshot(e, p)

RelayNext ==
    \E e \in Endpoints : \/ IngestUndecodable(e)
                         \/ \E p \in Packets : Ingest(e, p)

RelaySpec == RelayInit /\ [][RelayNext]_relayVars
-----------------------------------------------------------------------------
(***************************************************************************)
(* Properties.                                                             *)
(***************************************************************************)
RelayMaps ==
    [clientsById : [ClientIds -> ClientSessions \cup {None}],
     clientIdByEndpoint : [Endpoints -> ClientIds \cup {None}],
     latestSnapshotsByClientId : [ClientIds -> ActorSnapshots \cup {None}]]

\* Every map holds entries of its type; every result names a real output.
RelayTypeOK ==
    /\ relay \in RelayMaps
    /\ result.from \in Endpoints \cup {None}
    /\ result.packet \in Packets \cup {None}
    /\ result.accepted \in BOOLEAN
    /\ result.outputs \subseteq RelayOutputs

\* The two session maps are inverses of each other: endpoint e is entered for
\* client c exactly when the session of c names e.  Four different operations
\* edit both maps; one that forgot one of them would leave an endpoint that
\* publishes for a session it lost, or a session nobody can end.
OwnershipAgrees ==
    \A e \in Endpoints, c \in ClientIds :
        relay.clientIdByEndpoint[e] = c
            <=> Session(c) # None /\ Session(c).endpointKey = e

\* A cached snapshot belongs to a live session, under that session's id: no
\* operation leaves the world state of a departed client for newcomers.
CacheBelongsToSessions ==
    \A c \in ClientIds :
        /\ Session(c) # None => Session(c).clientId = c
        /\ relay.latestSnapshotsByClientId[c] # None =>
              /\ Session(c) # None
              /\ relay.latestSnapshotsByClientId[c].clientId = c

\* Everything ingest sends goes to an endpoint that has a session once the call
\* returns, and no endpoint is sent a snapshot of the client it owns itself.
OutputsReachPeers ==
    \A o \in result.outputs :
        /\ relay.clientIdByEndpoint[o.to] # None
        /\ o.packet.kind = "snapshot" =>
              relay.clientIdByEndpoint[o.to] # o.packet.clientId

\* The live fan-out (bytes copied) and the replay to a newcomer (cache encoded
\* again) tell every peer the same state the relay caches: same client, same
\* tick, same heading up to a full turn.
RelayedSnapshotIsCached ==
    \A o \in result.outputs :
        o.packet.kind = "snapshot" =>
            \E s \in {relay.latestSnapshotsByClientId[o.packet.clientId]} \ {None} :
                /\ s.clientId = o.packet.clientId
                /\ s.tick = o.packet.tick
                /\ s.yaw % YawMax = o.packet.yaw % YawMax

\* A packet ends or moves only the session of the endpoint it came from, unless
\* it is a connect that claims that very id: a stale disconnect or snapshot of a
\* displaced client never touches the session of the client that replaced it.
SessionsEndByOwnerOrClaim ==
    [][\A c \in Sessions :
          \/ Session(c)' # None /\ Session(c)'.endpointKey = Session(c).endpointKey
          \/ result'.from = Session(c).endpointKey
          \/ result'.packet.kind = "connect" /\ result'.packet.clientId = c
      ]_relayVars

\* When a client id gets a session at an endpoint it did not have before, the
\* newcomer is told of every other session and of its cached snapshot, and every
\* other session is told of the newcomer, in that same call.
NewcomerSeesWorld ==
    [][\A c, d \in ClientIds :
          /\ Session(c)' # None
          /\ Session(c) = None \/ Session(c)'.endpointKey # Session(c).endpointKey
          /\ d # c /\ Session(d)' # None
          => /\ RelayOutput(Session(d)'.endpointKey,
                            ServerEvent("clientConnected", c, Session(c)'.lastSequence))
                    \in result'.outputs
             /\ RelayOutput(Session(c)'.endpointKey,
                            ServerEvent("clientConnected", d, Session(d)'.lastSequence))
                    \in result'.outputs
             /\ relay'.latestSnapshotsByClientId[d] # None =>
                    RelayOutput(Session(c)'.endpointKey,
                                Reencoded(relay'.latestSnapshotsByClientId[d]))
                        \in result'.outputs
      ]_relayVars

(***************************************************************************)
(* What the relay promises: one owner per client, one client per owner,    *)
(* and the last accepted snapshot of every owned client.                   *)
(***************************************************************************)
OwnerOf(c) == IF Session(c) = None THEN None ELSE Session(c).endpointKey

Abstract == INSTANCE RelaySessions
              WITH Snapshots <- ActorSnapshots,
                   owner <- [c \in ClientIds |-> OwnerOf(c)],
                   world <- relay.latestSnapshotsByClientId

ImplementsSessions == Abstract!Spec
=============================================================================
