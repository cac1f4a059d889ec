------------------------- MODULE RelaySystem_proofs -------------------------
(***************************************************************************)
(* Theorems about the relay by itself (SnapshotRelay), and about viewers,  *)
(* network and relay together (RelaySystem), for every set of endpoints,   *)
(* every set of client ids, every way of starting the processes and queues *)
(* of any length.                                                          *)
(***************************************************************************)
EXTENDS RelaySystem, SequenceTheorems, TLAPS

BatchFacts == INSTANCE SnapshotBatch_proofs

-----------------------------------------------------------------------------
(* The relay.                                                              *)

\* OwnershipAgrees and CacheBelongsToSessions, said of any value of the maps.
Consistent(r) ==
    /\ r \in RelayMaps
    /\ \A e \in Endpoints, c \in ClientIds :
          r.clientIdByEndpoint[e] = c
              <=> r.clientsById[c] # None /\ r.clientsById[c].endpointKey = e
    /\ \A c \in ClientIds :
          /\ r.clientsById[c] # None => r.clientsById[c].clientId = c
          /\ r.latestSnapshotsByClientId[c] # None =>
                /\ r.clientsById[c] # None
                /\ r.latestSnapshotsByClientId[c].clientId = c

\* removeEndpoint keeps the maps consistent and leaves the endpoint without one.
LEMMA RemoveEndpointConsistent ==
    ASSUME NEW r, Consistent(r), NEW e \in Endpoints
    PROVE  /\ Consistent(RemoveEndpoint(r, e))
           /\ RemoveEndpoint(r, e).clientIdByEndpoint[e] = None
<1>1. CASE r.clientIdByEndpoint[e] = None
  BY <1>1 DEF RemoveEndpoint
<1>2. CASE r.clientIdByEndpoint[e] # None
  <2> DEFINE c == r.clientIdByEndpoint[e]
  <2> DEFINE q == RemoveEndpoint(r, e)
  <2>1. c \in ClientIds /\ r.clientsById[c] # None /\ r.clientsById[c].endpointKey = e
    BY <1>2 DEF Consistent, RelayMaps
  <2>2. q = [clientsById |-> [r.clientsById EXCEPT ![c] = None],
             clientIdByEndpoint |-> [r.clientIdByEndpoint EXCEPT ![e] = None],
             latestSnapshotsByClientId |->
                 [r.latestSnapshotsByClientId EXCEPT ![c] = None]]
    BY <1>2, <2>1 DEF RemoveEndpoint, Consistent, RelayMaps
  <2>3. q \in RelayMaps
    BY <2>1, <2>2 DEF Consistent, RelayMaps
  <2>4. Consistent(q) /\ q.clientIdByEndpoint[e] = None
    BY <2>1, <2>2, <2>3, NoneAssumption DEF Consistent, RelayMaps
  <2> QED BY <2>4
<1> QED BY <1>1, <1>2

\* removeClient keeps the maps consistent and leaves the client without session.
LEMMA RemoveClientConsistent ==
    ASSUME NEW r, Consistent(r), NEW c \in ClientIds
    PROVE  /\ Consistent(RemoveClient(r, c))
           /\ RemoveClient(r, c).clientsById[c] = None
           /\ \A e \in Endpoints :
                 r.clientIdByEndpoint[e] = None =>
                     RemoveClient(r, c).clientIdByEndpoint[e] = None
<1>1. CASE r.clientsById[c] = None
  BY <1>1 DEF RemoveClient
<1>2. CASE r.clientsById[c] # None
  <2> DEFINE e == r.clientsById[c].endpointKey
  <2> DEFINE q == RemoveClient(r, c)
  <2>1. e \in Endpoints /\ r.clientIdByEndpoint[e] = c
    BY <1>2 DEF Consistent, RelayMaps, ClientSessions
  <2>2. q = [clientsById |-> [r.clientsById EXCEPT ![c] = None],
             clientIdByEndpoint |-> [r.clientIdByEndpoint EXCEPT ![e] = None],
             latestSnapshotsByClientId |->
                 [r.latestSnapshotsByClientId EXCEPT ![c] = None]]
    BY <1>2 DEF RemoveClient
  <2>3. q \in RelayMaps
    BY <2>1, <2>2 DEF Consistent, RelayMaps
  <2>4. Consistent(q)
    BY <2>1, <2>2, <2>3, NoneAssumption DEF Consistent, RelayMaps
  <2>5. q.clientsById[c] = None
    BY <2>2 DEF Consistent, RelayMaps
  <2>6. \A f \in Endpoints : r.clientIdByEndpoint[f] = None => q.clientIdByEndpoint[f] = None
    BY <2>2 DEF Consistent, RelayMaps
  <2> QED BY <2>4, <2>5, <2>6
<1> QED BY <1>1, <1>2

\* Entering a session for a free client at a free endpoint keeps consistency.
LEMMA InsertSessionConsistent ==
    ASSUME NEW r, Consistent(r), NEW e \in Endpoints, NEW c \in ClientIds,
           NEW seq \in Sequences,
           r.clientIdByEndpoint[e] = None, r.clientsById[c] = None
    PROVE  Consistent(InsertSession(r, e, c, seq))
<1> DEFINE s == [clientId |-> c, endpointKey |-> e, lastSequence |-> seq]
<1> DEFINE q == InsertSession(r, e, c, seq)
<1>1. s \in ClientSessions /\ s # None /\ s.endpointKey = e /\ s.clientId = c
  BY NoneAssumption DEF ClientSessions
<1>2. q = [clientsById |-> [r.clientsById EXCEPT ![c] = s],
           clientIdByEndpoint |-> [r.clientIdByEndpoint EXCEPT ![e] = c],
           latestSnapshotsByClientId |-> r.latestSnapshotsByClientId]
  BY DEF InsertSession
<1> HIDE DEF s
<1>3. q \in RelayMaps
  BY <1>1, <1>2 DEF Consistent, RelayMaps
<1>4. Consistent(q)
  BY <1>1, <1>2, <1>3, NoneAssumption DEF Consistent, RelayMaps
<1> QED BY <1>4

\* What a connect makes of the maps is consistent.
LEMMA ReboundConsistent ==
    ASSUME NEW r, Consistent(r), NEW e \in Endpoints, NEW c \in ClientIds,
           NEW seq \in Sequences
    PROVE  Consistent(Rebound(r, e, c, seq))
<1> DEFINE q == RemoveEndpoint(r, e)
<1>1. Consistent(q) /\ q.clientIdByEndpoint[e] = None
  BY RemoveEndpointConsistent
<1> HIDE DEF q
<1>2. /\ Consistent(RemoveClient(q, c))
      /\ RemoveClient(q, c).clientsById[c] = None
      /\ RemoveClient(q, c).clientIdByEndpoint[e] = None
  BY <1>1, RemoveClientConsistent
<1>3. Consistent(InsertSession(RemoveClient(q, c), e, c, seq))
  BY <1>2, InsertSessionConsistent
<1> QED BY <1>3 DEF Rebound, q

\* Noting a sequence number keeps consistency, owners and cache.
LEMMA NoteSequenceConsistent ==
    ASSUME NEW r, Consistent(r), NEW c \in ClientIds, r.clientsById[c] # None,
           NEW seq \in Sequences
    PROVE  Consistent(NoteSequence(r, c, seq))
<1> DEFINE s == [r.clientsById[c] EXCEPT !.lastSequence = seq]
<1>1. r.clientsById[c] \in ClientSessions
  BY DEF Consistent, RelayMaps
<1>2. /\ s \in ClientSessions
      /\ s.endpointKey = r.clientsById[c].endpointKey
      /\ s.clientId = r.clientsById[c].clientId
  BY <1>1 DEF ClientSessions
<1>3. s # None
  BY <1>2, NoneAssumption
<1> HIDE DEF s
<1>4. NoteSequence(r, c, seq) =
        [clientsById |-> [r.clientsById EXCEPT ![c] = s],
         clientIdByEndpoint |-> r.clientIdByEndpoint,
         latestSnapshotsByClientId |-> r.latestSnapshotsByClientId]
  BY DEF NoteSequence, s
<1>5. NoteSequence(r, c, seq) \in RelayMaps
  BY <1>2, <1>4 DEF Consistent, RelayMaps
<1> QED BY <1>2, <1>3, <1>4, <1>5 DEF Consistent, RelayMaps

\* Caching a snapshot under its own client id, which has a session, keeps consistency.
LEMMA CacheSnapshotConsistent ==
    ASSUME NEW r, Consistent(r), NEW c \in ClientIds, r.clientsById[c] # None,
           NEW s \in ActorSnapshots, s.clientId = c
    PROVE  Consistent(CacheSnapshot(r, c, s))
<1>1. CacheSnapshot(r, c, s) \in RelayMaps
  BY DEF Consistent, RelayMaps, CacheSnapshot
<1> QED BY <1>1 DEF Consistent, RelayMaps, CacheSnapshot
-----------------------------------------------------------------------------
\* What a rejected or accepted packet of each kind is made of.
LEMMA PacketFields ==
    ASSUME NEW p \in Packets
    PROVE  /\ p.clientId \in WireIds
           /\ p.kind = "connect" => p.sequence \in Sequences
           /\ p.kind = "disconnect" => p.sequence \in Sequences
           /\ p.kind = "snapshot" => p \in ActorSnapshots /\ p.tick \in Sequences
BY DEF Packets, ConnectPackets, DisconnectPackets, ActorSnapshots, ServerEventPackets

\* An endpoint that owns a client id has its session.
LEMMA OwnerHasSession ==
    ASSUME Consistent(relay), NEW e \in Endpoints, NEW c \in ClientIds,
           EndpointOwnsClient(e, c)
    PROVE  c \in Sessions /\ Session(c).endpointKey = e
BY DEF Consistent, EndpointOwnsClient, Sessions, Session

\* Every call of ingest keeps the maps consistent.
LEMMA IngestConsistent ==
    ASSUME Consistent(relay), NEW e \in Endpoints, NEW p \in Packets, Ingest(e, p)
    PROVE  Consistent(relay')
<1>1. CASE IngestRejected(e, p)
  BY <1>1 DEF IngestRejected
<1>2. CASE IngestDuplicateConnect(e, p)
  <2>1. p.clientId \in ClientIds /\ p.sequence \in Sequences
    BY <1>2, PacketFields DEF IngestDuplicateConnect, Rejects, WireIds
  <2>2. relay.clientsById[p.clientId] # None
    BY <1>2, <2>1, OwnerHasSession DEF IngestDuplicateConnect, Sessions, Session
  <2> QED BY <1>2, <2>1, <2>2, NoteSequenceConsistent DEF IngestDuplicateConnect
<1>3. CASE IngestConnect(e, p)
  <2>1. p.clientId \in ClientIds /\ p.sequence \in Sequences
    BY <1>3, PacketFields DEF IngestConnect, Rejects, WireIds
  <2> QED BY <1>3, <2>1, ReboundConsistent DEF IngestConnect
<1>4. CASE IngestDisconnect(e, p)
  <2>1. p.clientId \in ClientIds
    BY <1>4, PacketFields DEF IngestDisconnect, Rejects, WireIds
  <2> QED BY <1>4, <2>1, RemoveClientConsistent DEF IngestDisconnect
<1>5. CASE IngestSnapshot(e, p)
  <2>1. p.clientId \in ClientIds /\ p \in ActorSnapshots /\ p.tick \in Sequences
    BY <1>5, PacketFields DEF IngestSnapshot, Rejects, WireIds
  <2>2. relay.clientsById[p.clientId] # None
    BY <1>5, <2>1, OwnerHasSession DEF IngestSnapshot, Rejects, Sessions, Session
  <2> DEFINE q == NoteSequence(relay, p.clientId, p.tick)
  <2>3. Consistent(q)
    BY <2>1, <2>2, NoteSequenceConsistent
  <2>4. q.clientsById[p.clientId] # None
    BY <2>1, <2>2, <2>3, NoneAssumption DEF NoteSequence, Consistent, RelayMaps, ClientSessions
  <2>5. relay' = CacheSnapshot(q, p.clientId, p)
    BY <1>5 DEF IngestSnapshot
  <2> HIDE DEF q
  <2> QED BY <2>1, <2>3, <2>4, <2>5, CacheSnapshotConsistent
<1> QED BY <1>1, <1>2, <1>3, <1>4, <1>5 DEF Ingest

\* The empty relay is consistent.
LEMMA InitConsistent == RelayInit => Consistent(relay)
BY NoneAssumption DEF RelayInit, EmptyRelay, Consistent, RelayMaps

\* Every step of the relay keeps the maps consistent.
LEMMA StepConsistent == Consistent(relay) /\ [RelayNext]_relayVars => Consistent(relay')
<1> SUFFICES ASSUME Consistent(relay), [RelayNext]_relayVars
             PROVE  Consistent(relay')
  OBVIOUS
<1>1. CASE UNCHANGED relayVars
  BY <1>1 DEF relayVars
<1>2. CASE RelayNext
  <2>1. PICK e \in Endpoints : \/ IngestUndecodable(e)
                               \/ \E p \in Packets : Ingest(e, p)
    BY <1>2 DEF RelayNext
  <2>2. CASE IngestUndecodable(e)
    BY <2>2 DEF IngestUndecodable
  <2>3. CASE \E p \in Packets : Ingest(e, p)
    BY <2>3, IngestConsistent
  <2> QED BY <2>1, <2>2, <2>3
<1> QED BY <1>1, <1>2

\* In every reachable state the two session maps and the cache agree.
THEOREM RelayConsistent == RelaySpec => []Consistent(relay)
<1>1. RelayInit => Consistent(relay)
  BY InitConsistent
<1>2. Consistent(relay) /\ [RelayNext]_relayVars => Consistent(relay)'
  BY StepConsistent
<1> QED BY <1>1, <1>2, PTL DEF RelaySpec

\* clientIdByEndpoint and clientsById name the same owners, in every state.
THEOREM OwnershipAlwaysAgrees == RelaySpec => []OwnershipAgrees
<1>1. Consistent(relay) => OwnershipAgrees
  BY DEF Consistent, OwnershipAgrees, Session
<1> QED BY <1>1, RelayConsistent, PTL

\* A cached snapshot always belongs to a live session.
THEOREM CacheAlwaysBelongs == RelaySpec => []CacheBelongsToSessions
<1>1. Consistent(relay) => CacheBelongsToSessions
  BY DEF Consistent, CacheBelongsToSessions, Session
<1> QED BY <1>1, RelayConsistent, PTL
-----------------------------------------------------------------------------
\* What removeEndpoint changes: the session of the endpoint, and nothing else.
LEMMA RemoveEndpointEffect ==
    ASSUME NEW r, Consistent(r), NEW e \in Endpoints
    PROVE  LET q == RemoveEndpoint(r, e)
               Loses(d) == r.clientsById[d] # None /\ r.clientsById[d].endpointKey = e
           IN  /\ \A f \in Endpoints : q.clientIdByEndpoint[f] =
                      IF f = e THEN None ELSE r.clientIdByEndpoint[f]
               /\ \A d \in ClientIds :
                      /\ q.clientsById[d] = IF Loses(d) THEN None ELSE r.clientsById[d]
                      /\ q.latestSnapshotsByClientId[d] =
                            IF Loses(d) THEN None ELSE r.latestSnapshotsByClientId[d]
<1>1. CASE r.clientIdByEndpoint[e] = None
  BY <1>1, NoneAssumption DEF RemoveEndpoint, Consistent
<1>2. CASE r.clientIdByEndpoint[e] # None
  BY <1>2 DEF RemoveEndpoint, Consistent, RelayMaps
<1> QED BY <1>1, <1>2

\* What removeClient changes: the session of the client, and nothing else.
LEMMA RemoveClientEffect ==
    ASSUME NEW r, Consistent(r), NEW c \in ClientIds
    PROVE  LET q == RemoveClient(r, c)
           IN  /\ \A f \in Endpoints : q.clientIdByEndpoint[f] =
                      IF r.clientIdByEndpoint[f] = c THEN None
                      ELSE r.clientIdByEndpoint[f]
               /\ \A d \in ClientIds :
                      /\ q.clientsById[d] = IF d = c THEN None ELSE r.clientsById[d]
                      /\ q.latestSnapshotsByClientId[d] =
                            IF d = c THEN None ELSE r.latestSnapshotsByClientId[d]
<1>1. CASE r.clientsById[c] = None
  BY <1>1 DEF RemoveClient, Consistent
<1>2. CASE r.clientsById[c] # None
  BY <1>2 DEF RemoveClient, Consistent, RelayMaps
<1> QED BY <1>1, <1>2

\* The session a connect enters.
NewSession(e, c, seq) == [clientId |-> c, endpointKey |-> e, lastSequence |-> seq]

\* What a connect of e as c changes: e and c are tied to each other, the former
\* sessions of both are gone with their snapshots, nothing else changes.
LEMMA ReboundEffect ==
    ASSUME NEW r, Consistent(r), NEW e \in Endpoints, NEW c \in ClientIds,
           NEW seq \in Sequences
    PROVE  LET q == Rebound(r, e, c, seq)
               Loses(d) == r.clientsById[d] # None /\ r.clientsById[d].endpointKey = e
           IN  /\ \A f \in Endpoints : q.clientIdByEndpoint[f] =
                      IF f = e THEN c
                      ELSE IF r.clientIdByEndpoint[f] = c THEN None
                      ELSE r.clientIdByEndpoint[f]
               /\ \A d \in ClientIds :
                      /\ q.clientsById[d] = IF d = c THEN NewSession(e, c, seq)
                                            ELSE IF Loses(d) THEN None
                                            ELSE r.clientsById[d]
                      /\ q.latestSnapshotsByClientId[d] =
                            IF d = c \/ Loses(d) THEN None
                            ELSE r.latestSnapshotsByClientId[d]
<1> DEFINE a == RemoveEndpoint(r, e)
<1> DEFINE b == RemoveClient(a, c)
<1>1. Consistent(a)
  BY RemoveEndpointConsistent
<1>2. /\ \A f \in Endpoints : a.clientIdByEndpoint[f] =
            IF f = e THEN None ELSE r.clientIdByEndpoint[f]
      /\ \A d \in ClientIds :
            /\ a.clientsById[d] =
                  IF r.clientsById[d] # None /\ r.clientsById[d].endpointKey = e
                  THEN None ELSE r.clientsById[d]
            /\ a.latestSnapshotsByClientId[d] =
                  IF r.clientsById[d] # None /\ r.clientsById[d].endpointKey = e
                  THEN None ELSE r.latestSnapshotsByClientId[d]
  BY RemoveEndpointEffect
<1> HIDE DEF a
<1>3. Consistent(b)
  BY <1>1, RemoveClientConsistent
<1>4. /\ \A f \in Endpoints : b.clientIdByEndpoint[f] =
            IF a.clientIdByEndpoint[f] = c THEN None ELSE a.clientIdByEndpoint[f]
      /\ \A d \in ClientIds :
            /\ b.clientsById[d] = IF d = c THEN None ELSE a.clientsById[d]
            /\ b.latestSnapshotsByClientId[d] =
                  IF d = c THEN None ELSE a.latestSnapshotsByClientId[d]
  BY <1>1, RemoveClientEffect
<1> HIDE DEF b
<1>5. Rebound(r, e, c, seq) = InsertSession(b, e, c, seq)
  BY DEF Rebound, a, b
<1>6. Rebound(r, e, c, seq) =
        [clientsById |-> [b.clientsById EXCEPT ![c] = NewSession(e, c, seq)],
         clientIdByEndpoint |-> [b.clientIdByEndpoint EXCEPT ![e] = c],
         latestSnapshotsByClientId |-> b.latestSnapshotsByClientId]
  BY <1>5 DEF InsertSession, NewSession
<1> QED BY <1>2, <1>3, <1>4, <1>6 DEF Consistent, RelayMaps
-----------------------------------------------------------------------------
\* The outputs of a connect, listed: for every peer d an announcement of d to the
\* newcomer, one of the newcomer to d, and d's cached snapshot when it has one.
LEMMA ConnectOutputsMembers ==
    ASSUME Consistent(relay), NEW latest, NEW e, NEW c, NEW seq, NEW o
    PROVE  o \in ConnectOutputs({Session(d) : d \in Peers(c)}, latest, e, c, seq)
           <=> \E d \in Peers(c) :
                  \/ o = RelayOutput(e, ServerEvent("clientConnected", d,
                                                    Session(d).lastSequence))
                  \/ o = RelayOutput(Session(d).endpointKey,
                                     ServerEvent("clientConnected", c, seq))
                  \/ latest[d] # None /\ o = RelayOutput(e, Reencoded(latest[d]))
<1>1. \A d \in Peers(c) : Session(d).clientId = d
  BY DEF Peers, Sessions, Session, Consistent
<1> QED BY <1>1 DEF ConnectOutputs

\* A re-encoded snapshot is a snapshot of the same client and tick, and shows the
\* same heading up to a full turn.
LEMMA ReencodedSnapshot ==
    ASSUME NEW s \in ActorSnapshots
    PROVE  /\ Reencoded(s) \in ActorSnapshots
           /\ Reencoded(s).clientId = s.clientId
           /\ Reencoded(s).tick = s.tick
           /\ Reencoded(s).kind = "snapshot"
           /\ s.yaw % YawMax = Reencoded(s).yaw % YawMax
<1>1. CASE s.yaw = YawMax
  <2>1. Reencoded(s) = [s EXCEPT !.yaw = 0]
    BY <1>1 DEF Reencoded
  <2>2. YawMax % YawMax = 0 /\ 0 % YawMax = 0
    BY YawMaxAssumption
  <2> QED BY <1>1, <2>1, <2>2, YawMaxAssumption DEF ActorSnapshots
<1>2. CASE s.yaw # YawMax
  BY <1>2 DEF Reencoded, ActorSnapshots
<1> QED BY <1>1, <1>2

\* A server event about a client in use is a packet the relay may send.
LEMMA EventOutput ==
    ASSUME NEW e \in Endpoints, NEW c \in ClientIds, NEW seq \in Sequences,
           NEW kind \in EventKinds
    PROVE  RelayOutput(e, ServerEvent(kind, c, seq)) \in RelayOutputs
BY DEF RelayOutput, RelayOutputs, ServerEvent, ServerEventPackets, WireIds

\* The fields of a live session are typed.
LEMMA SessionFields ==
    ASSUME Consistent(relay), NEW d \in Sessions
    PROVE  /\ d \in ClientIds
           /\ Session(d) \in ClientSessions
           /\ Session(d).endpointKey \in Endpoints
           /\ Session(d).lastSequence \in Sequences
           /\ relay.clientIdByEndpoint[Session(d).endpointKey] = d
BY DEF Consistent, RelayMaps, Sessions, Session, ClientSessions

\* What the result of a call looks like.
ResultTyped(res) ==
    /\ res.from \in Endpoints \cup {None}
    /\ res.packet \in Packets \cup {None}
    /\ res.accepted \in BOOLEAN
    /\ res.outputs \subseteq RelayOutputs

\* Every call of ingest returns a result of its type.
LEMMA IngestResultTyped ==
    ASSUME Consistent(relay), NEW e \in Endpoints, NEW p \in Packets, Ingest(e, p)
    PROVE  ResultTyped(result')
<1>1. CASE IngestRejected(e, p)
  BY <1>1 DEF IngestRejected, RelayResult, ResultTyped
<1>2. CASE IngestDuplicateConnect(e, p)
  BY <1>2 DEF IngestDuplicateConnect, RelayResult, ResultTyped
<1>3. CASE IngestConnect(e, p)
  <2> DEFINE c == p.clientId
             latest == Rebound(relay, e, c, p.sequence).latestSnapshotsByClientId
  <2>1. c \in ClientIds /\ p.sequence \in Sequences
    BY <1>3, PacketFields DEF IngestConnect, Rejects, WireIds
  <2>2. result' = RelayResult(e, p, TRUE,
            ConnectOutputs({Session(d) : d \in Peers(c)}, latest, e, c, p.sequence))
    BY <1>3 DEF IngestConnect
  <2>3. latest \in [ClientIds -> ActorSnapshots \cup {None}]
    BY <2>1, ReboundConsistent DEF Consistent, RelayMaps
  <2> HIDE DEF c, latest
  <2>4. ASSUME NEW o \in ConnectOutputs({Session(d) : d \in Peers(c)}, latest,
                                        e, c, p.sequence)
        PROVE  o \in RelayOutputs
    <3>1. PICK d \in Peers(c) :
             \/ o = RelayOutput(e, ServerEvent("clientConnected", d,
                                               Session(d).lastSequence))
             \/ o = RelayOutput(Session(d).endpointKey,
                                ServerEvent("clientConnected", c, p.sequence))
             \/ latest[d] # None /\ o = RelayOutput(e, Reencoded(latest[d]))
      BY <2>4, ConnectOutputsMembers
    <3>2. /\ d \in ClientIds
          /\ Session(d).endpointKey \in Endpoints
          /\ Session(d).lastSequence \in Sequences
      BY SessionFields DEF Peers
    <3>3. "clientConnected" \in EventKinds
      BY DEF EventKinds
    <3>4. latest[d] # None => RelayOutput(e, Reencoded(latest[d])) \in RelayOutputs
      BY <2>3, <3>2, ReencodedSnapshot DEF RelayOutput, RelayOutputs
    <3> QED BY <2>1, <3>1, <3>2, <3>3, <3>4, EventOutput
  <2> QED BY <2>2, <2>4 DEF RelayResult, ResultTyped
<1>4. CASE IngestDisconnect(e, p)
  <2>1. p.clientId \in ClientIds /\ p.sequence \in Sequences
    BY <1>4, PacketFields DEF IngestDisconnect, Rejects, WireIds
  <2>2. "clientDisconnected" \in EventKinds
    BY DEF EventKinds
  <2>3. ASSUME NEW d \in Peers(p.clientId)
        PROVE  RelayOutput(Session(d).endpointKey,
                 ServerEvent("clientDisconnected", p.clientId, p.sequence))
                   \in RelayOutputs
    BY <2>1, <2>2, SessionFields, EventOutput DEF Peers
  <2> QED BY <1>4, <2>3 DEF IngestDisconnect, RelayResult, ResultTyped
<1>5. CASE IngestSnapshot(e, p)
  <2>1. p \in ActorSnapshots
    BY <1>5, PacketFields DEF IngestSnapshot
  <2>2. ASSUME NEW d \in Peers(p.clientId)
        PROVE  RelayOutput(Session(d).endpointKey, p) \in RelayOutputs
    BY <2>1, SessionFields DEF Peers, RelayOutput, RelayOutputs
  <2> QED BY <1>5, <2>2 DEF IngestSnapshot, RelayResult, ResultTyped
<1> QED BY <1>1, <1>2, <1>3, <1>4, <1>5 DEF Ingest

\* Maps and results stay in their types.
THEOREM RelayTypeCorrect == RelaySpec => []RelayTypeOK
<1> DEFINE Inv == Consistent(relay) /\ ResultTyped(result)
<1>1. RelayInit => Inv
  BY InitConsistent DEF RelayInit, NoResult, RelayResult, ResultTyped
<1>2. Inv /\ [RelayNext]_relayVars => Inv'
  <2> SUFFICES ASSUME Inv, [RelayNext]_relayVars PROVE Inv'
    OBVIOUS
  <2>1. Consistent(relay')
    BY StepConsistent
  <2>2. CASE UNCHANGED relayVars
    BY <2>1, <2>2 DEF relayVars
  <2>3. CASE RelayNext
    <3>1. PICK e \in Endpoints : \/ IngestUndecodable(e)
                                 \/ \E p \in Packets : Ingest(e, p)
      BY <2>3 DEF RelayNext
    <3>2. CASE IngestUndecodable(e)
      BY <2>1, <3>2 DEF IngestUndecodable, RelayResult, ResultTyped
    <3>3. CASE \E p \in Packets : Ingest(e, p)
      BY <2>1, <3>3, IngestResultTyped
    <3> QED BY <3>1, <3>2, <3>3
  <2> QED BY <2>2, <2>3
<1>3. Inv => RelayTypeOK
  BY DEF Consistent, ResultTyped, RelayTypeOK
<1> QED BY <1>1, <1>2, <1>3, PTL DEF RelaySpec
-----------------------------------------------------------------------------
\* OutputsReachPeers and RelayedSnapshotIsCached, said of any maps and outputs.
Reaches(r, o) ==
    /\ r.clientIdByEndpoint[o.to] # None
    /\ o.packet.kind = "snapshot" => r.clientIdByEndpoint[o.to] # o.packet.clientId

ShowsCached(r, o) ==
    o.packet.kind = "snapshot" =>
        LET s == r.latestSnapshotsByClientId[o.packet.clientId]
        IN  /\ s # None
            /\ s.clientId = o.packet.clientId
            /\ s.tick = o.packet.tick
            /\ s.yaw % YawMax = o.packet.yaw % YawMax

\* The fields of the outputs a call builds.
LEMMA OutputFields ==
    ASSUME NEW e, NEW packet
    PROVE  RelayOutput(e, packet).to = e /\ RelayOutput(e, packet).packet = packet
BY DEF RelayOutput

\* A server event is not taken for a snapshot.
LEMMA ServerEventKind ==
    ASSUME NEW event, NEW c, NEW seq
    PROVE  ServerEvent(event, c, seq).kind # "snapshot"
BY DEF ServerEvent

\* Every output of a call reaches a session, never the owner of the snapshot it
\* carries, and shows what the relay caches once the call is done.
LEMMA IngestOutputs ==
    ASSUME Consistent(relay), NEW e \in Endpoints, NEW p \in Packets, Ingest(e, p),
           NEW o \in result'.outputs
    PROVE  Reaches(relay', o) /\ ShowsCached(relay', o)
<1>1. CASE IngestRejected(e, p)
  BY <1>1 DEF IngestRejected, RelayResult
<1>2. CASE IngestDuplicateConnect(e, p)
  BY <1>2 DEF IngestDuplicateConnect, RelayResult
<1>3. CASE IngestConnect(e, p)
  <2> DEFINE c == p.clientId
             seq == p.sequence
             r == Rebound(relay, e, c, seq)
             latest == r.latestSnapshotsByClientId
  <2>1. c \in ClientIds /\ seq \in Sequences
    BY <1>3, PacketFields DEF IngestConnect, Rejects, WireIds
  <2>2. /\ relay' = r
        /\ o \in ConnectOutputs({Session(d) : d \in Peers(c)}, latest, e, c, seq)
    BY <1>3 DEF IngestConnect, RelayResult
  <2>3. Consistent(r)
    BY <2>1, ReboundConsistent
  <2>4. /\ \A f \in Endpoints : r.clientIdByEndpoint[f] =
              IF f = e THEN c
              ELSE IF relay.clientIdByEndpoint[f] = c THEN None
              ELSE relay.clientIdByEndpoint[f]
    BY <2>1, ReboundEffect
  <2> HIDE DEF c, seq, r
  <2>5. PICK d \in Peers(c) :
             \/ o = RelayOutput(e, ServerEvent("clientConnected", d,
                                               Session(d).lastSequence))
             \/ o = RelayOutput(Session(d).endpointKey,
                                ServerEvent("clientConnected", c, seq))
             \/ latest[d] # None /\ o = RelayOutput(e, Reencoded(latest[d]))
    BY <2>2, ConnectOutputsMembers
  <2>6. /\ d \in ClientIds /\ d # c
        /\ Session(d).endpointKey \in Endpoints
        /\ relay.clientIdByEndpoint[Session(d).endpointKey] = d
    BY SessionFields DEF Peers
  <2>7. d # None /\ c # None
    BY <2>1, <2>6, NoneAssumption
  <2>8. CASE o = RelayOutput(e, ServerEvent("clientConnected", d, Session(d).lastSequence))
    BY <2>2, <2>4, <2>7, <2>8, OutputFields, ServerEventKind DEF Reaches, ShowsCached
  <2>9. CASE o = RelayOutput(Session(d).endpointKey, ServerEvent("clientConnected", c, seq))
    BY <2>2, <2>4, <2>6, <2>7, <2>9, OutputFields, ServerEventKind DEF Reaches, ShowsCached
  <2>10. CASE latest[d] # None /\ o = RelayOutput(e, Reencoded(latest[d]))
    <3>1. latest[d] \in ActorSnapshots /\ latest[d].clientId = d
      BY <2>3, <2>6, <2>10 DEF Consistent, RelayMaps
    <3>2. /\ Reencoded(latest[d]).clientId = d
          /\ Reencoded(latest[d]).tick = latest[d].tick
          /\ latest[d].yaw % YawMax = Reencoded(latest[d]).yaw % YawMax
      BY <3>1, ReencodedSnapshot
    <3>3. o.to = e /\ o.packet = Reencoded(latest[d])
      BY <2>10, OutputFields
    <3>4. Reaches(relay', o)
      BY <2>2, <2>4, <2>6, <2>7, <3>2, <3>3 DEF Reaches
    <3>5. ShowsCached(relay', o)
      BY <2>2, <2>10, <3>1, <3>2, <3>3 DEF ShowsCached
    <3> QED BY <3>4, <3>5
  <2> QED BY <2>5, <2>8, <2>9, <2>10
<1>4. CASE IngestDisconnect(e, p)
  <2>1. p.clientId \in ClientIds
    BY <1>4, PacketFields DEF IngestDisconnect, Rejects, WireIds
  <2>2. PICK d \in Peers(p.clientId) :
           o = RelayOutput(Session(d).endpointKey,
                 ServerEvent("clientDisconnected", p.clientId, p.sequence))
    BY <1>4 DEF IngestDisconnect, RelayResult
  <2>3. /\ d \in ClientIds /\ d # p.clientId
        /\ Session(d).endpointKey \in Endpoints
        /\ relay.clientIdByEndpoint[Session(d).endpointKey] = d
    BY SessionFields DEF Peers
  <2>4. relay'.clientIdByEndpoint[Session(d).endpointKey] = d
    BY <1>4, <2>1, <2>3, RemoveClientEffect DEF IngestDisconnect
  <2> QED BY <2>2, <2>3, <2>4, NoneAssumption, OutputFields, ServerEventKind
             DEF Reaches, ShowsCached
<1>5. CASE IngestSnapshot(e, p)
  <2>1. p \in ActorSnapshots /\ p.clientId \in ClientIds
    BY <1>5, PacketFields DEF IngestSnapshot, Rejects, WireIds
  <2>2. PICK d \in Peers(p.clientId) : o = RelayOutput(Session(d).endpointKey, p)
    BY <1>5 DEF IngestSnapshot, RelayResult
  <2>3. /\ d \in ClientIds /\ d # p.clientId
        /\ Session(d).endpointKey \in Endpoints
        /\ relay.clientIdByEndpoint[Session(d).endpointKey] = d
    BY SessionFields DEF Peers
  <2>4. relay'.clientIdByEndpoint = relay.clientIdByEndpoint
    BY <1>5 DEF IngestSnapshot, CacheSnapshot, NoteSequence
  <2>5. relay'.latestSnapshotsByClientId[p.clientId] = p
    BY <1>5, <2>1 DEF IngestSnapshot, CacheSnapshot, NoteSequence, Consistent, RelayMaps
  <2>6. p # None
    BY NoneAssumption
  <2> QED BY <2>2, <2>3, <2>4, <2>5, <2>6, NoneAssumption, OutputFields
             DEF Reaches, ShowsCached
<1> QED BY <1>1, <1>2, <1>3, <1>4, <1>5 DEF Ingest

\* The outputs of the last call, in every reachable state, reach sessions, spare
\* the owner and show the cache.
LEMMA OutputsAlwaysGood ==
    RelaySpec => [](\A o \in result.outputs : Reaches(relay, o) /\ ShowsCached(relay, o))
<1> DEFINE Good == \A o \in result.outputs : Reaches(relay, o) /\ ShowsCached(relay, o)
<1>1. RelayInit => Good
  BY DEF RelayInit, NoResult, RelayResult
<1>2. Consistent(relay) /\ Good /\ [RelayNext]_relayVars => Good'
  <2> SUFFICES ASSUME Consistent(relay), Good, [RelayNext]_relayVars PROVE Good'
    OBVIOUS
  <2>1. CASE UNCHANGED relayVars
    BY <2>1 DEF relayVars
  <2>2. CASE RelayNext
    <3>1. PICK e \in Endpoints : \/ IngestUndecodable(e)
                                 \/ \E p \in Packets : Ingest(e, p)
      BY <2>2 DEF RelayNext
    <3>2. CASE IngestUndecodable(e)
      BY <3>2 DEF IngestUndecodable, RelayResult
    <3>3. CASE \E p \in Packets : Ingest(e, p)
      BY <3>3, IngestOutputs
    <3> QED BY <3>1, <3>2, <3>3
  <2> QED BY <2>1, <2>2
<1> QED BY <1>1, <1>2, RelayConsistent, PTL DEF RelaySpec

\* Everything sent goes to a session and no snapshot goes back to its owner.
THEOREM OutputsAlwaysReachPeers == RelaySpec => []OutputsReachPeers
<1>1. (\A o \in result.outputs : Reaches(relay, o) /\ ShowsCached(relay, o))
        => OutputsReachPeers
  BY DEF Reaches, OutputsReachPeers
<1> QED BY <1>1, OutputsAlwaysGood, PTL

\* Fan-out and replay show the peers exactly the state that is cached.
THEOREM RelayedSnapshotAlwaysCached == RelaySpec => []RelayedSnapshotIsCached
<1>1. (\A o \in result.outputs : Reaches(relay, o) /\ ShowsCached(relay, o))
        => RelayedSnapshotIsCached
  BY DEF ShowsCached, RelayedSnapshotIsCached
<1> QED BY <1>1, OutputsAlwaysGood, PTL
-----------------------------------------------------------------------------
\* A packet ends or moves the session of its sender or of the id it claims, and
\* no other.
THEOREM SessionsAlwaysEndByOwnerOrClaim == RelaySpec => SessionsEndByOwnerOrClaim
<1> DEFINE A == \A c \in Sessions :
          \/ Session(c)' # None /\ Session(c)'.endpointKey = Session(c).endpointKey
          \/ result'.from = Session(c).endpointKey
          \/ result'.packet.kind = "connect" /\ result'.packet.clientId = c
<1>1. Consistent(relay) /\ [RelayNext]_relayVars => [A]_relayVars
  <2> SUFFICES ASSUME Consistent(relay), RelayNext, NEW c \in Sessions
               PROVE  \/ /\ relay'.clientsById[c] # None
                         /\ relay'.clientsById[c].endpointKey = Session(c).endpointKey
                      \/ result'.from = Session(c).endpointKey
                      \/ result'.packet.kind = "connect" /\ result'.packet.clientId = c
    BY DEF Session
  <2>1. /\ c \in ClientIds /\ Session(c) = relay.clientsById[c]
        /\ relay.clientsById[c] # None /\ relay.clientsById[c] \in ClientSessions
    BY DEF Sessions, Session, Consistent, RelayMaps
  <2>2. PICK e \in Endpoints : \/ IngestUndecodable(e)
                               \/ \E p \in Packets : Ingest(e, p)
    BY DEF RelayNext
  <2>3. CASE IngestUndecodable(e)
    BY <2>1, <2>3 DEF IngestUndecodable
  <2>4. ASSUME NEW p \in Packets, Ingest(e, p)
        PROVE  \/ /\ relay'.clientsById[c] # None
                  /\ relay'.clientsById[c].endpointKey = Session(c).endpointKey
               \/ result'.from = Session(c).endpointKey
               \/ result'.packet.kind = "connect" /\ result'.packet.clientId = c
    <3>1. CASE IngestRejected(e, p)
      BY <2>1, <3>1 DEF IngestRejected
    <3>2. CASE IngestDuplicateConnect(e, p)
      <4>1. relay' = NoteSequence(relay, p.clientId, p.sequence)
        BY <3>2 DEF IngestDuplicateConnect
      <4>2. p.clientId \in ClientIds /\ p.sequence \in Sequences
        BY <3>2, PacketFields DEF IngestDuplicateConnect, Rejects, WireIds
      <4>3. Consistent(relay')
        BY <2>4, IngestConsistent
      <4>4. relay'.clientIdByEndpoint = relay.clientIdByEndpoint
        BY <4>1 DEF NoteSequence
      <4> QED BY <2>1, <4>3, <4>4 DEF Consistent, ClientSessions
    <3>3. CASE IngestConnect(e, p)
      <4>1. p.clientId \in ClientIds /\ p.sequence \in Sequences
        BY <3>3, PacketFields DEF IngestConnect, Rejects, WireIds
      <4>2. result'.from = e /\ result'.packet = p /\ p.kind = "connect"
        BY <3>3 DEF IngestConnect, RelayResult
      <4>3. c # p.clientId /\ Session(c).endpointKey # e
              => relay'.clientsById[c] = relay.clientsById[c]
        BY <2>1, <3>3, <4>1, ReboundEffect DEF IngestConnect
      <4> QED BY <2>1, <4>2, <4>3
    <3>4. CASE IngestDisconnect(e, p)
      <4>1. p.clientId \in ClientIds /\ EndpointOwnsClient(e, p.clientId)
        BY <3>4, PacketFields DEF IngestDisconnect, Rejects, WireIds
      <4>2. result'.from = e
        BY <3>4 DEF IngestDisconnect, RelayResult
      <4>3. c # p.clientId => relay'.clientsById[c] = relay.clientsById[c]
        BY <2>1, <3>4, <4>1, RemoveClientEffect DEF IngestDisconnect
      <4>4. c = p.clientId => Session(c).endpointKey = e
        BY <4>1, OwnerHasSession
      <4> QED BY <2>1, <4>2, <4>3, <4>4
    <3>5. CASE IngestSnapshot(e, p)
      <4>1. relay'.clientIdByEndpoint = relay.clientIdByEndpoint
        BY <3>5 DEF IngestSnapshot, CacheSnapshot, NoteSequence
      <4>2. Consistent(relay')
        BY <2>4, IngestConsistent
      <4> QED BY <2>1, <4>1, <4>2 DEF Consistent, ClientSessions
    <3> QED BY <2>4, <3>1, <3>2, <3>3, <3>4, <3>5 DEF Ingest
  <2> QED BY <2>2, <2>3, <2>4
<1> QED BY <1>1, RelayConsistent, PTL DEF RelaySpec, SessionsEndByOwnerOrClaim
-----------------------------------------------------------------------------
\* The maps of the relay seen as RelaySessions sees them.
OwnersIn(r) ==
    [c \in ClientIds |-> IF r.clientsById[c] = None THEN None
                         ELSE r.clientsById[c].endpointKey]

\* Each call of ingest is a step of RelaySessions, or changes nothing it can see.
LEMMA IngestImplements ==
    ASSUME Consistent(relay), NEW e \in Endpoints, NEW p \in Packets, Ingest(e, p)
    PROVE  [Abstract!Next]_(Abstract!vars)
<1> DEFINE owner == OwnersIn(relay)
           world == relay.latestSnapshotsByClientId
           owner2 == OwnersIn(relay')
           world2 == relay'.latestSnapshotsByClientId
<1>1. /\ [c \in ClientIds |-> OwnerOf(c)] = owner
      /\ [c \in ClientIds |-> OwnerOf(c)]' = owner2
  BY DEF OwnersIn, OwnerOf, Session
<1>2. Consistent(relay')
  BY IngestConsistent
<1>3. CASE IngestRejected(e, p)
  BY <1>1, <1>3 DEF IngestRejected, Abstract!vars
<1>4. CASE IngestDuplicateConnect(e, p)
  <2>1. /\ relay'.clientIdByEndpoint = relay.clientIdByEndpoint
        /\ world2 = world
    BY <1>4 DEF IngestDuplicateConnect, NoteSequence
  <2>2. \A c \in ClientIds : owner2[c] = owner[c]
    BY <1>2, <2>1, NoneAssumption DEF OwnersIn, Consistent, RelayMaps, ClientSessions
  <2>3. owner2 = owner
    BY <2>2 DEF OwnersIn
  <2> QED BY <1>1, <2>1, <2>3 DEF Abstract!vars
<1>5. CASE IngestConnect(e, p)
  <2> DEFINE c == p.clientId
  <2>1. c \in ClientIds /\ p.sequence \in Sequences /\ ~EndpointOwnsClient(e, c)
    BY <1>5, PacketFields DEF IngestConnect, Rejects, WireIds
  <2>2. relay' = Rebound(relay, e, c, p.sequence)
    BY <1>5 DEF IngestConnect
  <2> HIDE DEF c
  <2>3. relay.clientsById[c] # None => relay.clientsById[c].endpointKey # e
    BY <2>1 DEF Consistent, EndpointOwnsClient
  <2>4. \A d \in ClientIds :
           /\ relay'.clientsById[d] =
                 IF d = c THEN NewSession(e, c, p.sequence)
                 ELSE IF relay.clientsById[d] # None /\ relay.clientsById[d].endpointKey = e
                      THEN None ELSE relay.clientsById[d]
           /\ world2[d] =
                 IF d = c \/ (relay.clientsById[d] # None /\ relay.clientsById[d].endpointKey = e)
                 THEN None ELSE world[d]
    BY <2>1, <2>2, ReboundEffect
  <2>5. NewSession(e, c, p.sequence) # None /\ NewSession(e, c, p.sequence).endpointKey = e
    BY <2>1, NoneAssumption DEF NewSession, ClientSessions
  <2>6. owner2 = [d \in ClientIds |->
                    IF d = c THEN e ELSE IF d = c \/ owner[d] = e THEN None ELSE owner[d]]
    BY <2>4, <2>5, NoneAssumption DEF OwnersIn
  <2>7. world2 = [d \in ClientIds |-> IF d = c \/ owner[d] = e THEN None ELSE world[d]]
    <3>1. \A d \in ClientIds :
             (relay.clientsById[d] # None /\ relay.clientsById[d].endpointKey = e)
                <=> owner[d] = e
      BY NoneAssumption DEF OwnersIn
    <3>2. world2 = [d \in ClientIds |-> world2[d]]
      BY <1>2 DEF Consistent, RelayMaps
    <3> QED BY <2>4, <3>1, <3>2
  <2>8. owner[c] # e
    BY <2>1, <2>3, NoneAssumption DEF OwnersIn
  <2>9. Abstract!Join(e, c)
    BY <1>1, <2>6, <2>7, <2>8 DEF Abstract!Join
  <2> QED BY <2>1, <2>9 DEF Abstract!Next
<1>6. CASE IngestDisconnect(e, p)
  <2> DEFINE c == p.clientId
  <2>1. c \in ClientIds /\ EndpointOwnsClient(e, c) /\ relay' = RemoveClient(relay, c)
    BY <1>6, PacketFields DEF IngestDisconnect, Rejects, WireIds
  <2> HIDE DEF c
  <2>2. \A d \in ClientIds :
           /\ relay'.clientsById[d] = IF d = c THEN None ELSE relay.clientsById[d]
           /\ world2[d] = IF d = c THEN None ELSE world[d]
    BY <2>1, RemoveClientEffect
  <2>3. owner2 = [owner EXCEPT ![c] = None]
    BY <2>1, <2>2 DEF OwnersIn
  <2>4. world2 = [world EXCEPT ![c] = None]
    BY <1>2, <2>1, <2>2 DEF Consistent, RelayMaps
  <2>5. owner[c] # None
    BY <2>1, OwnerHasSession, NoneAssumption DEF OwnersIn, Sessions, Session
  <2>6. Abstract!Leave(c)
    BY <1>1, <2>3, <2>4, <2>5 DEF Abstract!Leave
  <2> QED BY <2>1, <2>6 DEF Abstract!Next
<1>7. CASE IngestSnapshot(e, p)
  <2> DEFINE c == p.clientId
  <2>1. /\ c \in ClientIds /\ p \in ActorSnapshots /\ EndpointOwnsClient(e, c)
        /\ relay' = CacheSnapshot(NoteSequence(relay, c, p.tick), c, p)
    BY <1>7, PacketFields DEF IngestSnapshot, Rejects, WireIds
  <2>2. p.clientId = c
    OBVIOUS
  <2> HIDE DEF c
  <2>3. /\ relay'.clientIdByEndpoint = relay.clientIdByEndpoint
        /\ world2 = [world EXCEPT ![c] = p]
    BY <2>1 DEF CacheSnapshot, NoteSequence
  <2>4. \A d \in ClientIds : owner2[d] = owner[d]
    BY <1>2, <2>3, NoneAssumption DEF OwnersIn, Consistent, RelayMaps, ClientSessions
  <2>5. owner2 = owner
    BY <2>4 DEF OwnersIn
  <2>6. owner[c] # None
    BY <2>1, OwnerHasSession, NoneAssumption DEF OwnersIn, Sessions, Session
  <2>7. Abstract!Publish(c, p)
    BY <1>1, <2>2, <2>3, <2>5, <2>6 DEF Abstract!Publish
  <2> QED BY <2>1, <2>7 DEF Abstract!Next
<1> QED BY <1>3, <1>4, <1>5, <1>6, <1>7 DEF Ingest

\* The relay implements RelaySessions: one owner per client, one client per owner,
\* and the last accepted snapshot of each.
THEOREM RelayImplementsSessions == RelaySpec => ImplementsSessions
<1>1. RelayInit => Abstract!Init
  BY DEF RelayInit, EmptyRelay, Abstract!Init, OwnerOf, Session
<1>2. Consistent(relay) /\ [RelayNext]_relayVars => [Abstract!Next]_(Abstract!vars)
  <2> SUFFICES ASSUME Consistent(relay), [RelayNext]_relayVars
               PROVE  [Abstract!Next]_(Abstract!vars)
    OBVIOUS
  <2>1. CASE relay' = relay
    BY <2>1 DEF Abstract!vars, OwnerOf, Session
  <2>2. CASE RelayNext
    <3>1. PICK e \in Endpoints : \/ IngestUndecodable(e)
                                 \/ \E p \in Packets : Ingest(e, p)
      BY <2>2 DEF RelayNext
    <3>2. CASE IngestUndecodable(e)
      BY <2>1, <3>2 DEF IngestUndecodable
    <3>3. CASE \E p \in Packets : Ingest(e, p)
      BY <3>3, IngestImplements
    <3> QED BY <3>1, <3>2, <3>3
  <2> QED BY <2>1, <2>2 DEF relayVars
<1> QED BY <1>1, <1>2, RelayConsistent, PTL
           DEF RelaySpec, ImplementsSessions, Abstract!Spec
-----------------------------------------------------------------------------
\* A call that is not an accepted fresh connect puts no client id at a new endpoint.
LEMMA OnlyConnectMovesSessions ==
    ASSUME Consistent(relay), NEW e \in Endpoints, NEW p \in Packets, Ingest(e, p),
           ~IngestConnect(e, p),
           NEW c \in ClientIds, relay'.clientsById[c] # None
    PROVE  /\ relay.clientsById[c] # None
           /\ relay'.clientsById[c].endpointKey = relay.clientsById[c].endpointKey
<1>1. Consistent(relay')
  BY IngestConsistent
<1>2. CASE IngestRejected(e, p)
  BY <1>2 DEF IngestRejected
<1>3. CASE relay'.clientIdByEndpoint = relay.clientIdByEndpoint
  BY <1>1, <1>3 DEF Consistent, RelayMaps, ClientSessions
<1>4. CASE IngestDuplicateConnect(e, p)
  BY <1>3, <1>4 DEF IngestDuplicateConnect, NoteSequence
<1>5. CASE IngestDisconnect(e, p)
  <2>1. p.clientId \in ClientIds
    BY <1>5, PacketFields DEF IngestDisconnect, Rejects, WireIds
  <2> QED BY <1>5, <2>1, RemoveClientEffect DEF IngestDisconnect
<1>6. CASE IngestSnapshot(e, p)
  BY <1>3, <1>6 DEF IngestSnapshot, CacheSnapshot, NoteSequence
<1> QED BY <1>2, <1>4, <1>5, <1>6 DEF Ingest

\* Whoever gets a session is told of all the others and they of it, in that call.
THEOREM NewcomerAlwaysSeesWorld == RelaySpec => NewcomerSeesWorld
<1> DEFINE Fresh(c) == /\ Session(c)' # None
                       /\ \/ Session(c) = None
                          \/ Session(c)'.endpointKey # Session(c).endpointKey
           Told(c, d) ==
             /\ RelayOutput(Session(d)'.endpointKey,
                            ServerEvent("clientConnected", c, Session(c)'.lastSequence))
                    \in result'.outputs
             /\ RelayOutput(Session(c)'.endpointKey,
                            ServerEvent("clientConnected", d, Session(d)'.lastSequence))
                    \in result'.outputs
             /\ relay'.latestSnapshotsByClientId[d] # None =>
                    RelayOutput(Session(c)'.endpointKey,
                                Reencoded(relay'.latestSnapshotsByClientId[d]))
                        \in result'.outputs
           A == \A c, d \in ClientIds :
                  /\ Session(c)' # None
                  /\ Session(c) = None \/ Session(c)'.endpointKey # Session(c).endpointKey
                  /\ d # c /\ Session(d)' # None
                  => Told(c, d)
<1>1. Consistent(relay) /\ [RelayNext]_relayVars => [A]_relayVars
  <2> SUFFICES ASSUME Consistent(relay), RelayNext,
                      NEW c \in ClientIds, NEW d \in ClientIds,
                      Fresh(c), d # c, Session(d)' # None
               PROVE  Told(c, d)
    OBVIOUS
  <2>1. PICK e \in Endpoints : \/ IngestUndecodable(e)
                               \/ \E p \in Packets : Ingest(e, p)
    BY DEF RelayNext
  <2>2. ~IngestUndecodable(e)
    BY DEF IngestUndecodable, Session
  <2>3. PICK p \in Packets : Ingest(e, p)
    BY <2>1, <2>2
  <2>4. IngestConnect(e, p)
    BY <2>3, OnlyConnectMovesSessions DEF Session
  <2> DEFINE id == p.clientId
             seq == p.sequence
  <2>5. /\ id \in ClientIds /\ seq \in Sequences
        /\ relay' = Rebound(relay, e, id, seq)
        /\ result'.outputs =
              ConnectOutputs({Session(x) : x \in Peers(id)},
                             relay'.latestSnapshotsByClientId, e, id, seq)
    BY <2>4, PacketFields DEF IngestConnect, Rejects, WireIds, RelayResult
  <2> HIDE DEF id, seq
  <2>6. \A x \in ClientIds :
           relay'.clientsById[x] =
              IF x = id THEN NewSession(e, id, seq)
              ELSE IF relay.clientsById[x] # None /\ relay.clientsById[x].endpointKey = e
                   THEN None ELSE relay.clientsById[x]
    BY <2>5, ReboundEffect
  <2>7. c = id
    BY <2>6 DEF Session
  <2>8. /\ Session(c)'.endpointKey = e /\ Session(c)'.lastSequence = seq
    BY <2>6, <2>7 DEF Session, NewSession
  <2>9. /\ Session(d)' = Session(d) /\ d \in Peers(id)
    BY <2>6, <2>7 DEF Session, Peers, Sessions
  <2>10. /\ RelayOutput(e, ServerEvent("clientConnected", d, Session(d).lastSequence))
               \in result'.outputs
         /\ RelayOutput(Session(d).endpointKey, ServerEvent("clientConnected", id, seq))
               \in result'.outputs
         /\ relay'.latestSnapshotsByClientId[d] # None =>
               RelayOutput(e, Reencoded(relay'.latestSnapshotsByClientId[d]))
                   \in result'.outputs
    BY <2>5, <2>9, ConnectOutputsMembers
  <2> QED BY <2>7, <2>8, <2>9, <2>10
<1> QED BY <1>1, RelayConsistent, PTL DEF RelaySpec, NewcomerSeesWorld

-----------------------------------------------------------------------------
(* Viewers, network and relay.                                             *)

\* What process v sends, and what the relay sends.
SentBy(v) ==
    {p \in ConnectPackets \cup DisconnectPackets \cup ActorSnapshots :
        /\ p.clientId = IdOf[v] /\ p.clientId \in ClientIds
        /\ p.kind = "snapshot" => p.yaw = Facing[v]}

SentByRelay == {p \in ActorSnapshots \cup ServerEventPackets : p.clientId \in ClientIds}

ViewerStates ==
    [state : {"new", "running", "closed", "crashed"}, tick : 0..(setting.modulus - 1)]

\* Types, and that a session of an endpoint is one of the id its process has.
Sound ==
    /\ setting \in Settings
    /\ Consistent(relay)
    /\ ResultTyped(result)
    /\ \A o \in result.outputs : o.packet \in SentByRelay
    /\ server \in {"running", "stopped"}
    /\ viewers \in [Endpoints -> ViewerStates]
    /\ rosters \in [Endpoints -> [ClientIds -> Poses \cup {None}]]
    /\ toServer \in [Endpoints -> Seq(Packets)]
    /\ toViewer \in [Endpoints -> Seq(SentByRelay)]
    /\ \A v \in Endpoints :
          /\ toServer[v] \in Seq(SentBy(v))
          /\ relay.clientIdByEndpoint[v] \in {None, IdOf[v]}
          /\ ~ Runs(v) => toViewer[v] = <<>>
          /\ Runs(v) => IdOf[v] \in ClientIds
          /\ viewers[v].state = "new" =>
                toServer[v] = <<>> /\ relay.clientIdByEndpoint[v] = None
-----------------------------------------------------------------------------
\* Packet p makes a viewer show, or take away, the actor of c.
Announces(p, c) ==
    p.clientId = c /\ (p.kind = "snapshot" \/ p.event = "clientConnected")

Dismisses(p, c) ==
    p.clientId = c /\ p.kind = "serverEvent" /\ p.event = "clientDisconnected"

\* Every datagram sent to a running process arrives, and where they may overtake each
\* other no two processes are started with the same id.
Announcing ==
    /\ "lose" \notin Faults
    /\ "reorder" \in Faults =>
          \A v, w \in Endpoints : IdOf[v] # None /\ IdOf[v] = IdOf[w] => v = w

\* Once the datagrams on their way to v have arrived, v shows c.
Heard(v, c) ==
    \/ \E o \in result.outputs : o.to = v /\ Announces(o.packet, c)
    \/ \E i \in DOMAIN toViewer[v] :
          /\ Announces(toViewer[v][i], c)
          /\ \A j \in DOMAIN toViewer[v] : j > i => ~ Dismisses(toViewer[v][j], c)
    \/ /\ Knows(v, c)
       /\ \A j \in DOMAIN toViewer[v] : ~ Dismisses(toViewer[v][j], c)

\* Nothing on its way dismisses the client of process w.
NotDismissed(w) ==
    /\ \A i \in DOMAIN toServer[w] : toServer[w][i].kind # "disconnect"
    /\ \A o \in result.outputs : ~ Dismisses(o.packet, IdOf[w])
    /\ \A v \in Endpoints : \A i \in DOMAIN toViewer[v] : ~ Dismisses(toViewer[v][i], IdOf[w])

HasSession(w) == IdOf[w] # None /\ relay.clientIdByEndpoint[w] = IdOf[w]

AllHeard ==
    /\ \A w \in Endpoints :
          HasSession(w) => \A o \in result.outputs : ~ Dismisses(o.packet, IdOf[w])
    /\ "reorder" \in Faults =>
          \A w \in Endpoints :
              viewers[w].state \in {"new", "running"} /\ IdOf[w] # None => NotDismissed(w)
    /\ \A v, w \in Endpoints :
          v # w /\ Holds(v) /\ Holds(w) => Heard(v, IdOf[w])
-----------------------------------------------------------------------------
\* The network brings what it carries once and in order, within one round of ticks.
InOrder == {"reorder", "duplicate"} \cap Faults = {} /\ setting.lastTick < setting.modulus

\* p is a snapshot, pose the pose of a snapshot, that w published.
From(p, w) == p.kind = "snapshot" /\ p.yaw = Facing[w]
Shows(pose, w) == pose \in SnapshotPoses /\ pose.yaw = Facing[w]

\* No snapshot of w has been relayed.
Unseen(w) ==
    /\ \A c \in ClientIds : /\ relay.latestSnapshotsByClientId[c] # None =>
                                  ~ From(relay.latestSnapshotsByClientId[c], w)
                            /\ \A v \in Endpoints : ~ Shows(rosters[v][c], w)
    /\ \A o \in result.outputs : ~ From(o.packet, w)
    /\ \A v \in Endpoints : \A i \in DOMAIN toViewer[v] : ~ From(toViewer[v][i], w)

\* What arrives at a viewer that shows tick t of w takes it to a later tick of w.
Continues(p, w, t) ==
    p.clientId = IdOf[w] => /\ ~ Dismisses(p, IdOf[w])
                            /\ p.kind = "snapshot" => From(p, w) /\ p.tick >= t

Latest(w) == relay.latestSnapshotsByClientId[IdOf[w]]

\* The ticks w publishes ascend along their way.
Ascends(w) ==
    /\ \A i \in DOMAIN toServer[w] : toServer[w][i].kind = "snapshot" =>
          /\ toServer[w][i].tick <= viewers[w].tick
          /\ \A j \in DOMAIN toServer[w] : j > i /\ toServer[w][j].kind = "snapshot" =>
                toServer[w][i].tick <= toServer[w][j].tick
    /\ HasSession(w) /\ Latest(w) # None =>
          /\ From(Latest(w), w)
          /\ Latest(w).tick <= viewers[w].tick
          /\ \A i \in DOMAIN toServer[w] : toServer[w][i].kind = "snapshot" =>
                Latest(w).tick <= toServer[w][i].tick

\* What the server still has to send about the client of w is no older, and no dismissal.
Relays(w) ==
    \A o \in result.outputs : o.packet.clientId = IdOf[w] =>
       /\ ~ Dismisses(o.packet, IdOf[w])
       /\ o.packet.kind = "snapshot" =>
             /\ Latest(w) # None
             /\ From(o.packet, w) /\ o.packet.tick = Latest(w).tick

\* v goes on along the ticks of w.
Follows(v, w) ==
    /\ \A i \in DOMAIN toViewer[v] :
          From(toViewer[v][i], w) /\ toViewer[v][i].clientId = IdOf[w] =>
             /\ Latest(w) # None /\ toViewer[v][i].tick <= Latest(w).tick
             /\ \A j \in DOMAIN toViewer[v] : j > i =>
                   Continues(toViewer[v][j], w, toViewer[v][i].tick)
    /\ LET shown == rosters[v][IdOf[w]]
       IN  Shows(shown, w) =>
             /\ Latest(w) # None /\ shown.tick <= Latest(w).tick
             /\ \A j \in DOMAIN toViewer[v] : Continues(toViewer[v][j], w, shown.tick)

AllFollowed ==
    /\ \A c \in ClientIds : relay.latestSnapshotsByClientId[c] # None =>
                               relay.latestSnapshotsByClientId[c].yaw # YawMax
    /\ \A w \in Endpoints : viewers[w].state = "new" => Unseen(w)
    /\ \A w \in Endpoints : \A i \in DOMAIN toServer[w] :
          toServer[w][i].kind = "connect" =>
             i = 1 /\ relay.clientIdByEndpoint[w] = None /\ Unseen(w)
    /\ \A w \in Endpoints : Ascends(w)
    /\ \A w \in Endpoints : HasSession(w) => Relays(w)
    /\ \A w, v \in Endpoints : HasSession(w) /\ IdOf[v] # IdOf[w] => Follows(v, w)

AnnouncedInv == Announcing => AllHeard
FollowedInv == InOrder => AllFollowed
-----------------------------------------------------------------------------
\* The instance of SnapshotBatch in RelaySystem is the one the lemmas are about.
LEMMA SameBatch ==
    ASSUME NEW poses, NEW own, NEW d
    PROVE  Batch!AfterBatch(poses, own, Batch!EventsIn(d), Batch!SnapshotsIn(d, own))
              = BatchFacts!AfterBatch(poses, own, BatchFacts!EventsIn(d),
                                      BatchFacts!SnapshotsIn(d, own))
<1>1. \A q, P : Batch!Kept(q, P) = BatchFacts!Kept(q, P)
  BY DEF Batch!Kept, BatchFacts!Kept
<1>2. /\ Batch!EventsIn(d) = BatchFacts!EventsIn(d)
      /\ Batch!SnapshotsIn(d, own) = BatchFacts!SnapshotsIn(d, own)
  BY <1>1 DEF Batch!EventsIn, Batch!SnapshotsIn, BatchFacts!EventsIn, BatchFacts!SnapshotsIn
<1>3. \A events, snapshots :
         Batch!AfterBatch(poses, own, events, snapshots)
            = BatchFacts!AfterBatch(poses, own, events, snapshots)
  <2>1. \A q, c : Batch!About(q, c) = BatchFacts!About(q, c)
    BY DEF Batch!About, BatchFacts!About
  <2>2. \A P : Batch!Max(P) = BatchFacts!Max(P)
    BY DEF Batch!Max, BatchFacts!Max
  <2>3. \A q, c : Batch!Leaving(q, c) = BatchFacts!Leaving(q, c)
    BY <2>1 DEF Batch!Leaving, BatchFacts!Leaving
  <2>4. \A q, c : Batch!LastPose(q, c) = BatchFacts!LastPose(q, c)
    BY <2>1, <2>2 DEF Batch!LastPose, BatchFacts!LastPose
  <2>5. \A pose, q, c : Batch!AfterEvents(pose, q, c) = BatchFacts!AfterEvents(pose, q, c)
    BY <2>1, <2>2, <2>3 DEF Batch!AfterEvents, BatchFacts!AfterEvents
  <2> QED BY <2>1, <2>4, <2>5 DEF Batch!AfterBatch, BatchFacts!AfterBatch
<1> QED BY <1>2, <1>3

\* The snapshots, and the events, about client c among the first n of a queue.
FirstSnapshots(q, n, c) == {i \in 1..n : q[i].kind = "snapshot" /\ q[i].clientId = c}
FirstEvents(q, n, c) == {i \in 1..n : q[i].kind = "serverEvent" /\ q[i].clientId = c}

\* What draining the first n datagrams of a queue makes of the pose of client c.
PumpsTo(q, n, c, pose, next) ==
    LET snaps == FirstSnapshots(q, n, c)
        events == FirstEvents(q, n, c)
    IN  /\ snaps # {} =>
              \E m \in snaps : /\ \A i \in snaps : i <= m
                               /\ next = [tick |-> q[m].tick, yaw |-> q[m].yaw]
        /\ snaps = {} /\ events = {} => next = pose
        /\ snaps = {} /\ events # {} =>
              /\ \E m \in events : /\ \A i \in events : i <= m
                                   /\ next = None <=> Dismisses(q[m], c)
              /\ next \in {None, SpawnPose, pose}
              /\ pose # None /\ (\A i \in events : ~ Dismisses(q[i], c)) => next = pose

LEMMA PumpedPose ==
    ASSUME NEW S, NEW q \in Seq(S), NEW n \in 1..Len(q), NEW own, NEW poses,
           NEW c \in ClientIds
    PROVE  LET d == [i \in 1..n |-> Posed(q[i])]
               next == Batch!AfterBatch(poses, own, Batch!EventsIn(d),
                                        Batch!SnapshotsIn(d, own))
           IN  IF c = own THEN next[c] = poses[c]
               ELSE PumpsTo(q, n, c, poses[c], next[c])
<1> DEFINE d == [i \in 1..n |-> Posed(q[i])]
           next == BatchFacts!AfterBatch(poses, own, BatchFacts!EventsIn(d),
                                         BatchFacts!SnapshotsIn(d, own))[c]
           snaps == BatchFacts!SnapshotsAbout(d, c)
           events == BatchFacts!EventsAbout(d, c)
           T == {Posed(q[i]) : i \in 1..n}
<1>1. d \in Seq(T) /\ Len(d) = n
  <2>1. n \in Nat
    BY LenProperties
  <2>2. d \in [1..n -> T]
    OBVIOUS
  <2>3. d \in Seq(T)
    BY <2>1, <2>2, SeqDef
  <2> QED BY <2>1, <2>2, <2>3, LenProperties
<1>2. SpawnPose # None
  BY PosesAssumption
<1>3. /\ c = own => next = poses[c]
      /\ c # own /\ snaps # {} => next = d[BatchFacts!Max(snaps)].pose
      /\ c # own /\ snaps = {} /\ events = {} => next = poses[c]
      /\ c # own /\ snaps = {} /\ events # {} =>
            /\ next = None
                  <=> d[BatchFacts!Max(events)].event = "clientDisconnected"
            /\ next \in {None, SpawnPose, poses[c]}
            /\ poses[c] # None
               /\ (\A i \in events : d[i].event # "clientDisconnected")
                  => next = poses[c]
  <2> HIDE DEF d, T
  <2> QED BY <1>1, <1>2, BatchFacts!BatchOutcome
<1>4. /\ snaps = FirstSnapshots(q, n, c)
      /\ events = FirstEvents(q, n, c)
  <2>1. \A i \in 1..n : /\ d[i].kind = q[i].kind
                        /\ d[i].kind \in {"snapshot", "serverEvent"} =>
                              d[i].clientId = q[i].clientId
    BY DEF Posed
  <2> HIDE DEF d
  <2>2. snaps = FirstSnapshots(q, n, c)
    BY <1>1, <2>1 DEF BatchFacts!SnapshotsAbout, FirstSnapshots
  <2>3. events = FirstEvents(q, n, c)
    BY <1>1, <2>1 DEF BatchFacts!EventsAbout, FirstEvents
  <2> QED BY <2>2, <2>3
<1>5. /\ \A i \in snaps : d[i].pose = [tick |-> q[i].tick, yaw |-> q[i].yaw]
      /\ \A i \in events : d[i].event = "clientDisconnected" <=> Dismisses(q[i], c)
  <2>1. \A i \in 1..n : d[i] = Posed(q[i])
    OBVIOUS
  <2> HIDE DEF d
  <2>2. \A i \in snaps : i \in 1..n /\ q[i].kind = "snapshot"
    BY <1>4 DEF FirstSnapshots
  <2>3. \A i \in events : i \in 1..n /\ q[i].kind = "serverEvent" /\ q[i].clientId = c
    BY <1>4 DEF FirstEvents
  <2> HIDE DEF snaps, events
  <2>4. ASSUME NEW i \in snaps
        PROVE  d[i].pose = [tick |-> q[i].tick, yaw |-> q[i].yaw]
    <3>1. d[i] = [kind |-> "snapshot", clientId |-> q[i].clientId,
                  pose |-> [tick |-> q[i].tick, yaw |-> q[i].yaw]]
      BY <2>1, <2>2 DEF Posed
    <3> QED BY <3>1
  <2>5. \A i \in events : d[i].event = "clientDisconnected" <=> Dismisses(q[i], c)
    BY <2>1, <2>3 DEF Posed, Dismisses
  <2> QED BY <2>4, <2>5
<1>6. /\ snaps # {} => /\ BatchFacts!Max(snaps) \in snaps
                       /\ \A i \in snaps : i <= BatchFacts!Max(snaps)
      /\ events # {} => /\ BatchFacts!Max(events) \in events
                        /\ \A i \in events : i <= BatchFacts!Max(events)
  <2>1. n \in Nat
    BY LenProperties
  <2>2. snaps \in SUBSET (1..n) /\ events \in SUBSET (1..n)
    BY <1>4 DEF FirstSnapshots, FirstEvents
  <2> HIDE DEF snaps, events
  <2>3. ASSUME snaps # {}
        PROVE  /\ BatchFacts!Max(snaps) \in snaps
               /\ \A i \in snaps : i <= BatchFacts!Max(snaps)
    BY <2>1, <2>2, <2>3, BatchFacts!MaxOfPositions
  <2>4. ASSUME events # {}
        PROVE  /\ BatchFacts!Max(events) \in events
               /\ \A i \in events : i <= BatchFacts!Max(events)
    BY <2>1, <2>2, <2>4, BatchFacts!MaxOfPositions
  <2> QED BY <2>3, <2>4
<1>7. next = Batch!AfterBatch(poses, own, Batch!EventsIn(d), Batch!SnapshotsIn(d, own))[c]
  <2> HIDE DEF d
  <2> QED BY SameBatch
<1>8. ASSUME c # own PROVE PumpsTo(q, n, c, poses[c], next)
  <2> HIDE DEF next, snaps, events, d
  <2>1. snaps # {} =>
              \E m \in snaps : /\ \A i \in snaps : i <= m
                               /\ next = [tick |-> q[m].tick, yaw |-> q[m].yaw]
    BY <1>3, <1>5, <1>6, <1>8
  <2>2. snaps = {} /\ events # {} =>
              /\ \E m \in events : /\ \A i \in events : i <= m
                                   /\ next = None <=> Dismisses(q[m], c)
              /\ next \in {None, SpawnPose, poses[c]}
              /\ poses[c] # None /\ (\A i \in events : ~ Dismisses(q[i], c))
                    => next = poses[c]
    BY <1>3, <1>5, <1>6, <1>8
  <2>3. snaps = {} /\ events = {} => next = poses[c]
    BY <1>3, <1>8
  <2> QED BY <1>4, <2>1, <2>2, <2>3 DEF PumpsTo
<1>9. c = own => next = poses[c]
  <2> HIDE DEF next
  <2> QED BY <1>3
<1> QED BY <1>7, <1>8, <1>9
-----------------------------------------------------------------------------
\* queue is what q becomes when p is sent into it: its i-th datagram was the from[i]-th
\* of q, or is p where from[i] is 0.
Carries(queue, q, p, from) ==
    /\ from \in [1..Len(queue) -> 0..Len(q)]
    /\ \A i \in 1..Len(queue) : queue[i] = IF from[i] = 0 THEN p ELSE q[from[i]]
    /\ \A i, j \in 1..Len(queue) : i < j /\ from[i] # 0 /\ from[j] # 0 => from[i] < from[j]
    /\ \A k \in 1..Len(q) : \E i \in 1..Len(queue) : from[i] = k
    /\ "lose" \notin Faults => \E i \in 1..Len(queue) : from[i] = 0
    /\ "reorder" \notin Faults =>
          \A i, j \in 1..Len(queue) : i < j /\ from[i] = 0 => from[j] = 0

LEMMA SentCarries ==
    ASSUME NEW S, NEW q \in Seq(S), NEW p \in S, NEW queue \in Sent(q, p)
    PROVE  queue \in Seq(S) /\ \E from : Carries(queue, q, p, from)
<1> DEFINE n == Len(q)
<1>1. n \in Nat
  BY LenProperties
<1>2. \/ queue = Append(q, p)
      \/ queue = q /\ "lose" \in Faults
      \/ queue = q \o <<p, p>>
      \/ "reorder" \in Faults /\ \E i \in DOMAIN q : queue = InsertAt(q, i, p)
  BY DEF Sent
<1> HIDE DEF n
<1>3. CASE queue = Append(q, p)
  <2> DEFINE from == [i \in 1..n + 1 |-> IF i <= n THEN i ELSE 0]
  <2>1. /\ queue \in Seq(S) /\ Len(queue) = n + 1
        /\ \A i \in 1..n : queue[i] = q[i]
        /\ queue[n + 1] = p
    BY <1>3, AppendProperties DEF n
  <2>2. Carries(queue, q, p, from)
    <3>1. from \in [1..Len(queue) -> 0..n]
      BY <1>1, <2>1
    <3>2. \A i \in 1..n + 1 : from[i] = IF i <= n THEN i ELSE 0
      OBVIOUS
    <3> HIDE DEF from
    <3>3. \A i \in 1..Len(queue) : queue[i] = IF from[i] = 0 THEN p ELSE q[from[i]]
      BY <1>1, <2>1, <3>2
    <3>4. \A i, j \in 1..Len(queue) : i < j /\ from[i] # 0 /\ from[j] # 0
                                         => from[i] < from[j]
      BY <1>1, <2>1, <3>2
    <3>5. \A k \in 1..n : \E i \in 1..Len(queue) : from[i] = k
      <4>1. \A k \in 1..n : k \in 1..Len(queue) /\ from[k] = k
        BY <1>1, <2>1, <3>2
      <4> QED BY <4>1
    <3>6. from[n + 1] = 0 /\ n + 1 \in 1..Len(queue)
      BY <1>1, <2>1, <3>2
    <3>7. \A i, j \in 1..Len(queue) : i < j /\ from[i] = 0 => from[j] = 0
      BY <1>1, <2>1, <3>2
    <3> QED BY <3>1, <3>3, <3>4, <3>5, <3>6, <3>7 DEF Carries, n
  <2> QED BY <2>1, <2>2
<1>4. CASE queue = q /\ "lose" \in Faults
  <2> DEFINE from == [i \in 1..n |-> i]
  <2>1. from \in [1..n -> 0..n] /\ \A i \in 1..n : from[i] = i
    BY <1>1
  <2> HIDE DEF from
  <2>2. Carries(queue, q, p, from)
    BY <1>1, <1>4, <2>1 DEF Carries, n
  <2> QED BY <1>4, <2>2
<1>5. CASE queue = q \o <<p, p>>
  <2> DEFINE from == [i \in 1..n + 2 |-> IF i <= n THEN i ELSE 0]
             two == <<p, p>>
  <2>1. two \in Seq(S) /\ Len(two) = 2 /\ two[1] = p /\ two[2] = p
    OBVIOUS
  <2> HIDE DEF two
  <2>2. /\ q \o two \in Seq(S)
        /\ Len(q \o two) = Len(q) + Len(two)
        /\ \A i \in 1..Len(q) + Len(two) :
              (q \o two)[i] = IF i <= Len(q) THEN q[i] ELSE two[i - Len(q)]
    BY <2>1, ConcatProperties
  <2>3. /\ queue \in Seq(S) /\ Len(queue) = n + 2
        /\ \A i \in 1..n : queue[i] = q[i]
        /\ queue[n + 1] = p /\ queue[n + 2] = p
    BY <1>1, <1>5, <2>1, <2>2 DEF n, two
  <2>4. Carries(queue, q, p, from)
    <3>1. from \in [1..Len(queue) -> 0..n]
      BY <1>1, <2>3
    <3>2. \A i \in 1..n + 2 : from[i] = IF i <= n THEN i ELSE 0
      OBVIOUS
    <3> HIDE DEF from
    <3>3. \A i \in 1..Len(queue) : queue[i] = IF from[i] = 0 THEN p ELSE q[from[i]]
      <4>1. \A i \in 1..Len(queue) : i \in 1..n \/ i = n + 1 \/ i = n + 2
        BY <1>1, <2>3
      <4> QED BY <1>1, <2>3, <3>2, <4>1
    <3>4. \A i, j \in 1..Len(queue) : i < j /\ from[i] # 0 /\ from[j] # 0
                                         => from[i] < from[j]
      BY <1>1, <2>3, <3>2
    <3>5. \A k \in 1..n : \E i \in 1..Len(queue) : from[i] = k
      <4>1. \A k \in 1..n : k \in 1..Len(queue) /\ from[k] = k
        BY <1>1, <2>3, <3>2
      <4> QED BY <4>1
    <3>6. from[n + 1] = 0 /\ n + 1 \in 1..Len(queue)
      BY <1>1, <2>3, <3>2
    <3>7. \A i, j \in 1..Len(queue) : i < j /\ from[i] = 0 => from[j] = 0
      BY <1>1, <2>3, <3>2
    <3> QED BY <3>1, <3>3, <3>4, <3>5, <3>6, <3>7 DEF Carries, n
  <2> QED BY <2>3, <2>4
<1>6. ASSUME "reorder" \in Faults, NEW m \in DOMAIN q, queue = InsertAt(q, m, p)
      PROVE  queue \in Seq(S) /\ \E from : Carries(queue, q, p, from)
  <2> DEFINE from == [i \in 1..n + 1 |-> IF i < m THEN i ELSE IF i = m THEN 0 ELSE i - 1]
             one == <<p>>
             a == SubSeq(q, 1, m - 1)
             b == SubSeq(q, m, n)
  <2>1. one \in Seq(S) /\ Len(one) = 1 /\ one[1] = p
    OBVIOUS
  <2>2. m \in 1..n /\ \A i \in 1..n : q[i] \in S
    BY LenProperties, ElementOfSeq DEF n
  <2>3. /\ a \in Seq(S) /\ Len(a) = m - 1
        /\ \A i \in 1..m - 1 : a[i] = q[i]
    <3>1. m \in Int /\ 1 \in Int /\ m - 1 \in Int /\ \A i \in 1..m - 1 : i \in 1..n
      BY <1>1, <2>2
    <3>2. \A i \in 1..m - 1 : q[i] \in S
      BY <2>2, <3>1
    <3>3. /\ a \in Seq(S)
          /\ Len(a) = IF 1 <= m - 1 THEN m - 1 - 1 + 1 ELSE 0
          /\ \A i \in 1..m - 1 - 1 + 1 : a[i] = q[1 + i - 1]
      BY <3>1, <3>2, SubSeqProperties
    <3> HIDE DEF a
    <3> QED BY <1>1, <2>2, <3>1, <3>3
  <2>4. /\ b \in Seq(S) /\ Len(b) = n - m + 1
        /\ \A i \in 1..n - m + 1 : b[i] = q[m + i - 1]
    <3>1. m \in Int /\ n \in Int /\ m <= n /\ \A i \in m..n : i \in 1..n
      BY <1>1, <2>2
    <3>2. \A i \in m..n : q[i] \in S
      BY <2>2, <3>1
    <3>3. /\ b \in Seq(S)
          /\ Len(b) = IF m <= n THEN n - m + 1 ELSE 0
          /\ \A i \in 1..n - m + 1 : b[i] = q[m + i - 1]
      BY <3>1, <3>2, SubSeqProperties
    <3> HIDE DEF b
    <3> QED BY <3>1, <3>3
  <2>5. queue = (a \o one) \o b
    BY <1>6 DEF InsertAt, n
  <2> HIDE DEF a, b, one
  <2> DEFINE c == a \o one
  <2>6. /\ c \in Seq(S)
        /\ Len(c) = Len(a) + Len(one)
        /\ \A i \in 1..Len(a) + Len(one) :
              c[i] = IF i <= Len(a) THEN a[i] ELSE one[i - Len(a)]
    BY <2>1, <2>3, ConcatProperties
  <2> HIDE DEF c
  <2>7. /\ c \o b \in Seq(S)
        /\ Len(c \o b) = Len(c) + Len(b)
        /\ \A i \in 1..Len(c) + Len(b) :
              (c \o b)[i] = IF i <= Len(c) THEN c[i] ELSE b[i - Len(c)]
    <3>1. c \in Seq(S)
      BY <2>6
    <3>2. b \in Seq(S)
      BY <2>4
    <3> QED BY <3>1, <3>2, ConcatProperties
  <2>8. queue = c \o b
    BY <2>5 DEF c
  <2>9. Len(c) = m /\ c[m] = p /\ \A i \in 1..m - 1 : c[i] = q[i]
    BY <1>1, <2>1, <2>2, <2>3, <2>6
  <2>10. /\ queue \in Seq(S) /\ Len(queue) = n + 1
         /\ \A i \in 1..m - 1 : queue[i] = q[i]
         /\ queue[m] = p
         /\ \A i \in m + 1..n + 1 : queue[i] = q[i - 1]
    <3>1. queue \in Seq(S) /\ Len(queue) = Len(c) + Len(b)
      BY <2>7, <2>8
    <3>2. Len(c) = m /\ Len(c) + Len(b) = n + 1
      BY <1>1, <2>2, <2>4, <2>9
    <3>3. \A i \in 1..n + 1 : queue[i] = IF i <= m THEN c[i] ELSE b[i - m]
      <4>1. \A i \in 1..Len(c) + Len(b) :
               queue[i] = IF i <= Len(c) THEN c[i] ELSE b[i - Len(c)]
        BY <2>7, <2>8
      <4> QED BY <3>2, <4>1
    <3>4. queue[m] = p /\ \A i \in 1..m - 1 : queue[i] = q[i]
      BY <1>1, <2>2, <2>9, <3>3
    <3>5. ASSUME NEW i \in m + 1..n + 1 PROVE queue[i] = q[i - 1]
      <4>1. i - m \in 1..n - m + 1 /\ m + (i - m) - 1 = i - 1 /\ ~ (i <= m) /\ i \in 1..n + 1
        BY <1>1, <2>2
      <4>2. b[i - m] = q[m + (i - m) - 1]
        BY <2>4, <4>1
      <4> QED BY <3>3, <4>1, <4>2
    <3> QED BY <3>1, <3>2, <3>4, <3>5
  <2>11. Carries(queue, q, p, from)
    <3>1. from \in [1..Len(queue) -> 0..n]
      BY <1>1, <2>2, <2>10
    <3>2. \A i \in 1..n + 1 : from[i] = IF i < m THEN i ELSE IF i = m THEN 0 ELSE i - 1
      OBVIOUS
    <3> HIDE DEF from
    <3>3. ASSUME NEW i \in 1..Len(queue)
          PROVE  queue[i] = IF from[i] = 0 THEN p ELSE q[from[i]]
      <4>1. CASE i < m
        BY <1>1, <2>2, <2>10, <3>2, <4>1
      <4>2. CASE i = m
        BY <1>1, <2>2, <2>10, <3>2, <4>2
      <4>3. CASE i > m
        BY <1>1, <2>2, <2>10, <3>2, <4>3
      <4> QED BY <1>1, <2>2, <2>10, <4>1, <4>2, <4>3
    <3>4. \A i, j \in 1..Len(queue) : i < j /\ from[i] # 0 /\ from[j] # 0
                                         => from[i] < from[j]
      BY <1>1, <2>2, <2>10, <3>2
    <3>5. \A k \in 1..n : \E i \in 1..Len(queue) : from[i] = k
      <4>1. \A k \in 1..n : IF k < m THEN k \in 1..Len(queue) /\ from[k] = k
                            ELSE k + 1 \in 1..Len(queue) /\ from[k + 1] = k
        BY <1>1, <2>2, <2>10, <3>2
      <4> QED BY <4>1
    <3>6. from[m] = 0 /\ m \in 1..Len(queue)
      BY <1>1, <2>2, <2>10, <3>2
    <3> QED BY <1>6, <3>1, <3>3, <3>4, <3>5, <3>6 DEF Carries, n
  <2> QED BY <2>10, <2>11
<1> QED BY <1>2, <1>3, <1>4, <1>5, <1>6

\* What is left of a queue when its first n datagrams are taken.
LEMMA RestOfQueue ==
    ASSUME NEW S, NEW q \in Seq(S), NEW n \in 1..Len(q)
    PROVE  LET rest == SubSeq(q, n + 1, Len(q))
           IN  /\ rest \in Seq(S) /\ Len(rest) = Len(q) - n
               /\ \A i \in 1..Len(rest) : rest[i] = q[n + i]
<1> DEFINE rest == SubSeq(q, n + 1, Len(q))
           m == n + 1
<1>1. Len(q) \in Nat /\ n \in Int /\ n >= 1 /\ n <= Len(q) /\ m \in Int
  BY LenProperties
<1>2. \A i \in m..Len(q) : q[i] \in S
  <2>1. \A i \in m..Len(q) : i \in 1..Len(q)
    BY <1>1
  <2> QED BY <2>1, ElementOfSeq
<1>3. /\ SubSeq(q, m, Len(q)) \in Seq(S)
      /\ Len(SubSeq(q, m, Len(q))) = IF m <= Len(q) THEN Len(q) - m + 1 ELSE 0
      /\ \A i \in 1..Len(q) - m + 1 : SubSeq(q, m, Len(q))[i] = q[m + i - 1]
  <2> HIDE DEF m
  <2> QED BY <1>1, <1>2, SubSeqProperties
<1>4. rest = SubSeq(q, m, Len(q))
  OBVIOUS
<1> HIDE DEF rest
<1>5. rest \in Seq(S) /\ Len(rest) = Len(q) - n
  BY <1>1, <1>3, <1>4
<1>6. ASSUME NEW i \in 1..Len(rest) PROVE rest[i] = q[n + i]
  <2>1. i \in 1..Len(q) - m + 1 /\ m + i - 1 = n + i
    BY <1>1, <1>5
  <2> QED BY <1>3, <1>4, <2>1
<1> QED BY <1>5, <1>6 DEF rest
-----------------------------------------------------------------------------
\* What a process sends, and what the relay sends, is made of.
LEMMA SentByFields ==
    ASSUME NEW v \in Endpoints, NEW p \in SentBy(v)
    PROVE  /\ p \in Packets /\ p.clientId = IdOf[v] /\ p.clientId \in ClientIds
           /\ p.clientId # 0
           /\ p.kind \in {"connect", "disconnect", "snapshot"}
           /\ p.kind \in {"connect", "disconnect"} => p.sequence \in Sequences
           /\ p.kind = "snapshot" => /\ p \in ActorSnapshots /\ p.tick \in Sequences
                                     /\ p.yaw = Facing[v]
<1>1. p \in ConnectPackets \cup DisconnectPackets \cup ActorSnapshots
      /\ p.clientId = IdOf[v] /\ p.clientId \in ClientIds
      /\ (p.kind = "snapshot" => p.yaw = Facing[v])
  BY DEF SentBy
<1>2. p \in Packets /\ p.clientId # 0
  BY <1>1, ClientIdsAssumption DEF Packets
<1>3. CASE p \in ConnectPackets
  BY <1>1, <1>2, <1>3 DEF ConnectPackets
<1>4. CASE p \in DisconnectPackets
  BY <1>1, <1>2, <1>4 DEF DisconnectPackets
<1>5. CASE p \in ActorSnapshots
  <2>1. p.kind = "snapshot" /\ p.tick \in Sequences
    BY <1>5 DEF ActorSnapshots
  <2> QED BY <1>1, <1>2, <1>5, <2>1
<1> QED BY <1>1, <1>3, <1>4, <1>5

LEMMA SentByRelayFields ==
    ASSUME NEW p \in SentByRelay
    PROVE  /\ p \in Packets /\ p.clientId \in ClientIds
           /\ p.kind \in {"snapshot", "serverEvent"}
           /\ p.kind = "serverEvent" => p.event \in EventKinds
           /\ p.kind = "snapshot" =>
                 /\ p \in ActorSnapshots
                 /\ [tick |-> p.tick, yaw |-> p.yaw] \in SnapshotPoses
<1>1. p \in ActorSnapshots \cup ServerEventPackets /\ p.clientId \in ClientIds
  BY DEF SentByRelay
<1>2. p \in Packets
  BY <1>1 DEF Packets
<1>3. CASE p \in ActorSnapshots
  BY <1>1, <1>2, <1>3 DEF ActorSnapshots, SnapshotPoses
<1>4. CASE p \in ServerEventPackets
  BY <1>1, <1>2, <1>4 DEF ServerEventPackets
<1> QED BY <1>1, <1>3, <1>4

\* The constants of a setting.
LEMMA SettingFields ==
    ASSUME setting \in Settings
    PROVE  /\ IdOf \in [Endpoints -> ClientIds \cup {None}]
           /\ setting.modulus \in Nat \ {0} /\ setting.lastTick \in Nat
           /\ 0..(setting.modulus - 1) \subseteq Sequences
BY SettingsAssumption DEF IdOf

\* The yaw a process publishes is less than a full turn: it is relayed as it is.
LEMMA SameReencoded ==
    ASSUME NEW v \in Endpoints, NEW p, p.yaw = Facing[v]
    PROVE  Reencoded(p) = p
<1>1. Facing[v] \in 0..(YawMax - 1) /\ YawMax \in Nat
  BY FacingAssumption, YawMaxAssumption
<1>2. p.yaw # YawMax
  BY <1>1
<1> QED BY <1>2 DEF Reencoded
-----------------------------------------------------------------------------
\* What ingesting a datagram p of process v does to the maps and makes the server send,
\* c being the id v was started with.
IngestsNothing(v, p, c) ==
    /\ p.kind = "connect" => relay.clientIdByEndpoint[v] = c
    /\ p.kind \in {"disconnect", "snapshot"} => relay.clientIdByEndpoint[v] # c
    /\ \A f \in Endpoints : relay'.clientIdByEndpoint[f] = relay.clientIdByEndpoint[f]
    /\ relay'.latestSnapshotsByClientId = relay.latestSnapshotsByClientId
    /\ result'.outputs = {}

IngestsConnect(v, p, c) ==
    /\ p.kind = "connect" /\ relay.clientIdByEndpoint[v] = None
    /\ \A f \in Endpoints : relay'.clientIdByEndpoint[f] =
          IF f = v THEN c ELSE IF relay.clientIdByEndpoint[f] = c THEN None
          ELSE relay.clientIdByEndpoint[f]
    /\ \A d \in ClientIds : relay'.latestSnapshotsByClientId[d] =
          IF d = c THEN None ELSE relay.latestSnapshotsByClientId[d]
    /\ \A w \in Endpoints \ {v} : relay'.clientIdByEndpoint[w] # None =>
          /\ \E o \in result'.outputs :
                o.to = v /\ Announces(o.packet, relay'.clientIdByEndpoint[w])
          /\ \E o \in result'.outputs : o.to = w /\ Announces(o.packet, c)
    /\ \A o \in result'.outputs :
          \/ o.packet.kind = "serverEvent" /\ o.packet.event = "clientConnected"
          \/ \E d \in ClientIds \ {c} :
                /\ relay.latestSnapshotsByClientId[d] # None
                /\ o.packet = Reencoded(relay.latestSnapshotsByClientId[d])
    /\ \A o \in result'.outputs : o.packet.clientId \in ClientIds

IngestsDisconnect(v, p, c) ==
    /\ p.kind = "disconnect" /\ relay.clientIdByEndpoint[v] = c
    /\ \A f \in Endpoints : relay'.clientIdByEndpoint[f] =
          IF f = v THEN None ELSE relay.clientIdByEndpoint[f]
    /\ \A d \in ClientIds : relay'.latestSnapshotsByClientId[d] =
          IF d = c THEN None ELSE relay.latestSnapshotsByClientId[d]
    /\ \A o \in result'.outputs :
          o.packet.kind = "serverEvent" /\ o.packet.clientId = c

IngestsSnapshot(v, p, c) ==
    /\ p.kind = "snapshot" /\ relay.clientIdByEndpoint[v] = c
    /\ \A f \in Endpoints : relay'.clientIdByEndpoint[f] = relay.clientIdByEndpoint[f]
    /\ \A d \in ClientIds : relay'.latestSnapshotsByClientId[d] =
          IF d = c THEN p ELSE relay.latestSnapshotsByClientId[d]
    /\ \A o \in result'.outputs : o.packet = p

LEMMA IngestCases ==
    ASSUME Sound, NEW v \in Endpoints, NEW p \in SentBy(v), Ingest(v, p)
    PROVE  \/ IngestsNothing(v, p, IdOf[v]) \/ IngestsConnect(v, p, IdOf[v])
           \/ IngestsDisconnect(v, p, IdOf[v]) \/ IngestsSnapshot(v, p, IdOf[v])
<1> DEFINE c == IdOf[v]
<1>1. /\ p \in Packets /\ p.clientId = c /\ c \in ClientIds /\ c # 0
      /\ p.kind \in {"connect", "disconnect", "snapshot"}
      /\ p.kind \in {"connect", "disconnect"} => p.sequence \in Sequences
      /\ p.kind = "snapshot" => p \in ActorSnapshots /\ p.tick \in Sequences
  BY SentByFields
<1>2. Consistent(relay) /\ relay.clientIdByEndpoint[v] \in {None, c} /\ c # None
  BY <1>1, NoneAssumption DEF Sound
<1> HIDE DEF c
<1>3. CASE IngestRejected(v, p)
  <2>1. relay' = relay /\ result'.outputs = {}
    BY <1>3 DEF IngestRejected, RelayResult
  <2>2. p.kind \in {"disconnect", "snapshot"} /\ relay.clientIdByEndpoint[v] # c
    BY <1>1, <1>3 DEF IngestRejected, Rejects, EndpointOwnsClient
  <2>3. IngestsNothing(v, p, c)
    BY <2>1, <2>2 DEF IngestsNothing
  <2> QED BY <2>3 DEF c
<1>4. CASE IngestDuplicateConnect(v, p)
  <2>1. /\ relay' = NoteSequence(relay, c, p.sequence) /\ result'.outputs = {}
        /\ p.kind = "connect" /\ relay.clientIdByEndpoint[v] = c
    BY <1>1, <1>4 DEF IngestDuplicateConnect, RelayResult, EndpointOwnsClient
  <2>2. IngestsNothing(v, p, c)
    BY <2>1 DEF IngestsNothing, NoteSequence
  <2> QED BY <2>2 DEF c
<1>5. CASE IngestConnect(v, p)
  <2> DEFINE seq == p.sequence
             r == Rebound(relay, v, c, seq)
             latest == r.latestSnapshotsByClientId
  <2>1. /\ p.kind = "connect" /\ relay.clientIdByEndpoint[v] # c /\ seq \in Sequences
        /\ relay' = r
        /\ result'.outputs =
              ConnectOutputs({Session(d) : d \in Peers(c)}, latest, v, c, seq)
    BY <1>1, <1>5 DEF IngestConnect, RelayResult, EndpointOwnsClient
  <2>2. relay.clientIdByEndpoint[v] = None
    BY <1>2, <2>1
  <2> HIDE DEF seq
  <2> DEFINE Loses(d) == relay.clientsById[d] # None /\ relay.clientsById[d].endpointKey = v
  <2>3. /\ \A f \in Endpoints : r.clientIdByEndpoint[f] =
               IF f = v THEN c
               ELSE IF relay.clientIdByEndpoint[f] = c THEN None
               ELSE relay.clientIdByEndpoint[f]
        /\ \A d \in ClientIds :
               /\ r.clientsById[d] = IF d = c THEN NewSession(v, c, seq)
                                     ELSE IF Loses(d) THEN None
                                     ELSE relay.clientsById[d]
               /\ r.latestSnapshotsByClientId[d] =
                     IF d = c \/ Loses(d) THEN None
                     ELSE relay.latestSnapshotsByClientId[d]
    BY <1>1, <1>2, <2>1, ReboundEffect
  <2>4. \A d \in ClientIds : ~ Loses(d)
    BY <1>2, <2>2, NoneAssumption DEF Consistent
  <2> HIDE DEF r, Loses
  <2>5. /\ \A f \in Endpoints : relay'.clientIdByEndpoint[f] =
               IF f = v THEN c ELSE IF relay.clientIdByEndpoint[f] = c THEN None
               ELSE relay.clientIdByEndpoint[f]
        /\ \A d \in ClientIds : relay'.latestSnapshotsByClientId[d] =
               IF d = c THEN None ELSE relay.latestSnapshotsByClientId[d]
        /\ \A d \in ClientIds : latest[d] = relay'.latestSnapshotsByClientId[d]
    BY <2>1, <2>3, <2>4
  <2>6. \A o : o \in result'.outputs <=> \E d \in Peers(c) :
           \/ o = RelayOutput(v, ServerEvent("clientConnected", d, Session(d).lastSequence))
           \/ o = RelayOutput(Session(d).endpointKey, ServerEvent("clientConnected", c, seq))
           \/ latest[d] # None /\ o = RelayOutput(v, Reencoded(latest[d]))
    <3> HIDE DEF latest
    <3> QED BY <1>2, <2>1, ConnectOutputsMembers
  <2>7. ASSUME NEW w \in Endpoints \ {v}, relay'.clientIdByEndpoint[w] # None
        PROVE  /\ \E o \in result'.outputs :
                     o.to = v /\ Announces(o.packet, relay'.clientIdByEndpoint[w])
               /\ \E o \in result'.outputs : o.to = w /\ Announces(o.packet, c)
    <3> DEFINE d == relay'.clientIdByEndpoint[w]
    <3>1. d = relay.clientIdByEndpoint[w] /\ d # c /\ d # None
      BY <2>5, <2>7
    <3>2. d \in ClientIds
      BY <1>2, <3>1 DEF Consistent, RelayMaps
    <3>3. Session(d) # None /\ Session(d).endpointKey = w
      BY <1>2, <3>1, <3>2 DEF Consistent, Session
    <3>4. d \in Peers(c)
      BY <3>1, <3>2, <3>3 DEF Peers, Sessions
    <3> HIDE DEF d
    <3> DEFINE o1 == RelayOutput(v, ServerEvent("clientConnected", d,
                                                Session(d).lastSequence))
               o2 == RelayOutput(w, ServerEvent("clientConnected", c, seq))
    <3>5. o1 \in result'.outputs /\ o2 \in result'.outputs
      BY <2>6, <3>3, <3>4
    <3>6. o1.to = v /\ Announces(o1.packet, d) /\ o2.to = w /\ Announces(o2.packet, c)
      BY DEF RelayOutput, ServerEvent, Announces
    <3> HIDE DEF o1, o2
    <3>7. \E o \in result'.outputs : o.to = v /\ Announces(o.packet, d)
      BY <3>5, <3>6
    <3>8. \E o \in result'.outputs : o.to = w /\ Announces(o.packet, c)
      BY <3>5, <3>6
    <3> QED BY <3>7, <3>8 DEF d
  <2>8. ASSUME NEW o \in result'.outputs
        PROVE  \/ o.packet.kind = "serverEvent" /\ o.packet.event = "clientConnected"
               \/ \E d \in ClientIds \ {c} :
                     /\ relay.latestSnapshotsByClientId[d] # None
                     /\ o.packet = Reencoded(relay.latestSnapshotsByClientId[d])
    <3>1. PICK d \in Peers(c) :
           \/ o = RelayOutput(v, ServerEvent("clientConnected", d, Session(d).lastSequence))
           \/ o = RelayOutput(Session(d).endpointKey, ServerEvent("clientConnected", c, seq))
           \/ latest[d] # None /\ o = RelayOutput(v, Reencoded(latest[d]))
      BY <2>6
    <3>2. d \in ClientIds \ {c}
      BY DEF Peers, Sessions
    <3>3. latest[d] = relay.latestSnapshotsByClientId[d]
      BY <2>5, <3>2
    <3>4. CASE latest[d] # None /\ o = RelayOutput(v, Reencoded(latest[d]))
      <4>1. o.packet = Reencoded(relay.latestSnapshotsByClientId[d])
        BY <3>3, <3>4 DEF RelayOutput
      <4> QED BY <3>2, <3>3, <3>4, <4>1
    <3>5. CASE o = RelayOutput(v, ServerEvent("clientConnected", d,
                                              Session(d).lastSequence))
      BY <3>5 DEF RelayOutput, ServerEvent
    <3>6. CASE o = RelayOutput(Session(d).endpointKey,
                               ServerEvent("clientConnected", c, seq))
      BY <3>6 DEF RelayOutput, ServerEvent
    <3> QED BY <3>1, <3>4, <3>5, <3>6
  <2>9. ASSUME NEW o \in result'.outputs PROVE o.packet.clientId \in ClientIds
    <3>1. PICK d \in Peers(c) :
           \/ o = RelayOutput(v, ServerEvent("clientConnected", d, Session(d).lastSequence))
           \/ o = RelayOutput(Session(d).endpointKey, ServerEvent("clientConnected", c, seq))
           \/ latest[d] # None /\ o = RelayOutput(v, Reencoded(latest[d]))
      BY <2>6
    <3>2. d \in ClientIds
      BY DEF Peers, Sessions
    <3>3. latest[d] = relay.latestSnapshotsByClientId[d] \/ latest[d] = None
      BY <2>5, <3>2
    <3>4. CASE latest[d] # None /\ o = RelayOutput(v, Reencoded(latest[d]))
      <4> DEFINE snap == relay.latestSnapshotsByClientId[d]
      <4>1. snap \in ActorSnapshots /\ snap.clientId = d
        BY <1>2, <3>2, <3>3, <3>4 DEF Consistent, RelayMaps
      <4>2. o.packet = Reencoded(snap)
        BY <3>3, <3>4 DEF RelayOutput
      <4> HIDE DEF snap
      <4> QED BY <3>2, <4>1, <4>2, ReencodedSnapshot
    <3>5. CASE o = RelayOutput(v, ServerEvent("clientConnected", d,
                                              Session(d).lastSequence))
      BY <3>2, <3>5 DEF RelayOutput, ServerEvent
    <3>6. CASE o = RelayOutput(Session(d).endpointKey,
                               ServerEvent("clientConnected", c, seq))
      BY <1>1, <3>6 DEF RelayOutput, ServerEvent
    <3> QED BY <3>1, <3>4, <3>5, <3>6
  <2>10. IngestsConnect(v, p, c)
    BY <2>1, <2>2, <2>5, <2>7, <2>8, <2>9 DEF IngestsConnect
  <2> QED BY <2>10 DEF c
<1>6. CASE IngestDisconnect(v, p)
  <2>1. /\ p.kind = "disconnect" /\ relay.clientIdByEndpoint[v] = c
        /\ relay' = RemoveClient(relay, c)
    BY <1>1, <1>6 DEF IngestDisconnect, Rejects, EndpointOwnsClient
  <2>2. \A o \in result'.outputs : o.packet.kind = "serverEvent" /\ o.packet.clientId = c
    <3>1. result'.outputs =
            {RelayOutput(Session(d).endpointKey,
                         ServerEvent("clientDisconnected", c, p.sequence))
             : d \in Peers(c)}
      BY <1>1, <1>6 DEF IngestDisconnect, RelayResult
    <3> QED BY <3>1 DEF RelayOutput, ServerEvent
  <2>3. /\ \A f \in Endpoints : relay'.clientIdByEndpoint[f] =
               IF relay.clientIdByEndpoint[f] = c THEN None
               ELSE relay.clientIdByEndpoint[f]
        /\ \A d \in ClientIds :
               /\ relay'.clientsById[d] = IF d = c THEN None ELSE relay.clientsById[d]
               /\ relay'.latestSnapshotsByClientId[d] =
                     IF d = c THEN None ELSE relay.latestSnapshotsByClientId[d]
    BY <1>1, <1>2, <2>1, RemoveClientEffect
  <2>4. \A f \in Endpoints : relay.clientIdByEndpoint[f] = c => f = v
    BY <1>1, <1>2, <2>1 DEF Consistent
  <2>5. IngestsDisconnect(v, p, c)
    BY <2>1, <2>2, <2>3, <2>4 DEF IngestsDisconnect
  <2> QED BY <2>5 DEF c
<1>7. CASE IngestSnapshot(v, p)
  <2>1. /\ p.kind = "snapshot" /\ relay.clientIdByEndpoint[v] = c
        /\ relay' = CacheSnapshot(NoteSequence(relay, c, p.tick), c, p)
    BY <1>1, <1>7 DEF IngestSnapshot, Rejects, EndpointOwnsClient
  <2>2. \A o \in result'.outputs : o.packet = p
    <3>1. result'.outputs = {RelayOutput(Session(d).endpointKey, p) : d \in Peers(c)}
      BY <1>1, <1>7 DEF IngestSnapshot, RelayResult
    <3> QED BY <3>1 DEF RelayOutput
  <2>3. /\ relay'.clientIdByEndpoint = relay.clientIdByEndpoint
        /\ relay'.latestSnapshotsByClientId
              = [relay.latestSnapshotsByClientId EXCEPT ![c] = p]
    BY <2>1 DEF CacheSnapshot, NoteSequence
  <2>4. \A d \in ClientIds : relay'.latestSnapshotsByClientId[d] =
           IF d = c THEN p ELSE relay.latestSnapshotsByClientId[d]
    BY <1>1, <1>2, <2>3 DEF Consistent, RelayMaps
  <2>5. IngestsSnapshot(v, p, c)
    BY <2>1, <2>2, <2>3, <2>4 DEF IngestsSnapshot
  <2> QED BY <2>5 DEF c
<1> QED BY <1>3, <1>4, <1>5, <1>6, <1>7 DEF Ingest
-----------------------------------------------------------------------------
\* What SendToServer and SendToViewer make of the queues.
LEMMA ServerQueues ==
    ASSUME Sound, NEW v \in Endpoints, NEW p \in SentBy(v), SendToServer(v, p)
    PROVE  /\ toServer' \in [Endpoints -> Seq(Packets)]
           /\ \A w \in Endpoints : toServer'[w] \in Seq(SentBy(w))
           /\ \A w \in Endpoints : w # v => toServer'[w] = toServer[w]
           /\ \/ toServer'[v] = toServer[v]
              \/ /\ toServer'[v] \in Sent(toServer[v], p)
                 /\ \E from : Carries(toServer'[v], toServer[v], p, from)
<1>1. toServer \in [Endpoints -> Seq(Packets)]
      /\ \A w \in Endpoints : toServer[w] \in Seq(SentBy(w))
  BY DEF Sound
<1>2. \A w \in Endpoints : SentBy(w) \subseteq Packets
  BY SentByFields
<1>3. CASE UNCHANGED toServer
  BY <1>1, <1>3
<1>4. ASSUME NEW queue \in Sent(toServer[v], p), toServer' = [toServer EXCEPT ![v] = queue]
      PROVE  /\ toServer' \in [Endpoints -> Seq(Packets)]
             /\ \A w \in Endpoints : toServer'[w] \in Seq(SentBy(w))
             /\ \A w \in Endpoints : w # v => toServer'[w] = toServer[w]
             /\ toServer'[v] \in Sent(toServer[v], p)
             /\ \E from : Carries(toServer'[v], toServer[v], p, from)
  <2>1. queue \in Seq(SentBy(v)) /\ \E from : Carries(queue, toServer[v], p, from)
    BY <1>1, SentCarries
  <2>2. queue \in Seq(Packets)
    BY <1>2, <2>1, SeqMonotonic
  <2> QED BY <1>1, <1>4, <2>1, <2>2
<1> QED BY <1>3, <1>4 DEF SendToServer

LEMMA ViewerQueues ==
    ASSUME Sound, NEW v \in Endpoints, NEW p \in SentByRelay, SendToViewer(v, p)
    PROVE  /\ toViewer' \in [Endpoints -> Seq(SentByRelay)]
           /\ \A w \in Endpoints : w # v => toViewer'[w] = toViewer[w]
           /\ ~ Runs(v) => toViewer'[v] = toViewer[v]
           /\ Runs(v) => /\ toViewer'[v] \in Sent(toViewer[v], p)
                         /\ \E from : Carries(toViewer'[v], toViewer[v], p, from)
<1>1. toViewer \in [Endpoints -> Seq(SentByRelay)]
  BY DEF Sound
<1>2. CASE ~ Runs(v)
  BY <1>1, <1>2 DEF SendToViewer
<1>3. CASE Runs(v)
  <2>1. PICK queue \in Sent(toViewer[v], p) : toViewer' = [toViewer EXCEPT ![v] = queue]
    BY <1>3 DEF SendToViewer
  <2>2. queue \in Seq(SentByRelay) /\ \E from : Carries(queue, toViewer[v], p, from)
    BY <1>1, SentCarries
  <2> QED BY <1>1, <1>3, <2>1, <2>2
<1> QED BY <1>2, <1>3

\* Sound in the next state, said with the setting of this one.
LEMMA SoundNext ==
    ASSUME Sound, setting' = setting,
           Consistent(relay'), ResultTyped(result'),
           \A o \in result'.outputs : o.packet \in SentByRelay,
           server' \in {"running", "stopped"},
           viewers' \in [Endpoints -> ViewerStates],
           rosters' \in [Endpoints -> [ClientIds -> Poses \cup {None}]],
           toServer' \in [Endpoints -> Seq(Packets)],
           toViewer' \in [Endpoints -> Seq(SentByRelay)],
           \A v \in Endpoints :
              /\ toServer'[v] \in Seq(SentBy(v))
              /\ relay'.clientIdByEndpoint[v] \in {None, IdOf[v]}
              /\ viewers'[v].state # "running" => toViewer'[v] = <<>>
              /\ viewers'[v].state = "running" => IdOf[v] \in ClientIds
              /\ viewers'[v].state = "new" =>
                    toServer'[v] = <<>> /\ relay'.clientIdByEndpoint[v] = None
    PROVE  Sound'
<1>1. IdOf' = IdOf /\ ViewerStates' = ViewerStates /\ setting' \in Settings
  BY DEF IdOf, ViewerStates, Sound
<1>2. \A v \in Endpoints : SentBy(v)' = SentBy(v)
  BY <1>1 DEF SentBy
<1>3. SentByRelay' = SentByRelay
  BY DEF SentByRelay
<1> QED BY <1>1, <1>2, <1>3 DEF Sound, Runs

LEMMA SoundInit == Init => Sound
<1> SUFFICES ASSUME Init PROVE Sound
  OBVIOUS
<1>1. setting \in Settings /\ server = "running" /\ Consistent(relay)
  BY InitConsistent DEF Init
<1>2. ResultTyped(result) /\ result.outputs = {}
  BY DEF Init, RelayInit, NoResult, RelayResult, ResultTyped
<1>3. viewers = [v \in Endpoints |-> [state |-> "new", tick |-> 0]]
  BY DEF Init
<1>4. 0 \in 0..(setting.modulus - 1)
  BY <1>1, SettingFields
<1>5. viewers \in [Endpoints -> ViewerStates] /\ \A v \in Endpoints : viewers[v].state = "new"
  BY <1>3, <1>4 DEF ViewerStates
<1>6. rosters \in [Endpoints -> [ClientIds -> Poses \cup {None}]]
  BY DEF Init, NoActors
<1>7. /\ toServer = [v \in Endpoints |-> <<>>] /\ toViewer = [v \in Endpoints |-> <<>>]
      /\ \A v \in Endpoints : relay.clientIdByEndpoint[v] = None
  BY DEF Init, RelayInit, EmptyRelay
<1>8. /\ toServer \in [Endpoints -> Seq(Packets)]
      /\ toViewer \in [Endpoints -> Seq(SentByRelay)]
      /\ \A v \in Endpoints : toServer[v] \in Seq(SentBy(v))
  BY <1>7, EmptySeq
<1> QED BY <1>1, <1>2, <1>5, <1>6, <1>7, <1>8 DEF Sound, Runs

\* What changing the state of one process makes of the viewers.
LEMMA ViewerMoves ==
    ASSUME Sound, NEW v \in Endpoints,
           NEW s \in {"new", "running", "closed", "crashed"},
           viewers' = [viewers EXCEPT ![v].state = s]
    PROVE  /\ viewers' \in [Endpoints -> ViewerStates]
           /\ viewers'[v].state = s /\ viewers'[v].tick = viewers[v].tick
           /\ \A w \in Endpoints : w # v => viewers'[w] = viewers[w]
<1>1. viewers \in [Endpoints -> ViewerStates] /\ viewers[v] \in ViewerStates
  BY DEF Sound
<1> DEFINE new == [viewers[v] EXCEPT !.state = s]
<1>2. new \in ViewerStates /\ new.state = s /\ new.tick = viewers[v].tick
  BY <1>1 DEF ViewerStates
<1>3. viewers' = [viewers EXCEPT ![v] = new]
  OBVIOUS
<1> HIDE DEF new
<1> QED BY <1>1, <1>2, <1>3

LEMMA SoundStart == ASSUME Sound, NEW v \in Endpoints, Start(v) PROVE Sound'
<1> DEFINE p == [kind |-> "connect", clientId |-> IdOf[v], sequence |-> 1]
<1>1. /\ viewers[v].state = "new" /\ IdOf[v] # None
      /\ viewers' = [viewers EXCEPT ![v].state = "running"]
      /\ rosters' = [rosters EXCEPT ![v] = [NoActors EXCEPT ![IdOf[v]] = SpawnPose]]
      /\ SendToServer(v, p)
      /\ UNCHANGED <<setting, relay, result, server, toViewer>>
  BY DEF Start
<1>2. IdOf[v] \in ClientIds
  BY <1>1, SettingFields DEF Sound
<1>3. p \in SentBy(v)
  <2>1. p \in ConnectPackets
    BY <1>2, FirstSequencesAssumption DEF ConnectPackets, WireIds
  <2> QED BY <1>2, <2>1 DEF SentBy
<1> HIDE DEF p
<1>4. /\ toServer' \in [Endpoints -> Seq(Packets)]
      /\ \A w \in Endpoints : toServer'[w] \in Seq(SentBy(w))
      /\ \A w \in Endpoints : w # v => toServer'[w] = toServer[w]
  BY <1>1, <1>3, ServerQueues
<1>5. /\ viewers' \in [Endpoints -> ViewerStates]
      /\ viewers'[v].state = "running"
      /\ \A w \in Endpoints : w # v => viewers'[w] = viewers[w]
  BY <1>1, ViewerMoves
<1>6. rosters' \in [Endpoints -> [ClientIds -> Poses \cup {None}]]
  <2>1. [NoActors EXCEPT ![IdOf[v]] = SpawnPose] \in [ClientIds -> Poses \cup {None}]
    BY DEF NoActors, Poses
  <2> QED BY <1>1, <2>1 DEF Sound
<1>7. \A w \in Endpoints :
              /\ toServer'[w] \in Seq(SentBy(w))
              /\ relay'.clientIdByEndpoint[w] \in {None, IdOf[w]}
              /\ viewers'[w].state # "running" => toViewer'[w] = <<>>
              /\ viewers'[w].state = "running" => IdOf[w] \in ClientIds
              /\ viewers'[w].state = "new" =>
                    toServer'[w] = <<>> /\ relay'.clientIdByEndpoint[w] = None
  BY <1>1, <1>2, <1>4, <1>5 DEF Sound, Runs
<1>8. Consistent(relay') /\ ResultTyped(result') /\ server' \in {"running", "stopped"}
  BY <1>1 DEF Sound
<1>9. /\ \A o \in result'.outputs : o.packet \in SentByRelay
      /\ toViewer' \in [Endpoints -> Seq(SentByRelay)] /\ setting' = setting
  BY <1>1 DEF Sound
<1> QED BY <1>4, <1>5, <1>6, <1>7, <1>8, <1>9, SoundNext

LEMMA SoundPublish == ASSUME Sound, NEW v \in Endpoints, Publish(v) PROVE Sound'
<1> DEFINE p == [kind |-> "snapshot", clientId |-> IdOf[v],
                 tick |-> viewers[v].tick, yaw |-> Facing[v]]
           t == viewers[v].tick
           new == [viewers[v] EXCEPT !.tick = (t + 1) % setting.modulus]
<1>1. /\ Runs(v) /\ SendToServer(v, p)
      /\ viewers' = [viewers EXCEPT ![v].tick = (t + 1) % setting.modulus]
      /\ UNCHANGED <<setting, relay, result, server, rosters, toViewer>>
  BY DEF Publish
<1>2. /\ viewers \in [Endpoints -> ViewerStates] /\ viewers[v] \in ViewerStates
      /\ setting.modulus \in Nat \ {0} /\ 0..(setting.modulus - 1) \subseteq Sequences
      /\ IdOf[v] \in ClientIds
  BY <1>1, SettingFields DEF Sound
<1>3. t \in 0..(setting.modulus - 1) /\ viewers[v].state = "running"
  BY <1>1, <1>2 DEF ViewerStates, Runs
<1>4. p \in SentBy(v)
  <2>1. Facing[v] \in 0..YawMax
    BY FacingAssumption, YawMaxAssumption
  <2>2. p \in ActorSnapshots
    BY <1>2, <1>3, <2>1 DEF ActorSnapshots, WireIds
  <2> QED BY <1>2, <2>2 DEF SentBy
<1>5. new \in ViewerStates /\ new.state = "running"
  <2>1. (t + 1) % setting.modulus \in 0..(setting.modulus - 1)
    BY <1>2, <1>3
  <2> HIDE DEF t
  <2> QED BY <1>2, <1>3, <2>1 DEF ViewerStates
<1>6. viewers' = [viewers EXCEPT ![v] = new]
  BY <1>1
<1> HIDE DEF p, new, t
<1>7. /\ toServer' \in [Endpoints -> Seq(Packets)]
      /\ \A w \in Endpoints : toServer'[w] \in Seq(SentBy(w))
      /\ \A w \in Endpoints : w # v => toServer'[w] = toServer[w]
  BY <1>1, <1>4, ServerQueues
<1>8. /\ viewers' \in [Endpoints -> ViewerStates] /\ viewers'[v].state = "running"
      /\ \A w \in Endpoints : w # v => viewers'[w] = viewers[w]
  BY <1>2, <1>5, <1>6
<1>9. \A w \in Endpoints :
              /\ toServer'[w] \in Seq(SentBy(w))
              /\ relay'.clientIdByEndpoint[w] \in {None, IdOf[w]}
              /\ viewers'[w].state # "running" => toViewer'[w] = <<>>
              /\ viewers'[w].state = "running" => IdOf[w] \in ClientIds
              /\ viewers'[w].state = "new" =>
                    toServer'[w] = <<>> /\ relay'.clientIdByEndpoint[w] = None
  BY <1>1, <1>2, <1>7, <1>8 DEF Sound, Runs
<1>10. Consistent(relay') /\ ResultTyped(result') /\ server' \in {"running", "stopped"}
  BY <1>1 DEF Sound
<1>11. /\ \A o \in result'.outputs : o.packet \in SentByRelay
       /\ toViewer' \in [Endpoints -> Seq(SentByRelay)] /\ setting' = setting
       /\ rosters' \in [Endpoints -> [ClientIds -> Poses \cup {None}]]
  BY <1>1 DEF Sound
<1> QED BY <1>7, <1>8, <1>9, <1>10, <1>11, SoundNext

\* The pose a batch leaves an actor in is one of an actor, or none.
LEMMA PumpedPoses ==
    ASSUME NEW q \in Seq(SentByRelay), NEW n \in 1..Len(q), NEW c, NEW next,
           NEW pose \in Poses \cup {None}, PumpsTo(q, n, c, pose, next)
    PROVE  next \in Poses \cup {None}
<1>1. \A i \in 1..n : q[i] \in SentByRelay
  BY LenProperties, ElementOfSeq
<1>2. CASE FirstSnapshots(q, n, c) # {}
  <2>1. PICK m \in FirstSnapshots(q, n, c) : next = [tick |-> q[m].tick, yaw |-> q[m].yaw]
    BY <1>2 DEF PumpsTo
  <2>2. m \in 1..n /\ q[m].kind = "snapshot"
    BY DEF FirstSnapshots
  <2> QED BY <1>1, <2>1, <2>2, SentByRelayFields DEF Poses
<1>3. CASE FirstSnapshots(q, n, c) = {}
  BY <1>3 DEF PumpsTo, Poses
<1> QED BY <1>2, <1>3

\* What a pump changes.
LEMMA PumpEffect ==
    ASSUME Sound, NEW v \in Endpoints, NEW n \in 1..Len(toViewer[v]), Pump(v, n)
    PROVE  /\ Runs(v) /\ UNCHANGED <<setting, relay, result, server, viewers, toServer>>
           /\ toViewer' \in [Endpoints -> Seq(SentByRelay)]
           /\ rosters' \in [Endpoints -> [ClientIds -> Poses \cup {None}]]
           /\ \A w \in Endpoints : w # v => toViewer'[w] = toViewer[w]
                                            /\ rosters'[w] = rosters[w]
           /\ Len(toViewer'[v]) = Len(toViewer[v]) - n
           /\ \A i \in 1..Len(toViewer'[v]) : toViewer'[v][i] = toViewer[v][n + i]
           /\ \A c \in ClientIds :
                 IF c = IdOf[v] THEN rosters'[v][c] = rosters[v][c]
                 ELSE PumpsTo(toViewer[v], n, c, rosters[v][c], rosters'[v][c])
<1> DEFINE q == toViewer[v]
           d == [i \in 1..n |-> Posed(q[i])]
           poses == Batch!AfterBatch(rosters[v], IdOf[v], Batch!EventsIn(d),
                                     Batch!SnapshotsIn(d, IdOf[v]))
<1>1. /\ toViewer \in [Endpoints -> Seq(SentByRelay)] /\ q \in Seq(SentByRelay)
      /\ rosters \in [Endpoints -> [ClientIds -> Poses \cup {None}]]
      /\ rosters[v] \in [ClientIds -> Poses \cup {None}]
  BY DEF Sound
<1>2. /\ Runs(v) /\ UNCHANGED <<setting, relay, result, server, viewers, toServer>>
      /\ rosters' = [rosters EXCEPT ![v] = poses]
      /\ toViewer' = [toViewer EXCEPT ![v] = SubSeq(q, n + 1, Len(q))]
  BY DEF Pump
<1>3. ASSUME NEW c \in ClientIds
      PROVE  IF c = IdOf[v] THEN poses[c] = rosters[v][c]
             ELSE PumpsTo(q, n, c, rosters[v][c], poses[c])
  <2> DEFINE own == IdOf[v]
             old == rosters[v]
             next == Batch!AfterBatch(old, own, Batch!EventsIn(d), Batch!SnapshotsIn(d, own))
  <2>1. IF c = own THEN next[c] = old[c] ELSE PumpsTo(q, n, c, old[c], next[c])
    <3>1. n \in 1..Len(q)
      OBVIOUS
    <3> HIDE DEF q, own, old
    <3> QED BY <1>1, <3>1, PumpedPose
  <2> QED BY <2>1
<1>5. poses \in [ClientIds -> Poses \cup {None}]
  <2>1. poses = [c \in ClientIds |-> poses[c]]
    BY DEF Batch!AfterBatch
  <2>2. ASSUME NEW c \in ClientIds PROVE poses[c] \in Poses \cup {None}
    <3> HIDE DEF poses
    <3>1. rosters[v][c] \in Poses \cup {None} /\ n \in 1..Len(q)
      BY <1>1
    <3> QED BY <1>1, <1>3, <3>1, PumpedPoses
  <2> HIDE DEF poses
  <2> QED BY <2>1, <2>2
<1> HIDE DEF poses
<1>6. /\ rosters' \in [Endpoints -> [ClientIds -> Poses \cup {None}]]
      /\ rosters'[v] = poses /\ \A w \in Endpoints : w # v => rosters'[w] = rosters[w]
  BY <1>1, <1>2, <1>5
<1> DEFINE rest == SubSeq(q, n + 1, Len(q))
<1>7. /\ rest \in Seq(SentByRelay) /\ Len(rest) = Len(q) - n
      /\ \A i \in 1..Len(rest) : rest[i] = q[n + i]
  BY <1>1, RestOfQueue
<1> HIDE DEF rest
<1>8. /\ toViewer' \in [Endpoints -> Seq(SentByRelay)]
      /\ toViewer'[v] = rest /\ \A w \in Endpoints : w # v => toViewer'[w] = toViewer[w]
  BY <1>1, <1>2, <1>7 DEF rest
<1>9. \A c \in ClientIds : IF c = IdOf[v] THEN rosters'[v][c] = rosters[v][c]
                           ELSE PumpsTo(toViewer[v], n, c, rosters[v][c], rosters'[v][c])
  BY <1>3, <1>6
<1> QED BY <1>2, <1>6, <1>7, <1>8, <1>9

LEMMA SoundPump ==
    ASSUME Sound, NEW v \in Endpoints, NEW n \in 1..Len(toViewer[v]), Pump(v, n)
    PROVE  Sound'
<1>1. /\ Runs(v) /\ UNCHANGED <<setting, relay, result, server, viewers, toServer>>
      /\ toViewer' \in [Endpoints -> Seq(SentByRelay)]
      /\ rosters' \in [Endpoints -> [ClientIds -> Poses \cup {None}]]
      /\ \A w \in Endpoints : w # v => toViewer'[w] = toViewer[w]
  BY PumpEffect
<1>2. \A w \in Endpoints :
              /\ toServer'[w] \in Seq(SentBy(w))
              /\ relay'.clientIdByEndpoint[w] \in {None, IdOf[w]}
              /\ viewers'[w].state # "running" => toViewer'[w] = <<>>
              /\ viewers'[w].state = "running" => IdOf[w] \in ClientIds
              /\ viewers'[w].state = "new" =>
                    toServer'[w] = <<>> /\ relay'.clientIdByEndpoint[w] = None
  BY <1>1 DEF Sound, Runs
<1>3. Consistent(relay') /\ ResultTyped(result') /\ server' \in {"running", "stopped"}
  BY <1>1 DEF Sound
<1>4. /\ \A o \in result'.outputs : o.packet \in SentByRelay
      /\ viewers' \in [Endpoints -> ViewerStates]
      /\ toServer' \in [Endpoints -> Seq(Packets)]
      /\ setting' = setting
  BY <1>1 DEF Sound
<1> QED BY <1>1, <1>2, <1>3, <1>4, SoundNext

\* What the end of a process changes; `left` says whether it sends its disconnect.
LEMMA EndEffect ==
    ASSUME Sound, NEW v \in Endpoints, Close(v) \/ Crash(v)
    PROVE  LET p == [kind |-> "disconnect", clientId |-> IdOf[v], sequence |-> 2]
           IN  /\ Runs(v) /\ UNCHANGED <<setting, relay, result, server, rosters>>
               /\ viewers' \in [Endpoints -> ViewerStates]
               /\ viewers'[v].state \in {"closed", "crashed"}
               /\ viewers'[v].tick = viewers[v].tick
               /\ \A w \in Endpoints : w # v => viewers'[w] = viewers[w]
               /\ toViewer' = [toViewer EXCEPT ![v] = <<>>]
               /\ p \in SentBy(v)
               /\ SendToServer(v, p) \/ UNCHANGED toServer
<1> DEFINE p == [kind |-> "disconnect", clientId |-> IdOf[v], sequence |-> 2]
<1>1. /\ Runs(v) /\ UNCHANGED <<setting, relay, result, server, rosters>>
      /\ toViewer' = [toViewer EXCEPT ![v] = <<>>]
      /\ \/ /\ viewers' = [viewers EXCEPT ![v].state = "closed"]
            /\ SendToServer(v, p)
         \/ /\ viewers' = [viewers EXCEPT ![v].state = "crashed"]
            /\ UNCHANGED toServer
  BY DEF Close, Crash
<1>2. IdOf[v] \in ClientIds
  BY <1>1 DEF Sound
<1>3. p \in SentBy(v)
  <2>1. p \in DisconnectPackets
    BY <1>2, FirstSequencesAssumption DEF DisconnectPackets, WireIds
  <2> QED BY <1>2, <2>1 DEF SentBy
<1> HIDE DEF p
<1>4. /\ viewers' \in [Endpoints -> ViewerStates]
      /\ viewers'[v].state \in {"closed", "crashed"}
      /\ viewers'[v].tick = viewers[v].tick
      /\ \A w \in Endpoints : w # v => viewers'[w] = viewers[w]
  <2>1. ASSUME NEW s \in {"closed", "crashed"}, viewers' = [viewers EXCEPT ![v].state = s]
        PROVE  /\ viewers' \in [Endpoints -> ViewerStates]
               /\ viewers'[v].state \in {"closed", "crashed"}
               /\ viewers'[v].tick = viewers[v].tick
               /\ \A w \in Endpoints : w # v => viewers'[w] = viewers[w]
    <3>1. s \in {"new", "running", "closed", "crashed"}
      OBVIOUS
    <3>2. /\ viewers' \in [Endpoints -> ViewerStates]
          /\ viewers'[v].state = s /\ viewers'[v].tick = viewers[v].tick
          /\ \A w \in Endpoints : w # v => viewers'[w] = viewers[w]
      BY <2>1, <3>1, ViewerMoves
    <3> QED BY <3>2
  <2> QED BY <1>1, <2>1
<1> QED BY <1>1, <1>3, <1>4 DEF p

LEMMA SoundEnd == ASSUME Sound, NEW v \in Endpoints, Close(v) \/ Crash(v) PROVE Sound'
<1> DEFINE p == [kind |-> "disconnect", clientId |-> IdOf[v], sequence |-> 2]
<1>1. /\ Runs(v) /\ UNCHANGED <<setting, relay, result, server, rosters>>
      /\ viewers' \in [Endpoints -> ViewerStates]
      /\ viewers'[v].state \in {"closed", "crashed"}
      /\ viewers'[v].tick = viewers[v].tick
      /\ \A w \in Endpoints : w # v => viewers'[w] = viewers[w]
      /\ toViewer' = [toViewer EXCEPT ![v] = <<>>]
      /\ p \in SentBy(v)
      /\ SendToServer(v, p) \/ UNCHANGED toServer
  BY EndEffect
<1> HIDE DEF p
<1>2. /\ toServer' \in [Endpoints -> Seq(Packets)]
      /\ \A w \in Endpoints : toServer'[w] \in Seq(SentBy(w))
      /\ \A w \in Endpoints : w # v => toServer'[w] = toServer[w]
  <2>1. CASE SendToServer(v, p)
    BY <1>1, <2>1, ServerQueues
  <2>2. CASE UNCHANGED toServer
    BY <2>2 DEF Sound
  <2> QED BY <1>1, <2>1, <2>2
<1>3. toViewer' \in [Endpoints -> Seq(SentByRelay)] /\ toViewer'[v] = <<>>
      /\ \A w \in Endpoints : w # v => toViewer'[w] = toViewer[w]
  BY <1>1, EmptySeq DEF Sound
<1>4. \A w \in Endpoints :
              /\ toServer'[w] \in Seq(SentBy(w))
              /\ relay'.clientIdByEndpoint[w] \in {None, IdOf[w]}
              /\ viewers'[w].state # "running" => toViewer'[w] = <<>>
              /\ viewers'[w].state = "running" => IdOf[w] \in ClientIds
              /\ viewers'[w].state = "new" =>
                    toServer'[w] = <<>> /\ relay'.clientIdByEndpoint[w] = None
  BY <1>1, <1>2, <1>3 DEF Sound, Runs
<1>5. Consistent(relay') /\ ResultTyped(result') /\ server' \in {"running", "stopped"}
  BY <1>1 DEF Sound
<1>6. /\ \A o \in result'.outputs : o.packet \in SentByRelay
      /\ rosters' \in [Endpoints -> [ClientIds -> Poses \cup {None}]]
      /\ setting' = setting
  BY <1>1 DEF Sound
<1> QED BY <1>1, <1>2, <1>3, <1>4, <1>5, <1>6, SoundNext

\* What the server finds when it receives from process v.
LEMMA Received ==
    ASSUME Sound, NEW v \in Endpoints, ServerIngests(v)
    PROVE  LET p == Head(toServer[v])
           IN  /\ server = "running" /\ result = NoResult /\ toServer[v] # <<>>
               /\ p \in SentBy(v) /\ p = toServer[v][1] /\ Ingest(v, p)
               /\ UNCHANGED <<setting, server, viewers, rosters, toViewer>>
               /\ \A w \in Endpoints : w # v => toServer'[w] = toServer[w]
               /\ toServer' \in [Endpoints -> Seq(Packets)]
               /\ toServer'[v] \in Seq(SentBy(v))
               /\ Len(toServer[v]) >= 1
               /\ Len(toServer'[v]) = Len(toServer[v]) - 1
               /\ \A i \in 1..Len(toServer'[v]) : toServer'[v][i] = toServer[v][i + 1]
<1> DEFINE q == toServer[v]
           p == Head(q)
<1>1. /\ server = "running" /\ result = NoResult /\ q # <<>> /\ Ingest(v, p)
      /\ UNCHANGED <<setting, server, viewers, rosters, toViewer>>
      /\ toServer' = [toServer EXCEPT ![v] = Tail(q)]
  BY DEF ServerIngests, Receives
<1>2. q \in Seq(SentBy(v)) /\ toServer \in [Endpoints -> Seq(Packets)] /\ q \in Seq(Packets)
  BY DEF Sound
<1>3. toServer'[v] = Tail(q) /\ \A w \in Endpoints : w # v => toServer'[w] = toServer[w]
  BY <1>1, <1>2
<1>4. /\ p \in SentBy(v) /\ Tail(q) \in Seq(SentBy(v)) /\ Len(Tail(q)) = Len(q) - 1
      /\ \A i \in 1..Len(Tail(q)) : Tail(q)[i] = q[i + 1]
  <2> HIDE DEF q
  <2> QED BY <1>1, <1>2, HeadTailProperties
<1>5. Tail(q) \in Seq(Packets)
  <2> HIDE DEF q
  <2> QED BY <1>1, <1>2, HeadTailProperties
<1>6. toServer' \in [Endpoints -> Seq(Packets)]
  BY <1>1, <1>2, <1>5
<1>7. p = q[1] /\ Len(q) >= 1
  BY <1>1, <1>2, EmptySeq, LenProperties
<1> QED BY <1>1, <1>3, <1>4, <1>6, <1>7

LEMMA SoundIngests == ASSUME Sound, NEW v \in Endpoints, ServerIngests(v) PROVE Sound'
<1> DEFINE p == Head(toServer[v])
           c == IdOf[v]
<1>1. /\ p \in SentBy(v) /\ Ingest(v, p) /\ toServer[v] # <<>>
      /\ UNCHANGED <<setting, server, viewers, rosters, toViewer>>
      /\ \A w \in Endpoints : w # v => toServer'[w] = toServer[w]
      /\ toServer' \in [Endpoints -> Seq(Packets)]
      /\ toServer'[v] \in Seq(SentBy(v))
  BY Received
<1>2. /\ p \in Packets /\ p.clientId = c /\ c \in ClientIds
      /\ p.kind = "snapshot" => p \in ActorSnapshots
  BY <1>1, SentByFields
<1> HIDE DEF p
<1>3. Consistent(relay)
  BY DEF Sound
<1>4. Consistent(relay') /\ ResultTyped(result')
  BY <1>1, <1>2, <1>3, IngestConsistent, IngestResultTyped
<1>5. \/ IngestsNothing(v, p, c) \/ IngestsConnect(v, p, c)
      \/ IngestsDisconnect(v, p, c) \/ IngestsSnapshot(v, p, c)
  BY <1>1, IngestCases
<1> HIDE DEF c
<1>6. \A o \in result'.outputs : o.packet \in SentByRelay
  <2> SUFFICES ASSUME NEW o \in result'.outputs PROVE o.packet \in SentByRelay
    OBVIOUS
  <2>1. o.packet \in ActorSnapshots \cup ServerEventPackets
    BY <1>4 DEF ResultTyped, RelayOutputs
  <2>2. o.packet.clientId \in ClientIds
    <3>1. CASE IngestsDisconnect(v, p, c)
      BY <1>2, <3>1 DEF IngestsDisconnect
    <3>2. CASE IngestsSnapshot(v, p, c)
      BY <1>2, <3>2 DEF IngestsSnapshot
    <3>3. CASE IngestsNothing(v, p, c)
      BY <3>3 DEF IngestsNothing
    <3>4. CASE IngestsConnect(v, p, c)
      BY <3>4 DEF IngestsConnect
    <3> QED BY <1>5, <3>1, <3>2, <3>3, <3>4
  <2> QED BY <2>1, <2>2 DEF SentByRelay
<1>7. \A f \in Endpoints : relay'.clientIdByEndpoint[f] \in {None, IdOf[f]}
  <2> SUFFICES ASSUME NEW f \in Endpoints
               PROVE  relay'.clientIdByEndpoint[f] \in {None, IdOf[f]}
    OBVIOUS
  <2>1. relay.clientIdByEndpoint[f] \in {None, IdOf[f]} /\ (f = v => c = IdOf[f])
    BY DEF Sound, c
  <2> QED BY <1>5, <2>1 DEF IngestsNothing, IngestsConnect, IngestsDisconnect,
                            IngestsSnapshot
<1>8. \A w \in Endpoints :
              /\ toServer'[w] \in Seq(SentBy(w))
              /\ relay'.clientIdByEndpoint[w] \in {None, IdOf[w]}
              /\ viewers'[w].state # "running" => toViewer'[w] = <<>>
              /\ viewers'[w].state = "running" => IdOf[w] \in ClientIds
              /\ viewers'[w].state = "new" =>
                    toServer'[w] = <<>> /\ relay'.clientIdByEndpoint[w] = None
  <2>1. ASSUME NEW w \in Endpoints, viewers'[w].state = "new"
        PROVE  toServer'[w] = <<>> /\ relay'.clientIdByEndpoint[w] = None
    <3>1. w # v /\ toServer[w] = <<>> /\ relay.clientIdByEndpoint[w] = None
      BY <1>1, <2>1 DEF Sound
    <3> QED BY <1>1, <1>5, <3>1 DEF IngestsNothing, IngestsConnect, IngestsDisconnect,
                                    IngestsSnapshot
  <2> QED BY <1>1, <1>7, <2>1 DEF Sound, Runs
<1>9. /\ server' \in {"running", "stopped"} /\ setting' = setting
      /\ viewers' \in [Endpoints -> ViewerStates]
      /\ rosters' \in [Endpoints -> [ClientIds -> Poses \cup {None}]]
      /\ toViewer' \in [Endpoints -> Seq(SentByRelay)]
  BY <1>1 DEF Sound
<1> QED BY <1>1, <1>4, <1>6, <1>8, <1>9, SoundNext

LEMMA SoundSends ==
    ASSUME Sound, NEW output \in result.outputs, ServerSends(output)
    PROVE  Sound'
<1> DEFINE to == output.to
<1>1. /\ SendToViewer(to, output.packet)
      /\ result' = [result EXCEPT !.outputs = result.outputs \ {output}]
      /\ UNCHANGED <<setting, relay, server, viewers, rosters, toServer>>
  BY DEF ServerSends
<1>2. /\ ResultTyped(result) /\ output \in RelayOutputs /\ output.packet \in SentByRelay
      /\ to \in Endpoints
  BY DEF Sound, ResultTyped, RelayOutputs
<1>3. /\ result'.outputs \subseteq result.outputs /\ ResultTyped(result')
  <2>1. /\ result'.from = result.from /\ result'.packet = result.packet
        /\ result'.accepted = result.accepted
        /\ result'.outputs \subseteq result.outputs
    BY <1>1
  <2> QED BY <1>2, <2>1 DEF ResultTyped
<1> HIDE DEF to
<1>4. /\ toViewer' \in [Endpoints -> Seq(SentByRelay)]
      /\ \A w \in Endpoints : w # to => toViewer'[w] = toViewer[w]
      /\ ~ Runs(to) => toViewer'[to] = toViewer[to]
  BY <1>1, <1>2, ViewerQueues
<1>5. \A w \in Endpoints :
              /\ toServer'[w] \in Seq(SentBy(w))
              /\ relay'.clientIdByEndpoint[w] \in {None, IdOf[w]}
              /\ viewers'[w].state # "running" => toViewer'[w] = <<>>
              /\ viewers'[w].state = "running" => IdOf[w] \in ClientIds
              /\ viewers'[w].state = "new" =>
                    toServer'[w] = <<>> /\ relay'.clientIdByEndpoint[w] = None
  BY <1>1, <1>4 DEF Sound, Runs
<1>6. Consistent(relay') /\ server' \in {"running", "stopped"} /\ setting' = setting
  BY <1>1 DEF Sound
<1>7. /\ \A o \in result'.outputs : o.packet \in SentByRelay
      /\ rosters' \in [Endpoints -> [ClientIds -> Poses \cup {None}]]
      /\ viewers' \in [Endpoints -> ViewerStates]
      /\ toServer' \in [Endpoints -> Seq(Packets)]
  BY <1>1, <1>3 DEF Sound
<1> QED BY <1>3, <1>4, <1>5, <1>6, <1>7, SoundNext

\* The steps of the server's loop that touch no datagram of a viewer.
LEMMA SoundServer ==
    ASSUME Sound, ServerLoops \/ ServerStops \/ ServerRestarts
    PROVE  Sound'
<1>1. UNCHANGED <<setting, viewers, rosters, toViewer>>
  BY DEF ServerLoops, ServerStops, ServerRestarts
<1>2. /\ server' \in {"running", "stopped"}
      /\ relay' = relay \/ relay' = EmptyRelay
      /\ result' = result \/ result' = NoResult
      /\ toServer' = toServer \/ toServer' = [v \in Endpoints |-> <<>>]
  BY DEF ServerLoops, ServerStops, ServerRestarts, Sound
<1>3. Consistent(relay') /\ \A v \in Endpoints :
                               \/ relay'.clientIdByEndpoint[v] = relay.clientIdByEndpoint[v]
                               \/ relay'.clientIdByEndpoint[v] = None
  <2>1. Consistent(EmptyRelay)
    BY NoneAssumption DEF EmptyRelay, Consistent, RelayMaps
  <2>2. \A v \in Endpoints : EmptyRelay.clientIdByEndpoint[v] = None
    BY DEF EmptyRelay
  <2> QED BY <1>2, <2>1, <2>2 DEF Sound
<1>4. ResultTyped(result') /\ \A o \in result'.outputs : o.packet \in SentByRelay
  <2>1. ResultTyped(NoResult) /\ NoResult.outputs = {}
    BY DEF NoResult, RelayResult, ResultTyped
  <2> QED BY <1>2, <2>1 DEF Sound
<1>5. /\ toServer' \in [Endpoints -> Seq(Packets)]
      /\ \A v \in Endpoints : /\ toServer'[v] \in Seq(SentBy(v))
                              /\ toServer'[v] = toServer[v] \/ toServer'[v] = <<>>
  <2>1. CASE toServer' = toServer
    BY <2>1 DEF Sound
  <2>2. CASE toServer' = [v \in Endpoints |-> <<>>]
    <3>1. <<>> \in Seq(Packets) /\ \A v \in Endpoints : <<>> \in Seq(SentBy(v))
      BY EmptySeq
    <3> QED BY <2>2, <3>1
  <2> QED BY <1>2, <2>1, <2>2
<1>6. \A w \in Endpoints :
              /\ toServer'[w] \in Seq(SentBy(w))
              /\ relay'.clientIdByEndpoint[w] \in {None, IdOf[w]}
              /\ viewers'[w].state # "running" => toViewer'[w] = <<>>
              /\ viewers'[w].state = "running" => IdOf[w] \in ClientIds
              /\ viewers'[w].state = "new" =>
                    toServer'[w] = <<>> /\ relay'.clientIdByEndpoint[w] = None
  BY <1>1, <1>3, <1>5 DEF Sound, Runs
<1>7. /\ rosters' \in [Endpoints -> [ClientIds -> Poses \cup {None}]]
      /\ viewers' \in [Endpoints -> ViewerStates]
      /\ toViewer' \in [Endpoints -> Seq(SentByRelay)] /\ setting' = setting
  BY <1>1 DEF Sound
<1> QED BY <1>2, <1>3, <1>4, <1>5, <1>6, <1>7, SoundNext

\* A step of viewers, network and server, case by case.
LEMMA StepCases ==
    ASSUME [Next]_vars
    PROVE  \/ \E v \in Endpoints :
                 \/ Start(v) \/ Publish(v) \/ Close(v) \/ Crash(v) \/ ServerIngests(v)
                 \/ \E n \in 1..Len(toViewer[v]) : Pump(v, n)
           \/ \E output \in result.outputs : ServerSends(output)
           \/ ServerLoops \/ ServerStops \/ ServerRestarts
           \/ UNCHANGED vars
BY DEF Next, ViewerStep, ServerStep

LEMMA SoundStep == Sound /\ [Next]_vars => Sound'
<1> SUFFICES ASSUME Sound, [Next]_vars PROVE Sound'
  OBVIOUS
<1>1. CASE UNCHANGED vars
  <2>1. /\ IdOf' = IdOf /\ ViewerStates' = ViewerStates /\ SentByRelay' = SentByRelay
        /\ UNCHANGED <<setting, relay, result, server, viewers, rosters, toServer, toViewer>>
    BY <1>1 DEF vars, IdOf, ViewerStates, SentByRelay
  <2>2. \A v \in Endpoints : SentBy(v)' = SentBy(v)
    BY <2>1 DEF SentBy
  <2> QED BY <2>1, <2>2 DEF Sound, Runs
<1> QED BY <1>1, StepCases, SoundStart, SoundPublish, SoundPump, SoundEnd, SoundIngests,
           SoundSends, SoundServer

LEMMA AlwaysSound == Spec => []Sound
<1> QED BY SoundInit, SoundStep, PTL DEF Spec

\* Every process, roster and queue holds what its type says, whatever is lost, doubled,
\* overtaken, crashed or restarted, with queues of any length.
THEOREM SystemTypeCorrect == Spec => []SystemTypeOK
<1>1. Sound => SystemTypeOK
  <2> SUFFICES ASSUME Sound PROVE SystemTypeOK
    OBVIOUS
  <2>1. SentByRelay \subseteq Packets
    BY SentByRelayFields
  <2>2. \A v \in Endpoints : toServer[v] \in Seq(Packets) /\ toViewer[v] \in Seq(Packets)
    <3>1. \A v \in Endpoints : toServer[v] \in Seq(Packets) /\ toViewer[v] \in Seq(SentByRelay)
      BY DEF Sound
    <3> QED BY <2>1, <3>1, SeqMonotonic
  <2> QED BY <2>2 DEF Sound, SystemTypeOK, ViewerStates
<1> QED BY <1>1, AlwaysSound, PTL
-----------------------------------------------------------------------------
\* Every datagram of the queue a datagram is sent into is that one or an old one.
LEMMA CarriesElements ==
    ASSUME NEW S, NEW q \in Seq(S), NEW queue \in Seq(S), NEW p, NEW from,
           Carries(queue, q, p, from), NEW i \in DOMAIN queue
    PROVE  queue[i] = p \/ \E k \in DOMAIN q : queue[i] = q[k]
<1>1. i \in 1..Len(queue) /\ DOMAIN q = 1..Len(q) /\ Len(q) \in Nat
  BY LenProperties
<1>2. from[i] \in 0..Len(q) /\ queue[i] = IF from[i] = 0 THEN p ELSE q[from[i]]
  BY <1>1 DEF Carries
<1>3. from[i] # 0 => from[i] \in DOMAIN q
  BY <1>1, <1>2
<1> QED BY <1>2, <1>3

\* What the server has to receive from a process after that has sent p.
LEMMA SentElements ==
    ASSUME Sound, NEW v \in Endpoints, NEW p \in SentBy(v), SendToServer(v, p),
           NEW w \in Endpoints, NEW i \in DOMAIN toServer'[w]
    PROVE  \/ toServer'[w][i] = p /\ w = v
           \/ \E k \in DOMAIN toServer[w] : toServer'[w][i] = toServer[w][k]
<1>1. /\ toServer' \in [Endpoints -> Seq(Packets)]
      /\ \A u \in Endpoints : toServer'[u] \in Seq(SentBy(u))
      /\ \A u \in Endpoints : u # v => toServer'[u] = toServer[u]
      /\ \/ toServer'[v] = toServer[v]
         \/ /\ toServer'[v] \in Sent(toServer[v], p)
            /\ \E from : Carries(toServer'[v], toServer[v], p, from)
  BY ServerQueues
<1>2. toServer[v] \in Seq(SentBy(v))
  BY DEF Sound
<1>3. CASE toServer'[w] = toServer[w]
  BY <1>3
<1>4. CASE w = v /\ \E from : Carries(toServer'[v], toServer[v], p, from)
  BY <1>1, <1>2, <1>4, CarriesElements
<1> QED BY <1>1, <1>3, <1>4

\* What a process publishes.
LEMMA PublishedPacket ==
    ASSUME Sound, NEW v \in Endpoints, Publish(v)
    PROVE  LET p == [kind |-> "snapshot", clientId |-> IdOf[v],
                     tick |-> viewers[v].tick, yaw |-> Facing[v]]
           IN  p \in SentBy(v) /\ p.kind = "snapshot" /\ SendToServer(v, p)
<1> DEFINE p == [kind |-> "snapshot", clientId |-> IdOf[v],
                 tick |-> viewers[v].tick, yaw |-> Facing[v]]
<1>1. Runs(v) /\ SendToServer(v, p) /\ IdOf[v] \in ClientIds
  BY DEF Publish, Sound
<1>2. viewers[v].tick \in Sequences
  <2>1. viewers[v] \in ViewerStates /\ 0..(setting.modulus - 1) \subseteq Sequences
    BY SettingFields DEF Sound
  <2> QED BY <2>1 DEF ViewerStates
<1>3. Facing[v] \in 0..YawMax
  BY FacingAssumption, YawMaxAssumption
<1>4. p \in ActorSnapshots
  BY <1>1, <1>2, <1>3 DEF ActorSnapshots, WireIds
<1> QED BY <1>1, <1>4 DEF SentBy

\* What a viewer hears stays heard where nothing about it changes, ...
LEMMA HeardKept ==
    ASSUME NEW v \in Endpoints, NEW c \in ClientIds, Heard(v, c),
           \A o \in result.outputs :
              o.to = v /\ Announces(o.packet, c) => o \in result'.outputs,
           toViewer'[v] = toViewer[v], rosters'[v] = rosters[v]
    PROVE  Heard(v, c)'
BY DEF Heard, Knows

\* ... and nothing comes to dismiss w that is not made by a disconnect of w.
LEMMA NotDismissedNext ==
    ASSUME NEW w \in Endpoints, NotDismissed(w), IdOf' = IdOf,
           \A i \in DOMAIN toServer'[w] :
              \/ toServer'[w][i].kind # "disconnect"
              \/ \E k \in DOMAIN toServer[w] : toServer'[w][i] = toServer[w][k],
           \A o \in result'.outputs :
              o \in result.outputs \/ ~ Dismisses(o.packet, IdOf[w]),
           \A v \in Endpoints : \A i \in DOMAIN toViewer'[v] :
              \/ \E k \in DOMAIN toViewer[v] : toViewer'[v][i] = toViewer[v][k]
              \/ \E o \in result.outputs : toViewer'[v][i] = o.packet
    PROVE  NotDismissed(w)'
<1>1. \A i \in DOMAIN toServer'[w] : toServer'[w][i].kind # "disconnect"
  BY DEF NotDismissed
<1>2. \A o \in result'.outputs : ~ Dismisses(o.packet, IdOf[w])
  BY DEF NotDismissed
<1>3. \A v \in Endpoints : \A i \in DOMAIN toViewer'[v] : ~ Dismisses(toViewer'[v][i], IdOf[w])
  BY DEF NotDismissed
<1>4. \A p, c : Dismisses(p, c)' = Dismisses(p, c)
  BY DEF Dismisses
<1> QED BY <1>1, <1>2, <1>3 DEF NotDismissed, Dismisses

\* The next state of AllHeard, by its three parts.
LEMMA SameIds ==
    ASSUME setting' = setting
    PROVE  IdOf' = IdOf /\ Faults' = Faults
BY DEF IdOf, Faults

LEMMA AllHeardNext ==
    ASSUME IdOf' = IdOf, Faults' = Faults,
           \A w \in Endpoints : IdOf[w] # None /\ relay'.clientIdByEndpoint[w] = IdOf[w] =>
              \A o \in result'.outputs : ~ Dismisses(o.packet, IdOf[w]),
           "reorder" \in Faults => \A w \in Endpoints :
              viewers'[w].state \in {"new", "running"} /\ IdOf[w] # None => NotDismissed(w)',
           \A v, w \in Endpoints : \A c :
              /\ v # w /\ viewers'[v].state = "running" /\ viewers'[w].state = "running"
              /\ relay'.clientIdByEndpoint[v] = IdOf[v] /\ c = IdOf[w]
              /\ relay'.clientIdByEndpoint[w] = c
              => Heard(v, c)'
    PROVE  AllHeard'
<1>1. \A w \in Endpoints :
         HasSession(w)' => \A o \in result'.outputs : ~ Dismisses(o.packet, IdOf[w])'
  BY DEF HasSession, Dismisses
<1>2. \A v, w \in Endpoints : v # w /\ Holds(v)' /\ Holds(w)' => Heard(v, IdOf[w])'
  <2> SUFFICES ASSUME NEW v \in Endpoints, NEW w \in Endpoints,
                      v # w, Holds(v)', Holds(w)'
               PROVE  Heard(v, IdOf[w])'
    OBVIOUS
  <2>1. PICK c : c = IdOf[w]
    OBVIOUS
  <2>2. Heard(v, c)'
    BY <2>1 DEF Holds, Runs
  <2>3. c = IdOf'[w]
    BY <2>1
  <2> QED BY <2>2, <2>3 DEF Heard, Announces, Dismisses, Knows
<1> QED BY <1>1, <1>2 DEF AllHeard

\* A process that starts has no session yet; what it sends dismisses nobody.
LEMMA HeardStart ==
    ASSUME Sound, AllHeard, NEW v \in Endpoints, Start(v) PROVE AllHeard'
<1> DEFINE p == [kind |-> "connect", clientId |-> IdOf[v], sequence |-> 1]
<1>1. /\ viewers[v].state = "new" /\ IdOf[v] # None
      /\ viewers' = [viewers EXCEPT ![v].state = "running"]
      /\ rosters' = [rosters EXCEPT ![v] = [NoActors EXCEPT ![IdOf[v]] = SpawnPose]]
      /\ SendToServer(v, p)
      /\ UNCHANGED <<setting, relay, result, server, toViewer>>
  BY DEF Start
<1>2. p \in SentBy(v) /\ p.kind = "connect"
  <2>1. IdOf[v] \in ClientIds
    BY <1>1, SettingFields DEF Sound
  <2>2. p \in ConnectPackets
    BY <2>1, FirstSequencesAssumption DEF ConnectPackets, WireIds
  <2> QED BY <2>1, <2>2 DEF SentBy
<1>3. \A w \in Endpoints : w # v => viewers'[w] = viewers[w] /\ rosters'[w] = rosters[w]
  BY <1>1, ViewerMoves DEF Sound
<1>4. relay'.clientIdByEndpoint[v] # IdOf[v]
  BY <1>1 DEF Sound
<1> HIDE DEF p
<1>5. IdOf' = IdOf /\ Faults' = Faults
  BY <1>1, SameIds
<1>6. \A w \in Endpoints : \A i \in DOMAIN toServer'[w] :
         \/ toServer'[w][i] = p
         \/ \E k \in DOMAIN toServer[w] : toServer'[w][i] = toServer[w][k]
  BY <1>1, <1>2, SentElements
<1>7. ASSUME NEW w \in Endpoints, viewers'[w].state \in {"new", "running"}, IdOf[w] # None,
             "reorder" \in Faults
      PROVE  NotDismissed(w)'
  <2>1. NotDismissed(w)
    BY <1>1, <1>3, <1>7 DEF AllHeard
  <2> QED BY <1>1, <1>2, <1>5, <1>6, <2>1, NotDismissedNext
<1>8. ASSUME NEW u \in Endpoints, NEW w \in Endpoints, NEW c, u # w,
             viewers'[u].state = "running", viewers'[w].state = "running",
             relay'.clientIdByEndpoint[u] = IdOf[u], c = IdOf[w],
             relay'.clientIdByEndpoint[w] = c
      PROVE  Heard(u, c)'
  <2>1. u # v /\ w # v
    BY <1>4, <1>8
  <2>2. Heard(u, c) /\ c \in ClientIds
    BY <1>1, <1>3, <1>8, <2>1 DEF AllHeard, Holds, Runs, Sound
  <2> QED BY <1>1, <1>3, <2>1, <2>2, HeardKept
<1>9. \A w \in Endpoints : IdOf[w] # None /\ relay'.clientIdByEndpoint[w] = IdOf[w] =>
         \A o \in result'.outputs : ~ Dismisses(o.packet, IdOf[w])
  BY <1>1 DEF AllHeard, HasSession
<1> QED BY <1>5, <1>7, <1>8, <1>9, AllHeardNext

LEMMA HeardPublish ==
    ASSUME Sound, AllHeard, NEW v \in Endpoints, Publish(v) PROVE AllHeard'
<1>1. /\ UNCHANGED <<setting, relay, result, server, rosters, toViewer>>
      /\ \A w \in Endpoints : viewers'[w].state = viewers[w].state
  BY DEF Publish, Sound, ViewerStates
<1>2. \A w \in Endpoints : \A i \in DOMAIN toServer'[w] :
         \/ toServer'[w][i].kind # "disconnect"
         \/ \E k \in DOMAIN toServer[w] : toServer'[w][i] = toServer[w][k]
  <2>1. PICK p : /\ p \in SentBy(v) /\ p.kind = "snapshot" /\ SendToServer(v, p)
    BY PublishedPacket
  <2> QED BY <2>1, SentElements
<1>3. IdOf' = IdOf /\ Faults' = Faults
  BY <1>1, SameIds
<1>4. ASSUME NEW w \in Endpoints, viewers'[w].state \in {"new", "running"}, IdOf[w] # None,
             "reorder" \in Faults
      PROVE  NotDismissed(w)'
  <2>1. NotDismissed(w)
    BY <1>1, <1>4 DEF AllHeard
  <2> QED BY <1>1, <1>2, <1>3, <2>1, NotDismissedNext
<1>5. ASSUME NEW u \in Endpoints, NEW w \in Endpoints, NEW c, u # w,
             viewers'[u].state = "running", viewers'[w].state = "running",
             relay'.clientIdByEndpoint[u] = IdOf[u], c = IdOf[w],
             relay'.clientIdByEndpoint[w] = c
      PROVE  Heard(u, c)'
  <2>1. Heard(u, c) /\ c \in ClientIds
    BY <1>1, <1>5 DEF AllHeard, Holds, Runs, Sound
  <2> QED BY <1>1, <2>1, HeardKept
<1>6. \A w \in Endpoints : IdOf[w] # None /\ relay'.clientIdByEndpoint[w] = IdOf[w] =>
         \A o \in result'.outputs : ~ Dismisses(o.packet, IdOf[w])
  BY <1>1 DEF AllHeard, HasSession
<1> QED BY <1>3, <1>4, <1>5, <1>6, AllHeardNext

LEMMA HeardEnd ==
    ASSUME Sound, AllHeard, NEW v \in Endpoints, Close(v) \/ Crash(v) PROVE AllHeard'
<1> DEFINE p == [kind |-> "disconnect", clientId |-> IdOf[v], sequence |-> 2]
<1>1. /\ Runs(v) /\ UNCHANGED <<setting, relay, result, server, rosters>>
      /\ viewers' \in [Endpoints -> ViewerStates]
      /\ viewers'[v].state \in {"closed", "crashed"}
      /\ viewers'[v].tick = viewers[v].tick
      /\ \A w \in Endpoints : w # v => viewers'[w] = viewers[w]
      /\ toViewer' = [toViewer EXCEPT ![v] = <<>>]
      /\ p \in SentBy(v)
      /\ SendToServer(v, p) \/ UNCHANGED toServer
  BY EndEffect
<1> HIDE DEF p
<1>2. toViewer'[v] = <<>> /\ \A w \in Endpoints : w # v => toViewer'[w] = toViewer[w]
  BY <1>1 DEF Sound
<1>3. \A w \in Endpoints : w # v => toServer'[w] = toServer[w]
  BY <1>1, ServerQueues
<1>4. IdOf' = IdOf /\ Faults' = Faults
  BY <1>1, SameIds
<1>5. ASSUME NEW w \in Endpoints, viewers'[w].state \in {"new", "running"}, IdOf[w] # None,
             "reorder" \in Faults
      PROVE  NotDismissed(w)'
  <2>1. w # v /\ NotDismissed(w)
    BY <1>1, <1>5 DEF AllHeard
  <2>2. \A u \in Endpoints : \A i \in DOMAIN toViewer'[u] :
           \E k \in DOMAIN toViewer[u] : toViewer'[u][i] = toViewer[u][k]
    BY <1>2
  <2> QED BY <1>1, <1>3, <1>4, <2>1, <2>2, NotDismissedNext
<1>6. ASSUME NEW u \in Endpoints, NEW w \in Endpoints, NEW c, u # w,
             viewers'[u].state = "running", viewers'[w].state = "running",
             relay'.clientIdByEndpoint[u] = IdOf[u], c = IdOf[w],
             relay'.clientIdByEndpoint[w] = c
      PROVE  Heard(u, c)'
  <2>1. u # v /\ w # v
    BY <1>1, <1>6
  <2>2. Heard(u, c) /\ c \in ClientIds
    BY <1>1, <1>6, <2>1 DEF AllHeard, Holds, Runs, Sound
  <2> QED BY <1>1, <1>2, <2>1, <2>2, HeardKept
<1>7. \A w \in Endpoints : IdOf[w] # None /\ relay'.clientIdByEndpoint[w] = IdOf[w] =>
         \A o \in result'.outputs : ~ Dismisses(o.packet, IdOf[w])
  BY <1>1 DEF AllHeard, HasSession
<1> QED BY <1>4, <1>5, <1>6, <1>7, AllHeardNext

\* Two sessions are of two client ids.
LEMMA DistinctOwners ==
    ASSUME Consistent(relay), NEW v \in Endpoints, NEW w \in Endpoints, v # w,
           NEW c \in ClientIds, relay.clientIdByEndpoint[w] = c
    PROVE  relay.clientIdByEndpoint[v] # c
BY DEF Consistent

\* A frame of v applies what v was told of c, or leaves it for later.
LEMMA PumpHears ==
    ASSUME Sound, NEW v \in Endpoints, NEW n \in 1..Len(toViewer[v]), Pump(v, n),
           NEW c \in ClientIds, c # IdOf[v], Heard(v, c)
    PROVE  Heard(v, c)'
<1> DEFINE q == toViewer[v]
           r == toViewer'[v]
           pose == rosters[v][c]
           next == rosters'[v][c]
           snaps == FirstSnapshots(q, n, c)
           events == FirstEvents(q, n, c)
<1>1. /\ PumpsTo(q, n, c, pose, next) /\ result' = result
      /\ toViewer' \in [Endpoints -> Seq(SentByRelay)]
      /\ Len(r) = Len(q) - n
      /\ \A i \in 1..Len(r) : r[i] = q[n + i]
  BY PumpEffect
<1>2. /\ q \in Seq(SentByRelay) /\ r \in Seq(SentByRelay)
      /\ rosters' \in [Endpoints -> [ClientIds -> Poses \cup {None}]]
  BY <1>1, PumpEffect DEF Sound
<1>3. /\ DOMAIN q = 1..Len(q) /\ DOMAIN r = 1..Len(r) /\ Len(q) \in Nat /\ n \in Nat
      /\ n <= Len(q) /\ n >= 1 /\ \A i \in 1..Len(q) : q[i] \in SentByRelay
  BY <1>2, LenProperties, ElementOfSeq
<1>4. \A i \in 1..n : i \in DOMAIN q /\ i \in Int
  BY <1>3
<1>5. /\ \A i \in snaps : i \in 1..n /\ q[i].kind = "snapshot"
      /\ \A i \in events : i \in 1..n /\ q[i].kind = "serverEvent" /\ q[i].clientId = c
  BY DEF FirstSnapshots, FirstEvents
<1>6. Heard(v, c)' <=>
         \/ \E o \in result.outputs : o.to = v /\ Announces(o.packet, c)
         \/ \E i \in DOMAIN r :
               /\ Announces(r[i], c)
               /\ \A j \in DOMAIN r : j > i => ~ Dismisses(r[j], c)
         \/ /\ next # None
            /\ \A j \in DOMAIN r : ~ Dismisses(r[j], c)
  BY <1>1 DEF Heard, Knows, Announces, Dismisses
<1> HIDE DEF q, r, pose, next, snaps, events
<1>7. ASSUME NEW i0 \in 0..n, \A j \in DOMAIN q : j > i0 => ~ Dismisses(q[j], c)
      PROVE  \A j \in DOMAIN r : ~ Dismisses(r[j], c)
  <2> SUFFICES ASSUME NEW j \in DOMAIN r PROVE ~ Dismisses(r[j], c)
    OBVIOUS
  <2>1. j \in 1..Len(r) /\ n + j \in DOMAIN q /\ n + j > i0
    BY <1>1, <1>3
  <2> QED BY <1>1, <1>7, <2>1
<1>8. ASSUME snaps # {} PROVE next # None
  <2>1. PICK m \in snaps : next = [tick |-> q[m].tick, yaw |-> q[m].yaw]
    BY <1>1, <1>8 DEF PumpsTo, snaps
  <2>2. [tick |-> q[m].tick, yaw |-> q[m].yaw] \in SnapshotPoses
    BY <1>3, <1>4, <1>5, SentByRelayFields
  <2> QED BY <2>1, <2>2, PosesAssumption
<1>9. ASSUME snaps = {}, NEW i \in events, \A j \in DOMAIN q : j > i => ~ Dismisses(q[j], c),
             ~ Dismisses(q[i], c)
      PROVE  next # None
  <2>1. PICK m \in events : /\ \A k \in events : k <= m
                            /\ next = None <=> Dismisses(q[m], c)
    BY <1>1, <1>9 DEF PumpsTo, snaps, events
  <2>2. i <= m /\ i \in Int /\ m \in DOMAIN q /\ m \in Int
    BY <1>4, <1>5, <2>1
  <2>3. m = i \/ m > i
    BY <2>2
  <2> QED BY <1>9, <2>1, <2>2, <2>3
<1>10. CASE \E o \in result.outputs : o.to = v /\ Announces(o.packet, c)
  BY <1>6, <1>10
<1>11. ASSUME NEW i \in DOMAIN q, Announces(q[i], c),
              \A j \in DOMAIN q : j > i => ~ Dismisses(q[j], c)
       PROVE  Heard(v, c)'
  <2>1. CASE i > n
    <3> DEFINE k == i - n
    <3>1. k \in DOMAIN r /\ r[k] = q[i] /\ k \in Int
      BY <1>1, <1>3, <2>1
    <3>2. ASSUME NEW j \in DOMAIN r, j > k PROVE ~ Dismisses(r[j], c)
      <4>1. j \in 1..Len(r) /\ n + j \in DOMAIN q /\ n + j > i
        BY <1>1, <1>3, <3>1, <3>2
      <4> QED BY <1>1, <1>11, <4>1
    <3> HIDE DEF k
    <3>3. Announces(r[k], c)
      BY <1>11, <3>1
    <3> QED BY <1>6, <3>1, <3>2, <3>3
  <2>2. CASE i <= n
    <3>1. i \in 1..n /\ i \in 0..n
      BY <1>3, <2>2
    <3>2. \A j \in DOMAIN r : ~ Dismisses(r[j], c)
      BY <1>7, <1>11, <3>1
    <3>3. CASE snaps # {}
      BY <1>6, <1>8, <3>2, <3>3
    <3>4. CASE snaps = {}
      <4>1. q[i].kind # "snapshot" /\ q[i].clientId = c
        BY <1>11, <3>1, <3>4 DEF Announces, snaps, FirstSnapshots
      <4>2. q[i].kind = "serverEvent" /\ q[i].event = "clientConnected"
        BY <1>3, <1>11, <4>1, SentByRelayFields DEF Announces
      <4>3. i \in events /\ ~ Dismisses(q[i], c)
        BY <3>1, <4>1, <4>2 DEF events, FirstEvents, Dismisses
      <4>4. next # None
        BY <1>9, <1>11, <3>4, <4>3
      <4> QED BY <1>6, <3>2, <4>4
    <3> QED BY <3>3, <3>4
  <2>3. i \in Int
    BY <1>3
  <2> QED BY <1>3, <2>1, <2>2, <2>3
<1>12. ASSUME pose # None, \A j \in DOMAIN q : ~ Dismisses(q[j], c) PROVE Heard(v, c)'
  <2>1. \A j \in DOMAIN r : ~ Dismisses(r[j], c)
    <3>1. 0 \in 0..n
      BY <1>3
    <3> QED BY <1>7, <1>12, <3>1
  <2>2. next # None
    <3>1. CASE snaps = {} /\ events # {}
      <4>1. PICK m \in events : next = None <=> Dismisses(q[m], c)
        BY <1>1, <3>1 DEF PumpsTo, snaps, events
      <4> QED BY <1>4, <1>5, <1>12, <4>1
    <3>2. CASE snaps = {} /\ events = {}
      BY <1>1, <1>12, <3>2 DEF PumpsTo, snaps, events
    <3> QED BY <1>8, <3>1, <3>2
  <2> QED BY <1>6, <2>1, <2>2
<1> QED BY <1>10, <1>11, <1>12 DEF Heard, Knows, q, pose

LEMMA HeardPump ==
    ASSUME Sound, AllHeard, NEW v \in Endpoints, NEW n \in 1..Len(toViewer[v]), Pump(v, n)
    PROVE  AllHeard'
<1>1. /\ Runs(v) /\ UNCHANGED <<setting, relay, result, server, viewers, toServer>>
      /\ \A w \in Endpoints : w # v => toViewer'[w] = toViewer[w]
                                       /\ rosters'[w] = rosters[w]
      /\ toViewer' \in [Endpoints -> Seq(SentByRelay)]
      /\ Len(toViewer'[v]) = Len(toViewer[v]) - n
      /\ \A i \in 1..Len(toViewer'[v]) : toViewer'[v][i] = toViewer[v][n + i]
  BY PumpEffect
<1>2. IdOf' = IdOf /\ Faults' = Faults
  BY <1>1, SameIds
<1>3. ASSUME NEW w \in Endpoints, viewers'[w].state \in {"new", "running"}, IdOf[w] # None,
             "reorder" \in Faults
      PROVE  NotDismissed(w)'
  <2>1. NotDismissed(w)
    BY <1>1, <1>3 DEF AllHeard
  <2>2. ASSUME NEW u \in Endpoints, NEW i \in DOMAIN toViewer'[u]
        PROVE  \E k \in DOMAIN toViewer[u] : toViewer'[u][i] = toViewer[u][k]
    <3>1. CASE u # v
      BY <1>1, <2>2, <3>1
    <3>2. CASE u = v
      <4>1. /\ toViewer[v] \in Seq(SentByRelay) /\ toViewer'[v] \in Seq(SentByRelay)
        BY <1>1 DEF Sound
      <4>2. /\ DOMAIN toViewer[v] = 1..Len(toViewer[v]) /\ Len(toViewer[v]) \in Nat
            /\ DOMAIN toViewer'[v] = 1..Len(toViewer'[v])
        BY <4>1, LenProperties
      <4>3. i \in 1..Len(toViewer'[v]) /\ n + i \in DOMAIN toViewer[v]
        BY <1>1, <2>2, <3>2, <4>2
      <4> QED BY <1>1, <3>2, <4>3
    <3> QED BY <3>1, <3>2
  <2> QED BY <1>1, <1>2, <2>1, <2>2, NotDismissedNext
<1>4. ASSUME NEW u \in Endpoints, NEW w \in Endpoints, NEW c, u # w,
             viewers'[u].state = "running", viewers'[w].state = "running",
             relay'.clientIdByEndpoint[u] = IdOf[u], c = IdOf[w],
             relay'.clientIdByEndpoint[w] = c
      PROVE  Heard(u, c)'
  <2>1. Heard(u, c) /\ c \in ClientIds
    BY <1>1, <1>4 DEF AllHeard, Holds, Runs, Sound
  <2>2. c # IdOf[u]
    BY <1>1, <1>4, <2>1, DistinctOwners DEF Sound
  <2>3. CASE u = v
    BY <2>1, <2>2, <2>3, PumpHears
  <2>4. CASE u # v
    BY <1>1, <2>1, <2>4, HeardKept
  <2> QED BY <2>3, <2>4
<1>5. \A w \in Endpoints : IdOf[w] # None /\ relay'.clientIdByEndpoint[w] = IdOf[w] =>
         \A o \in result'.outputs : ~ Dismisses(o.packet, IdOf[w])
  BY <1>1 DEF AllHeard, HasSession
<1> QED BY <1>2, <1>3, <1>4, <1>5, AllHeardNext

\* Only the disconnect of the session's own process makes the server dismiss a client.
LEMMA IngestDismisses ==
    ASSUME Sound, NEW v \in Endpoints, NEW p \in SentBy(v), Ingest(v, p),
           NEW o \in result'.outputs, NEW c, Dismisses(o.packet, c)
    PROVE  p.kind = "disconnect" /\ c = IdOf[v] /\ IngestsDisconnect(v, p, c)
<1>1. CASE IngestsNothing(v, p, IdOf[v])
  BY <1>1 DEF IngestsNothing
<1>2. CASE IngestsConnect(v, p, IdOf[v])
  <2>1. PICK d \in ClientIds : /\ relay.latestSnapshotsByClientId[d] # None
                               /\ o.packet = Reencoded(relay.latestSnapshotsByClientId[d])
    BY <1>2 DEF IngestsConnect, Dismisses
  <2>2. relay.latestSnapshotsByClientId[d] \in ActorSnapshots
    BY <2>1 DEF Sound, Consistent, RelayMaps
  <2>3. o.packet.kind = "snapshot"
    BY <2>1, <2>2, ReencodedSnapshot
  <2> QED BY <2>3 DEF Dismisses
<1>3. CASE IngestsDisconnect(v, p, IdOf[v])
  <2>1. o.packet.clientId = IdOf[v] /\ p.kind = "disconnect"
    BY <1>3 DEF IngestsDisconnect
  <2>2. c = IdOf[v]
    BY <2>1 DEF Dismisses
  <2> QED BY <1>3, <2>1, <2>2
<1>4. CASE IngestsSnapshot(v, p, IdOf[v])
  BY <1>4 DEF IngestsSnapshot, Dismisses
<1> QED BY <1>1, <1>2, <1>3, <1>4, IngestCases

LEMMA HeardIngests ==
    ASSUME Sound, Announcing, AllHeard, NEW v \in Endpoints, ServerIngests(v)
    PROVE  AllHeard'
<1> DEFINE p == Head(toServer[v])
           c0 == IdOf[v]
<1>1. /\ result = NoResult /\ p \in SentBy(v) /\ p = toServer[v][1] /\ Ingest(v, p)
      /\ UNCHANGED <<setting, server, viewers, rosters, toViewer>>
      /\ \A w \in Endpoints : w # v => toServer'[w] = toServer[w]
      /\ toServer'[v] \in Seq(SentBy(v)) /\ toServer[v] \in Seq(SentBy(v))
      /\ Len(toServer[v]) >= 1
      /\ Len(toServer'[v]) = Len(toServer[v]) - 1
      /\ \A i \in 1..Len(toServer'[v]) : toServer'[v][i] = toServer[v][i + 1]
  BY Received DEF Sound
<1> HIDE DEF p
<1>2. /\ DOMAIN toServer[v] = 1..Len(toServer[v]) /\ Len(toServer[v]) \in Nat
      /\ DOMAIN toServer'[v] = 1..Len(toServer'[v])
  BY <1>1, LenProperties
<1>3. IdOf' = IdOf /\ Faults' = Faults
  BY <1>1, SameIds
<1>4. result.outputs = {}
  BY <1>1 DEF NoResult, RelayResult
<1>5. /\ c0 \in ClientIds /\ c0 # None /\ p.clientId = c0
      /\ Consistent(relay) /\ Consistent(relay')
  BY <1>1, SentByFields, NoneAssumption, SoundIngests DEF Sound
<1>6. \/ IngestsNothing(v, p, c0) \/ IngestsConnect(v, p, c0)
      \/ IngestsDisconnect(v, p, c0) \/ IngestsSnapshot(v, p, c0)
  BY <1>1, IngestCases
<1>7. ASSUME NEW w \in Endpoints, viewers'[w].state \in {"new", "running"}, IdOf[w] # None,
             "reorder" \in Faults
      PROVE  NotDismissed(w)'
  <2>1. NotDismissed(w)
    BY <1>1, <1>7 DEF AllHeard
  <2>2. ASSUME NEW i \in DOMAIN toServer'[w]
        PROVE  \E k \in DOMAIN toServer[w] : toServer'[w][i] = toServer[w][k]
    <3>1. CASE w # v
      BY <1>1, <2>2, <3>1
    <3>2. CASE w = v
      <4>1. i + 1 \in DOMAIN toServer[v] /\ i \in 1..Len(toServer'[v])
        BY <1>1, <1>2, <2>2, <3>2
      <4> QED BY <1>1, <3>2, <4>1
    <3> QED BY <3>1, <3>2
  <2>3. ASSUME NEW o \in result'.outputs, Dismisses(o.packet, IdOf[w]) PROVE FALSE
    <3>1. /\ p.kind = "disconnect" /\ IdOf[w] = IdOf[v]
          /\ IngestsDisconnect(v, p, IdOf[w])
      BY <1>1, <2>3, IngestDismisses
    <3>2. w = v
      BY <1>7, <3>1 DEF Announcing
    <3>3. 1 \in DOMAIN toServer[v]
      BY <1>1, <1>2
    <3> QED BY <1>1, <2>1, <3>1, <3>2, <3>3 DEF NotDismissed
  <2> QED BY <1>1, <1>3, <2>1, <2>2, <2>3, NotDismissedNext
<1>8. ASSUME NEW u \in Endpoints, NEW w \in Endpoints, NEW c, u # w,
             viewers'[u].state = "running", viewers'[w].state = "running",
             relay'.clientIdByEndpoint[u] = IdOf[u], c = IdOf[w],
             relay'.clientIdByEndpoint[w] = c
      PROVE  Heard(u, c)'
  <2>1. c \in ClientIds /\ IdOf[u] \in ClientIds /\ c # None /\ IdOf[u] # None
    BY <1>1, <1>8, NoneAssumption DEF Sound, Runs
  <2>2. CASE IngestsConnect(v, p, c0) /\ u = v
    <3>1. \E o \in result'.outputs : o.to = u /\ Announces(o.packet, c)
      BY <1>8, <2>1, <2>2 DEF IngestsConnect
    <3> QED BY <3>1 DEF Heard, Announces
  <2>3. CASE IngestsConnect(v, p, c0) /\ w = v
    <3>1. \E o \in result'.outputs : o.to = u /\ Announces(o.packet, c)
      BY <1>8, <2>1, <2>3 DEF IngestsConnect
    <3> QED BY <3>1 DEF Heard, Announces
  <2>4. CASE IngestsConnect(v, p, c0) => u # v /\ w # v
    <3>1. /\ relay.clientIdByEndpoint[u] = IdOf[u]
          /\ relay.clientIdByEndpoint[w] = c
      BY <1>6, <1>8, <2>1, <2>4 DEF IngestsNothing, IngestsConnect, IngestsDisconnect,
                                    IngestsSnapshot
    <3>2. Heard(u, c)
      BY <1>1, <1>8, <3>1 DEF AllHeard, Holds, Runs
    <3> QED BY <1>1, <1>4, <2>1, <3>2, HeardKept
  <2> QED BY <2>2, <2>3, <2>4
<1>9. ASSUME NEW w \in Endpoints, IdOf[w] # None, relay'.clientIdByEndpoint[w] = IdOf[w],
             NEW o \in result'.outputs
      PROVE  ~ Dismisses(o.packet, IdOf[w])
  <2> SUFFICES ASSUME Dismisses(o.packet, IdOf[w]) PROVE FALSE
    OBVIOUS
  <2>1. IdOf[w] = IdOf[v] /\ IngestsDisconnect(v, p, IdOf[w])
    BY <1>1, IngestDismisses
  <2>2. w # v /\ relay.clientIdByEndpoint[w] = c0 /\ relay.clientIdByEndpoint[v] = c0
    BY <1>9, <2>1 DEF IngestsDisconnect
  <2> QED BY <1>5, <2>2, DistinctOwners
<1> QED BY <1>3, <1>7, <1>8, <1>9, AllHeardNext

\* What the server sends a viewer arrives in its queue and hides nothing it should hear.
LEMMA SendHears ==
    ASSUME Sound, Announcing, AllHeard, NEW output \in result.outputs, ServerSends(output),
           NEW v \in Endpoints, NEW w \in Endpoints, v # w, Holds(v), Holds(w),
           NEW c \in ClientIds, c = IdOf[w]
    PROVE  Heard(v, c)'
<1> DEFINE p == output.packet
           q == toViewer[v]
           r == toViewer'[v]
<1>1. /\ SendToViewer(output.to, p)
      /\ result' = [result EXCEPT !.outputs = result.outputs \ {output}]
      /\ UNCHANGED <<setting, relay, server, viewers, rosters, toServer>>
  BY DEF ServerSends
<1>2. /\ output.to \in Endpoints /\ p \in SentByRelay
      /\ result'.outputs = result.outputs \ {output}
  BY <1>1 DEF Sound, ResultTyped, RelayOutputs
<1>3. /\ toViewer' \in [Endpoints -> Seq(SentByRelay)]
      /\ \A u \in Endpoints : u # output.to => toViewer'[u] = toViewer[u]
      /\ Runs(output.to) => \E from : Carries(toViewer'[output.to], toViewer[output.to],
                                              p, from)
  <2> HIDE DEF p
  <2> QED BY <1>1, <1>2, ViewerQueues
<1>4. Heard(v, c) /\ ~ Dismisses(p, c)
  <2>1. HasSession(w)
    BY NoneAssumption DEF Holds, HasSession
  <2> QED BY <2>1 DEF AllHeard
<1>5. CASE v # output.to
  BY <1>1, <1>2, <1>3, <1>4, <1>5, HeardKept
<1>6. CASE v = output.to
  <2>1. /\ q \in Seq(SentByRelay) /\ r \in Seq(SentByRelay)
    BY <1>3 DEF Sound
  <2>2. /\ DOMAIN q = 1..Len(q) /\ DOMAIN r = 1..Len(r) /\ Len(q) \in Nat /\ Len(r) \in Nat
    BY <2>1, LenProperties
  <2>3. PICK from : Carries(r, q, p, from)
    BY <1>3, <1>6 DEF Holds
  <2>4. /\ \A i \in DOMAIN r : /\ from[i] \in 0..Len(q)
                               /\ r[i] = IF from[i] = 0 THEN p ELSE q[from[i]]
        /\ \A i, j \in DOMAIN r : i < j /\ from[i] # 0 /\ from[j] # 0 => from[i] < from[j]
        /\ \A k \in DOMAIN q : \E i \in DOMAIN r : from[i] = k
        /\ \E i \in DOMAIN r : from[i] = 0
        /\ "reorder" \notin Faults =>
              \A i, j \in DOMAIN r : i < j /\ from[i] = 0 => from[j] = 0
    BY <2>2, <2>3 DEF Carries, Announcing
  <2>5. \A i \in DOMAIN r : from[i] # 0 => from[i] \in DOMAIN q
    BY <2>2, <2>4
  <2>6. Heard(v, c)' <=>
         \/ \E o \in result'.outputs : o.to = v /\ Announces(o.packet, c)
         \/ \E i \in DOMAIN r :
               /\ Announces(r[i], c)
               /\ \A j \in DOMAIN r : j > i => ~ Dismisses(r[j], c)
         \/ /\ rosters[v][c] # None
            /\ \A j \in DOMAIN r : ~ Dismisses(r[j], c)
    BY <1>1 DEF Heard, Knows, Announces, Dismisses
  <2>7. "reorder" \in Faults => \A k \in DOMAIN q : ~ Dismisses(q[k], c)
    <3>1. "reorder" \in Faults => NotDismissed(w)
      BY NoneAssumption DEF AllHeard, Holds, Runs
    <3> QED BY <3>1 DEF NotDismissed
  <2> HIDE DEF q, r, p
  <2>8. CASE Announces(p, c)
    <3>1. PICK i \in DOMAIN r : from[i] = 0
      BY <2>4
    <3>2. Announces(r[i], c)
      BY <2>4, <2>8, <3>1
    <3>3. ASSUME NEW j \in DOMAIN r, j > i PROVE ~ Dismisses(r[j], c)
      <4>1. from[j] = 0 \/ "reorder" \in Faults
        BY <2>2, <2>4, <3>1, <3>3
      <4>2. r[j] = p \/ (from[j] \in DOMAIN q /\ r[j] = q[from[j]])
        BY <2>4, <2>5
      <4>3. from[j] = 0 => r[j] = p
        BY <2>4
      <4> QED BY <1>4, <2>7, <4>1, <4>2, <4>3
    <3> QED BY <2>6, <3>2, <3>3
  <2>9. CASE ~ Announces(p, c)
    <3>1. CASE \E o \in result.outputs : o.to = v /\ Announces(o.packet, c)
      <4>1. \E o \in result'.outputs : o.to = v /\ Announces(o.packet, c)
        BY <1>2, <2>9, <3>1 DEF p
      <4> QED BY <2>6, <4>1
    <3>2. ASSUME NEW k \in DOMAIN q, Announces(q[k], c),
                 \A j \in DOMAIN q : j > k => ~ Dismisses(q[j], c)
          PROVE  Heard(v, c)'
      <4>1. PICK i \in DOMAIN r : from[i] = k
        BY <2>4
      <4>2. k # 0 /\ r[i] = q[k]
        BY <2>2, <2>4, <4>1
      <4>3. ASSUME NEW j \in DOMAIN r, j > i PROVE ~ Dismisses(r[j], c)
        <5>1. CASE from[j] = 0
          BY <1>4, <2>4, <5>1
        <5>2. CASE from[j] # 0
          <6>1. from[j] \in DOMAIN q /\ r[j] = q[from[j]]
            BY <2>4, <2>5, <5>2
          <6>2. i < j /\ from[i] # 0
            BY <2>2, <4>1, <4>2, <4>3
          <6>3. from[i] < from[j]
            BY <2>4, <5>2, <6>2
          <6>4. from[j] > k
            BY <2>2, <4>1, <6>1, <6>3
          <6> QED BY <3>2, <6>1, <6>4
        <5> QED BY <5>1, <5>2
      <4>4. Announces(r[i], c)
        BY <3>2, <4>2
      <4> QED BY <2>6, <4>3, <4>4
    <3>3. ASSUME rosters[v][c] # None, \A j \in DOMAIN q : ~ Dismisses(q[j], c)
          PROVE  Heard(v, c)'
      <4>1. \A j \in DOMAIN r : ~ Dismisses(r[j], c)
        BY <1>4, <2>4, <2>5, <3>3
      <4> QED BY <2>6, <3>3, <4>1
    <3> QED BY <1>4, <3>1, <3>2, <3>3 DEF Heard, Knows, q
  <2> QED BY <2>8, <2>9
<1> QED BY <1>5, <1>6

LEMMA HeardSends ==
    ASSUME Sound, Announcing, AllHeard, NEW output \in result.outputs, ServerSends(output)
    PROVE  AllHeard'
<1> DEFINE p == output.packet
           to == output.to
<1>1. /\ SendToViewer(to, p)
      /\ result' = [result EXCEPT !.outputs = result.outputs \ {output}]
      /\ UNCHANGED <<setting, relay, server, viewers, rosters, toServer>>
  BY DEF ServerSends
<1>2. /\ to \in Endpoints /\ p \in SentByRelay
      /\ result'.outputs \subseteq result.outputs
  BY <1>1 DEF Sound, ResultTyped, RelayOutputs
<1> HIDE DEF p, to
<1>3. /\ toViewer' \in [Endpoints -> Seq(SentByRelay)]
      /\ \A w \in Endpoints : w # to => toViewer'[w] = toViewer[w]
      /\ ~ Runs(to) => toViewer'[to] = toViewer[to]
      /\ Runs(to) => /\ toViewer'[to] \in Sent(toViewer[to], p)
                     /\ \E from : Carries(toViewer'[to], toViewer[to], p, from)
  BY <1>1, <1>2, ViewerQueues
<1>4. IdOf' = IdOf /\ Faults' = Faults
  BY <1>1, SameIds
<1>5. ASSUME NEW w \in Endpoints, viewers'[w].state \in {"new", "running"}, IdOf[w] # None,
             "reorder" \in Faults
      PROVE  NotDismissed(w)'
  <2>1. NotDismissed(w)
    BY <1>1, <1>5 DEF AllHeard
  <2>2. ASSUME NEW u \in Endpoints, NEW i \in DOMAIN toViewer'[u]
        PROVE  \/ \E k \in DOMAIN toViewer[u] : toViewer'[u][i] = toViewer[u][k]
               \/ toViewer'[u][i] = p
    <3>1. CASE toViewer'[u] = toViewer[u]
      BY <2>2, <3>1
    <3>2. CASE u = to /\ \E from : Carries(toViewer'[to], toViewer[to], p, from)
      <4>1. /\ toViewer[u] \in Seq(SentByRelay) /\ toViewer'[u] \in Seq(SentByRelay)
        BY <1>3 DEF Sound
      <4> QED BY <2>2, <3>2, <4>1, CarriesElements
    <3> QED BY <1>3, <3>1, <3>2
  <2>3. \E o \in result.outputs : p = o.packet
    BY DEF p
  <2> QED BY <1>1, <1>2, <1>4, <2>1, <2>2, <2>3, NotDismissedNext
<1>6. ASSUME NEW u \in Endpoints, NEW w \in Endpoints, NEW c, u # w,
             viewers'[u].state = "running", viewers'[w].state = "running",
             relay'.clientIdByEndpoint[u] = IdOf[u], c = IdOf[w],
             relay'.clientIdByEndpoint[w] = c
      PROVE  Heard(u, c)'
  <2>1. Holds(u) /\ Holds(w) /\ c \in ClientIds
    BY <1>1, <1>6 DEF Holds, Runs, Sound
  <2> QED BY <1>6, <2>1, SendHears
<1>7. \A w \in Endpoints : IdOf[w] # None /\ relay'.clientIdByEndpoint[w] = IdOf[w] =>
         \A o \in result'.outputs : ~ Dismisses(o.packet, IdOf[w])
  BY <1>1, <1>2 DEF AllHeard, HasSession
<1> QED BY <1>4, <1>5, <1>6, <1>7, AllHeardNext

LEMMA HeardServer ==
    ASSUME Sound, AllHeard, ServerLoops \/ ServerStops \/ ServerRestarts PROVE AllHeard'
<1>1. /\ UNCHANGED <<setting, viewers, rosters, toViewer>>
      /\ \/ relay' = relay /\ (result' = result \/ result.outputs = {}) /\ toServer' = toServer
         \/ relay' = EmptyRelay /\ toServer' = [v \in Endpoints |-> <<>>]
      /\ result' = result \/ result' = NoResult
  BY DEF ServerLoops, ServerStops, ServerRestarts
<1>2. result'.outputs \subseteq result.outputs
  BY <1>1 DEF NoResult, RelayResult
<1>3. \A w \in Endpoints : toServer'[w] = toServer[w] \/ toServer'[w] = <<>>
  BY <1>1
<1>4. IdOf' = IdOf /\ Faults' = Faults
  BY <1>1, SameIds
<1>5. ASSUME NEW w \in Endpoints, viewers'[w].state \in {"new", "running"}, IdOf[w] # None,
             "reorder" \in Faults
      PROVE  NotDismissed(w)'
  <2>1. NotDismissed(w)
    BY <1>1, <1>5 DEF AllHeard
  <2>2. \A i \in DOMAIN toServer'[w] :
           \E k \in DOMAIN toServer[w] : toServer'[w][i] = toServer[w][k]
    <3>1. DOMAIN <<>> = {}
      OBVIOUS
    <3> QED BY <1>3, <3>1
  <2> QED BY <1>1, <1>2, <1>4, <2>1, <2>2, NotDismissedNext
<1>6. ASSUME NEW w \in Endpoints, IdOf[w] # None, relay'.clientIdByEndpoint[w] = IdOf[w]
      PROVE  relay' = relay /\ (result' = result \/ result.outputs = {})
  <2>1. IdOf[w] # None => EmptyRelay.clientIdByEndpoint[w] # IdOf[w]
    BY DEF EmptyRelay
  <2> QED BY <1>1, <1>6, <2>1
<1>7. ASSUME NEW u \in Endpoints, NEW w \in Endpoints, NEW c, u # w,
             viewers'[u].state = "running", viewers'[w].state = "running",
             relay'.clientIdByEndpoint[u] = IdOf[u], c = IdOf[w],
             relay'.clientIdByEndpoint[w] = c
      PROVE  Heard(u, c)'
  <2>1. c \in ClientIds /\ IdOf[w] # None
    BY <1>1, <1>7, NoneAssumption DEF Sound, Runs
  <2>2. relay' = relay /\ (result' = result \/ result.outputs = {})
    BY <1>6, <1>7, <2>1
  <2>3. Heard(u, c)
    BY <1>1, <1>7, <2>2 DEF AllHeard, Holds, Runs
  <2> QED BY <1>1, <2>1, <2>2, <2>3, HeardKept
<1>8. \A w \in Endpoints : IdOf[w] # None /\ relay'.clientIdByEndpoint[w] = IdOf[w] =>
         \A o \in result'.outputs : ~ Dismisses(o.packet, IdOf[w])
  BY <1>2, <1>6 DEF AllHeard, HasSession
<1> QED BY <1>4, <1>5, <1>7, <1>8, AllHeardNext

LEMMA HeardInit == Init => AnnouncedInv
<1> SUFFICES ASSUME Init PROVE AllHeard
  BY DEF AnnouncedInv
<1>1. /\ toServer = [v \in Endpoints |-> <<>>] /\ toViewer = [v \in Endpoints |-> <<>>]
      /\ result.outputs = {}
      /\ \A v \in Endpoints : viewers[v].state = "new"
  BY DEF Init, RelayInit, NoResult, RelayResult
<1>2. \A w \in Endpoints : NotDismissed(w)
  <2>1. DOMAIN <<>> = {}
    OBVIOUS
  <2> QED BY <1>1, <2>1 DEF NotDismissed
<1>3. \A v \in Endpoints : ~ Holds(v)
  BY <1>1 DEF Holds, Runs
<1> QED BY <1>1, <1>2, <1>3 DEF AllHeard

LEMMA StepKeepsSetting == ASSUME [Next]_vars PROVE setting' = setting
<1>1. CASE UNCHANGED vars
  BY <1>1 DEF vars
<1> QED BY <1>1, StepCases DEF Start, Publish, Close, Crash, ServerIngests, Pump,
           ServerSends, ServerLoops, ServerStops, ServerRestarts

LEMMA HeardStep == Sound /\ AnnouncedInv /\ [Next]_vars => AnnouncedInv'
<1> SUFFICES ASSUME Sound, AnnouncedInv, [Next]_vars PROVE AnnouncedInv'
  OBVIOUS
<1>1. setting' = setting
  BY StepKeepsSetting
<1>2. Announcing' <=> Announcing
  BY <1>1, SameIds DEF Announcing
<1>3. ASSUME Announcing PROVE AllHeard'
  <2>1. AllHeard
    BY <1>3 DEF AnnouncedInv
  <2>2. CASE UNCHANGED vars
    <3>1. IdOf' = IdOf /\ Faults' = Faults
      BY <1>1, SameIds
    <3>2. \A w : NotDismissed(w)' <=> NotDismissed(w)
      BY <2>2, <3>1 DEF vars, NotDismissed, Dismisses
    <3>3. \A v, c : Heard(v, c)' <=> Heard(v, c)
      BY <2>2 DEF vars, Heard, Knows, Announces, Dismisses
    <3> QED BY <2>1, <2>2, <3>1, <3>2, <3>3, AllHeardNext
            DEF vars, AllHeard, HasSession, Holds, Runs
  <2> QED BY <1>3, <2>1, <2>2, StepCases, HeardStart, HeardPublish, HeardPump, HeardEnd,
             HeardIngests, HeardSends, HeardServer
<1> QED BY <1>2, <1>3 DEF AnnouncedInv

\* A running viewer has its own actor.
OwnShown == \A v \in Endpoints : Runs(v) => Knows(v, IdOf[v])

LEMMA OwnShownStep == Sound /\ OwnShown /\ [Next]_vars => OwnShown'
<1> SUFFICES ASSUME Sound, OwnShown, [Next]_vars,
                    NEW w \in Endpoints, Runs(w)'
             PROVE  rosters'[w][IdOf'[w]] # None
  BY DEF OwnShown, Knows
<1>1. setting' = setting
  BY StepKeepsSetting
<1>2. IdOf' = IdOf
  BY <1>1, SameIds
<1>3. ASSUME NEW v \in Endpoints, Start(v) PROVE rosters'[w][IdOf[w]] # None
  <2>1. /\ viewers[v].state = "new" /\ IdOf[v] # None
        /\ viewers' = [viewers EXCEPT ![v].state = "running"]
        /\ rosters' = [rosters EXCEPT ![v] = [NoActors EXCEPT ![IdOf[v]] = SpawnPose]]
    BY <1>3 DEF Start
  <2>2. IdOf[v] \in ClientIds /\ SpawnPose # None
    BY <2>1, SettingFields, PosesAssumption DEF Sound
  <2>3. CASE w = v
    <3>1. rosters'[v] = [NoActors EXCEPT ![IdOf[v]] = SpawnPose]
      BY <2>1 DEF Sound
    <3> QED BY <2>2, <2>3, <3>1 DEF NoActors
  <2>4. CASE w # v
    <3>1. viewers'[w] = viewers[w] /\ rosters'[w] = rosters[w]
      BY <2>1, <2>4 DEF Sound
    <3> QED BY <3>1 DEF OwnShown, Runs, Knows
  <2> QED BY <2>3, <2>4
<1>4. ASSUME NEW v \in Endpoints, NEW n \in 1..Len(toViewer[v]), Pump(v, n)
      PROVE  rosters'[w][IdOf[w]] # None
  <2>1. /\ UNCHANGED viewers
        /\ \A u \in Endpoints : u # v => rosters'[u] = rosters[u]
        /\ \A c \in ClientIds : c = IdOf[v] => rosters'[v][c] = rosters[v][c]
    BY <1>4, PumpEffect
  <2>2. Runs(w) /\ IdOf[w] \in ClientIds
    BY <2>1 DEF Runs, Sound
  <2> QED BY <2>1, <2>2 DEF OwnShown, Knows
<1>5. ASSUME rosters' = rosters, \A v \in Endpoints : viewers'[v].state = "running" => Runs(v)
      PROVE  rosters'[w][IdOf[w]] # None
  BY <1>5 DEF OwnShown, Knows, Runs
<1>6. ASSUME NEW v \in Endpoints, Publish(v) PROVE rosters'[w][IdOf[w]] # None
  BY <1>5, <1>6 DEF Publish, Sound, ViewerStates, Runs
<1>7. ASSUME NEW v \in Endpoints, Close(v) \/ Crash(v) PROVE rosters'[w][IdOf[w]] # None
  BY <1>5, <1>7, EndEffect DEF Runs
<1>8. CASE UNCHANGED <<viewers, rosters>>
  BY <1>2, <1>5, <1>8 DEF Runs
<1>9. CASE \/ \E v \in Endpoints : ServerIngests(v)
           \/ \E output \in result.outputs : ServerSends(output)
           \/ ServerLoops \/ ServerStops \/ ServerRestarts \/ UNCHANGED vars
  <2>1. UNCHANGED <<viewers, rosters>>
    <3>1. CASE UNCHANGED vars
      BY <3>1 DEF vars
    <3>2. CASE ~ UNCHANGED vars
      BY <1>9, <3>2 DEF ServerIngests, ServerSends, ServerLoops, ServerStops,
                        ServerRestarts
    <3> QED BY <3>1, <3>2
  <2> QED BY <1>8, <2>1
<1> QED BY <1>2, <1>3, <1>4, <1>6, <1>7, <1>9, StepCases

\* Where every datagram sent to a running process arrives, two viewers that have a
\* session show each other once nothing is on its way: whatever doubles, crashes, stops
\* and is taken over, and whatever overtakes as long as no two processes use one id.
THEOREM NobodyIsMissed == Spec => [](Announcing => NoPeerMissing)
<1>1. Sound /\ AnnouncedInv /\ OwnShown => (Announcing => NoPeerMissing)
  <2> SUFFICES ASSUME Sound, AllHeard, OwnShown, Settled,
                      NEW v \in Endpoints, NEW w \in Endpoints, Holds(v), Holds(w)
               PROVE  Knows(v, IdOf[w])
    BY DEF AnnouncedInv, NoPeerMissing
  <2>1. CASE v # w
    <3>1. Heard(v, IdOf[w])
      BY <2>1 DEF AllHeard
    <3>2. result.outputs = {} /\ DOMAIN toViewer[v] = {}
      <4>1. DOMAIN <<>> = {}
        OBVIOUS
      <4> QED BY <4>1 DEF Settled, NoResult, RelayResult
    <3> QED BY <3>1, <3>2 DEF Heard
  <2>2. CASE v = w
    BY <2>2 DEF OwnShown, Holds
  <2> QED BY <2>1, <2>2
<1>2. Init => OwnShown
  <2> SUFFICES ASSUME Init PROVE \A v \in Endpoints : ~ Runs(v)
    BY DEF OwnShown
  <2> QED BY DEF Init, Runs
<1> QED BY <1>1, <1>2, HeardInit, HeardStep, OwnShownStep, SoundInit, SoundStep, PTL DEF Spec
-----------------------------------------------------------------------------
\* r is q, or q with p at its end.
Extends(r, q, p) ==
    /\ \A i \in DOMAIN r : \/ i \in DOMAIN q /\ r[i] = q[i]
                           \/ r[i] = p /\ \A j \in DOMAIN r : ~ (j > i)
    /\ DOMAIN q = {} => DOMAIN r \subseteq {1}

\* A queue that keeps its order only grows at its end.
LEMMA SentInOrder ==
    ASSUME InOrder, NEW S, NEW q \in Seq(S), NEW p \in S, NEW r \in Sent(q, p)
    PROVE  Extends(r, q, p)
<1>1. "duplicate" \notin Faults /\ "reorder" \notin Faults
  BY DEF InOrder
<1>2. r = q \/ r = Append(q, p)
  BY <1>1 DEF Sent
<1>3. CASE r = Append(q, p)
  <2>1. /\ r \in Seq(S) /\ Len(r) = Len(q) + 1 /\ r[Len(q) + 1] = p
        /\ \A i \in 1..Len(q) : r[i] = q[i]
    BY <1>3, AppendProperties
  <2>2. DOMAIN r = 1..(Len(q) + 1) /\ DOMAIN q = 1..Len(q) /\ Len(q) \in Nat
    BY <2>1, LenProperties
  <2> HIDE <1>3
  <2>3. ASSUME NEW i \in DOMAIN r
        PROVE  \/ i \in DOMAIN q /\ r[i] = q[i]
               \/ r[i] = p /\ \A j \in DOMAIN r : ~ (j > i)
    <3>1. i \in 1..Len(q) \/ i = Len(q) + 1
      BY <2>2
    <3> QED BY <2>1, <2>2, <3>1
  <2>4. DOMAIN q = {} => DOMAIN r \subseteq {1}
    <3>1. DOMAIN q = {} => Len(q) = 0
      BY <2>2
    <3> QED BY <2>2, <3>1
  <2> QED BY <2>3, <2>4 DEF Extends
<1>4. CASE r = q
  BY <1>4 DEF Extends
<1> QED BY <1>2, <1>3, <1>4

\* A process's queue grows at its end when it sends, a viewer's when it is sent to.
LEMMA ServerQueueInOrder ==
    ASSUME Sound, InOrder, NEW v \in Endpoints, NEW p \in SentBy(v), SendToServer(v, p)
    PROVE  /\ \A w \in Endpoints : w # v => toServer'[w] = toServer[w]
           /\ Extends(toServer'[v], toServer[v], p)
<1> DEFINE q == toServer[v]
           r == toServer'[v]
           S == SentBy(v)
<1>1. /\ \A w \in Endpoints : w # v => toServer'[w] = toServer[w]
      /\ r = q \/ r \in Sent(q, p)
  BY ServerQueues
<1>2. q \in Seq(S) /\ p \in S
  BY DEF Sound
<1>3. Extends(q, q, p)
  BY DEF Extends
<1> HIDE DEF q, r, S
<1>4. r \in Sent(q, p) => Extends(r, q, p)
  BY <1>2, SentInOrder
<1>5. Extends(r, q, p)
  BY <1>1, <1>3, <1>4
<1> QED BY <1>1, <1>5 DEF r, q

LEMMA ViewerQueueInOrder ==
    ASSUME Sound, InOrder, NEW v \in Endpoints, NEW p \in SentByRelay, SendToViewer(v, p)
    PROVE  /\ \A w \in Endpoints : w # v => toViewer'[w] = toViewer[w]
           /\ Extends(toViewer'[v], toViewer[v], p)
<1> DEFINE q == toViewer[v]
           r == toViewer'[v]
<1>1. /\ \A w \in Endpoints : w # v => toViewer'[w] = toViewer[w]
      /\ r = q \/ r \in Sent(q, p)
  BY ViewerQueues
<1>2. q \in Seq(SentByRelay)
  BY DEF Sound
<1>3. Extends(q, q, p)
  BY DEF Extends
<1> HIDE DEF q, r
<1>4. r \in Sent(q, p) => Extends(r, q, p)
  BY <1>2, SentInOrder
<1>5. Extends(r, q, p)
  BY <1>1, <1>3, <1>4
<1> QED BY <1>1, <1>5 DEF r, q

\* Nothing of w comes to be relayed or shown that was not before.
LEMMA UnseenNext ==
    ASSUME NEW w \in Endpoints, Unseen(w),
           \A c \in ClientIds : relay'.latestSnapshotsByClientId[c] # None =>
              \/ relay'.latestSnapshotsByClientId[c] = relay.latestSnapshotsByClientId[c]
              \/ ~ From(relay'.latestSnapshotsByClientId[c], w),
           \A v \in Endpoints, c \in ClientIds : Shows(rosters'[v][c], w) =>
              \/ Shows(rosters[v][c], w)
              \/ \E i \in DOMAIN toViewer[v] : From(toViewer[v][i], w),
           \A o \in result'.outputs : o \in result.outputs \/ ~ From(o.packet, w),
           \A v \in Endpoints : \A i \in DOMAIN toViewer'[v] :
              \/ \E k \in DOMAIN toViewer[v] : toViewer'[v][i] = toViewer[v][k]
              \/ \E o \in result.outputs : toViewer'[v][i] = o.packet
    PROVE  Unseen(w)'
<1>1. \A x : (From(x, w)' <=> From(x, w)) /\ (Shows(x, w)' <=> Shows(x, w))
  BY DEF From, Shows, SnapshotPoses
<1> USE DEF Unseen
<1>2. \A c \in ClientIds : relay'.latestSnapshotsByClientId[c] # None =>
         ~ From(relay'.latestSnapshotsByClientId[c], w)
  OBVIOUS
<1>3. \A v \in Endpoints, c \in ClientIds : ~ Shows(rosters'[v][c], w)
  OBVIOUS
<1>4. \A o \in result'.outputs : ~ From(o.packet, w)
  OBVIOUS
<1>5. \A v \in Endpoints : \A i \in DOMAIN toViewer'[v] : ~ From(toViewer'[v][i], w)
  OBVIOUS
<1> QED BY <1>2, <1>3, <1>4, <1>5 DEF From, Shows, SnapshotPoses

\* Ticks are numbers.
LEMMA TicksAreNumbers ==
    /\ \A p \in ActorSnapshots : p.tick \in Int
    /\ \A pose \in SnapshotPoses : pose.tick \in Int
<1>1. \A t \in Sequences : t \in Int
  BY SequencesAssumption
<1>2. ASSUME NEW p \in ActorSnapshots PROVE p.tick \in Int
  <2>1. p.tick \in Sequences
    BY DEF ActorSnapshots
  <2> QED BY <1>1, <2>1
<1>3. ASSUME NEW pose \in SnapshotPoses PROVE pose.tick \in Int
  <2>1. pose.tick \in Sequences
    BY DEF SnapshotPoses
  <2> QED BY <1>1, <2>1
<1> QED BY <1>2, <1>3

\* v still follows w where its queue and roster are what they were, and the relay's
\* snapshot of w is no older.
LEMMA FollowsKept ==
    ASSUME Sound, NEW v \in Endpoints, NEW w \in Endpoints, Follows(v, w), IdOf' = IdOf,
           IdOf[w] \in ClientIds,
           toViewer'[v] = toViewer[v], rosters'[v][IdOf[w]] = rosters[v][IdOf[w]],
           Latest(w) # None =>
              /\ relay'.latestSnapshotsByClientId[IdOf[w]] # None
              /\ Latest(w).tick \in Int
              /\ relay'.latestSnapshotsByClientId[IdOf[w]].tick \in Int
              /\ relay'.latestSnapshotsByClientId[IdOf[w]].tick >= Latest(w).tick
    PROVE  Follows(v, w)'
<1> DEFINE q == toViewer[v]
           shown == rosters[v][IdOf[w]]
           L == Latest(w)
           M == relay'.latestSnapshotsByClientId[IdOf[w]]
<1>1. /\ \A i \in DOMAIN q : From(q[i], w) => q[i].tick \in Int
      /\ Shows(shown, w) => shown.tick \in Int
  <2>1. \A i \in DOMAIN q : q[i] \in SentByRelay
    <3>1. q \in Seq(SentByRelay)
      BY DEF Sound
    <3> QED BY <3>1, LenProperties, ElementOfSeq
  <2>2. \A i \in DOMAIN q : From(q[i], w) => q[i].tick \in Int
    <3> SUFFICES ASSUME NEW i \in DOMAIN q, From(q[i], w) PROVE q[i].tick \in Int
      OBVIOUS
    <3>1. q[i] \in ActorSnapshots
      BY <2>1, SentByRelayFields DEF From
    <3> QED BY <3>1, TicksAreNumbers
  <2>3. Shows(shown, w) => shown.tick \in Int
    BY TicksAreNumbers DEF Shows
  <2> QED BY <2>2, <2>3
<1>2. /\ \A i \in DOMAIN q : From(q[i], w) /\ q[i].clientId = IdOf[w] =>
            /\ L # None /\ q[i].tick <= L.tick
            /\ \A j \in DOMAIN q : j > i => Continues(q[j], w, q[i].tick)
      /\ Shows(shown, w) => /\ L # None /\ shown.tick <= L.tick
                            /\ \A j \in DOMAIN q : Continues(q[j], w, shown.tick)
  BY DEF Follows
<1> HIDE DEF q, shown, L, M
<1>3. L # None => M # None /\ L.tick \in Int /\ M.tick \in Int /\ M.tick >= L.tick
  BY DEF L, M
<1>4. /\ \A i \in DOMAIN q : From(q[i], w) /\ q[i].clientId = IdOf[w] =>
            /\ M # None /\ q[i].tick <= M.tick
            /\ \A j \in DOMAIN q : j > i => Continues(q[j], w, q[i].tick)
      /\ Shows(shown, w) => /\ M # None /\ shown.tick <= M.tick
                            /\ \A j \in DOMAIN q : Continues(q[j], w, shown.tick)
  BY <1>1, <1>2, <1>3
<1>5. Latest(w)' = M
  BY DEF Latest, M
<1>6. \A p, t : Continues(p, w, t)' = Continues(p, w, t)
  BY DEF Continues, Dismisses, From
<1> QED BY <1>4, <1>5, <1>6 DEF Follows, Continues, Dismisses, From, Shows, SnapshotPoses,
           q, shown

\* The same for the snapshots on their way to the server, and for what it sends.
LEMMA AscendsKept ==
    ASSUME NEW w \in Endpoints, Ascends(w), IdOf' = IdOf,
           toServer'[w] = toServer[w], viewers'[w].tick = viewers[w].tick,
           IdOf[w] # None /\ relay'.clientIdByEndpoint[w] = IdOf[w] =>
              /\ HasSession(w)
              /\ relay'.latestSnapshotsByClientId[IdOf[w]]
                    = relay.latestSnapshotsByClientId[IdOf[w]]
    PROVE  Ascends(w)'
BY DEF Ascends, HasSession, Latest, From

LEMMA RelaysKept ==
    ASSUME NEW w \in Endpoints, Relays(w), IdOf' = IdOf,
           result'.outputs \subseteq result.outputs,
           relay'.latestSnapshotsByClientId[IdOf[w]]
              = relay.latestSnapshotsByClientId[IdOf[w]]
    PROVE  Relays(w)'
BY DEF Relays, Latest, From, Dismisses

\* Sessions are of client ids, and the snapshot the relay has of one is numbered.
LEMMA SessionLatest ==
    ASSUME Sound, NEW w \in Endpoints, HasSession(w)
    PROVE  /\ IdOf[w] \in ClientIds
           /\ Latest(w) # None => Latest(w) \in ActorSnapshots /\ Latest(w).tick \in Int
                                  /\ Latest(w).clientId = IdOf[w]
<1>1. IdOf[w] \in ClientIds
  BY SettingFields DEF Sound, HasSession
<1>2. Consistent(relay)
  BY DEF Sound
<1> QED BY <1>1, <1>2, TicksAreNumbers DEF Consistent, RelayMaps, Latest

LEMMA FollowedStart ==
    ASSUME Sound, InOrder, AllFollowed, NEW v \in Endpoints, Start(v) PROVE AllFollowed'
<1> DEFINE p == [kind |-> "connect", clientId |-> IdOf[v], sequence |-> 1]
<1>1. /\ viewers[v].state = "new" /\ IdOf[v] # None
      /\ viewers' = [viewers EXCEPT ![v].state = "running"]
      /\ rosters' = [rosters EXCEPT ![v] = [NoActors EXCEPT ![IdOf[v]] = SpawnPose]]
      /\ SendToServer(v, p)
      /\ UNCHANGED <<setting, relay, result, server, toViewer>>
  BY DEF Start
<1>2. IdOf[v] \in ClientIds /\ p \in SentBy(v) /\ p.kind = "connect"
  <2>1. IdOf[v] \in ClientIds
    BY <1>1, SettingFields DEF Sound
  <2>2. p \in ConnectPackets
    BY <2>1, FirstSequencesAssumption DEF ConnectPackets, WireIds
  <2> QED BY <2>1, <2>2 DEF SentBy
<1>3. /\ viewers'[v].state = "running" /\ viewers'[v].tick = viewers[v].tick
      /\ \A w \in Endpoints : w # v => viewers'[w] = viewers[w] /\ rosters'[w] = rosters[w]
  BY <1>1, ViewerMoves DEF Sound
<1>4. toServer[v] = <<>> /\ relay.clientIdByEndpoint[v] = None
  BY <1>1 DEF Sound
<1>5. /\ rosters'[v] = [NoActors EXCEPT ![IdOf[v]] = SpawnPose]
      /\ \A c \in ClientIds : rosters'[v][c] = IF c = IdOf[v] THEN SpawnPose ELSE None
  BY <1>1, <1>2 DEF Sound, NoActors
<1> HIDE DEF p
<1>6. IdOf' = IdOf
  BY <1>1, SameIds
<1>7. /\ \A w \in Endpoints : w # v => toServer'[w] = toServer[w]
      /\ DOMAIN toServer'[v] \subseteq {1}
      /\ \A i \in DOMAIN toServer'[v] : toServer'[v][i] = p
  <2>1. /\ \A w \in Endpoints : w # v => toServer'[w] = toServer[w]
        /\ Extends(toServer'[v], toServer[v], p)
    BY <1>1, <1>2, ServerQueueInOrder
  <2>2. DOMAIN toServer[v] = {}
    <3>1. DOMAIN <<>> = {}
      OBVIOUS
    <3> QED BY <1>4, <3>1
  <2> QED BY <2>1, <2>2 DEF Extends
<1>8. \A w \in Endpoints : \A c \in ClientIds : ~ Shows(rosters'[v][c], w)
  BY <1>5, PosesAssumption DEF Shows
<1>9. ASSUME NEW w \in Endpoints, Unseen(w) PROVE Unseen(w)'
  <2>1. \A u \in Endpoints, c \in ClientIds : Shows(rosters'[u][c], w) =>
           Shows(rosters[u][c], w)
    BY <1>3, <1>8
  <2> QED BY <1>1, <1>9, <2>1, UnseenNext
<1>10. \A c \in ClientIds : relay'.latestSnapshotsByClientId[c] # None =>
                               relay'.latestSnapshotsByClientId[c].yaw # YawMax
  BY <1>1 DEF AllFollowed
<1>11. ASSUME NEW w \in Endpoints, viewers'[w].state = "new" PROVE Unseen(w)'
  BY <1>3, <1>9, <1>11 DEF AllFollowed
<1>12. ASSUME NEW w \in Endpoints, NEW i \in DOMAIN toServer'[w],
              toServer'[w][i].kind = "connect"
       PROVE  i = 1 /\ relay'.clientIdByEndpoint[w] = None /\ Unseen(w)'
  <2>1. CASE w = v
    <3>2. i = 1
      BY <1>7, <1>12, <2>1
    <3>3. Unseen(v)'
      BY <1>1, <1>9 DEF AllFollowed
    <3> QED BY <1>1, <1>4, <2>1, <3>2, <3>3
  <2>2. CASE w # v
    <3>1. i = 1 /\ relay.clientIdByEndpoint[w] = None /\ Unseen(w)
      BY <1>7, <1>12, <2>2 DEF AllFollowed
    <3> QED BY <1>1, <1>9, <3>1
  <2> QED BY <2>1, <2>2
<1>13. ASSUME NEW w \in Endpoints PROVE Ascends(w)'
  <2>1. CASE w = v
    <3>1. ~ HasSession(v)'
      BY <1>1, <1>4, <1>6 DEF HasSession
    <3>2. \A i \in DOMAIN toServer'[v] : toServer'[v][i].kind # "snapshot"
      BY <1>2, <1>7
    <3> QED BY <2>1, <3>1, <3>2 DEF Ascends
  <2>2. CASE w # v
    <3>1. Ascends(w)
      BY DEF AllFollowed
    <3> QED BY <1>1, <1>3, <1>6, <1>7, <2>2, <3>1, AscendsKept DEF HasSession
  <2> QED BY <2>1, <2>2
<1>14. \A w \in Endpoints : HasSession(w)' => HasSession(w) /\ w # v
  BY <1>1, <1>4, <1>6 DEF HasSession
<1>15. ASSUME NEW w \in Endpoints, HasSession(w)' PROVE Relays(w)'
  BY <1>1, <1>6, <1>14, <1>15, RelaysKept DEF AllFollowed
<1>16. ASSUME NEW w \in Endpoints, NEW u \in Endpoints, HasSession(w)', IdOf[u] # IdOf[w]
       PROVE  Follows(u, w)'
  <2>1. Follows(u, w) /\ HasSession(w)
    BY <1>14, <1>16 DEF AllFollowed
  <2>2. /\ IdOf[w] \in ClientIds
        /\ Latest(w) # None => Latest(w).tick \in Int /\ Latest(w).tick >= Latest(w).tick
    BY <2>1, SessionLatest
  <2>3. CASE u # v
    BY <1>1, <1>3, <1>6, <2>1, <2>2, <2>3, FollowsKept DEF Latest
  <2>4. CASE u = v
    <3>1. toViewer'[u] = <<>> /\ DOMAIN <<>> = {}
      BY <1>1, <2>4 DEF Sound, Runs
    <3>2. ~ Shows(rosters'[u][IdOf[w]], w)
      BY <1>8, <2>2, <2>4
    <3> QED BY <1>6, <3>1, <3>2 DEF Follows, Shows, SnapshotPoses
  <2> QED BY <2>3, <2>4
<1> QED BY <1>6, <1>10, <1>11, <1>12, <1>13, <1>15, <1>16 DEF AllFollowed

\* Nothing is relayed, sent or shown anew.
LEMMA UnseenKept ==
    ASSUME NEW w \in Endpoints, Unseen(w), UNCHANGED <<relay, result, rosters, toViewer>>
    PROVE  Unseen(w)'
BY UnseenNext

\* The snapshots on their way from w are numbered, and so is its count.
LEMMA ServerTicks ==
    ASSUME Sound, NEW w \in Endpoints
    PROVE  /\ viewers[w].tick \in Nat
           /\ \A i \in DOMAIN toServer[w] :
                 /\ i \in Nat /\ toServer[w][i] \in SentBy(w)
                 /\ toServer[w][i].kind = "snapshot" => /\ toServer[w][i].tick \in Int
                                                        /\ From(toServer[w][i], w)
<1>1. viewers[w] \in ViewerStates /\ setting.modulus \in Nat
  BY SettingFields DEF Sound
<1>2. toServer[w] \in Seq(SentBy(w))
  BY DEF Sound
<1>3. \A i \in DOMAIN toServer[w] : i \in Nat /\ toServer[w][i] \in SentBy(w)
  BY <1>2, LenProperties, ElementOfSeq
<1> QED BY <1>1, <1>3, SentByFields, TicksAreNumbers DEF ViewerStates, From

LEMMA FollowedPublish ==
    ASSUME Sound, InOrder, AllFollowed, NEW v \in Endpoints, Publish(v) PROVE AllFollowed'
<1> DEFINE p == [kind |-> "snapshot", clientId |-> IdOf[v],
                 tick |-> viewers[v].tick, yaw |-> Facing[v]]
           t == viewers[v].tick
<1>1. /\ Runs(v) /\ t < setting.lastTick /\ SendToServer(v, p)
      /\ viewers' = [viewers EXCEPT ![v].tick = (t + 1) % setting.modulus]
      /\ UNCHANGED <<setting, relay, result, server, rosters, toViewer>>
  BY DEF Publish
<1>2. p \in SentBy(v) /\ p.kind = "snapshot" /\ p.tick = t /\ From(p, v)
  BY PublishedPacket DEF From
<1>3. t \in Nat /\ setting.lastTick \in Nat /\ setting.modulus \in Nat
      /\ setting.lastTick < setting.modulus
  BY ServerTicks, SettingFields DEF Sound, InOrder
<1>4. /\ viewers'[v].state = "running" /\ viewers'[v].tick = t + 1
      /\ \A w \in Endpoints : w # v => viewers'[w] = viewers[w]
  <2>1. (t + 1) % setting.modulus = t + 1
    <3> DEFINE m == setting.modulus
               l == setting.lastTick
    <3>1. t \in Nat /\ l \in Nat /\ m \in Nat /\ l < m /\ t < l
      BY <1>1, <1>3
    <3> HIDE DEF m, l, t
    <3>2. (t + 1) % m = t + 1
      BY <3>1
    <3> QED BY <3>2 DEF m
  <2>2. viewers \in [Endpoints -> ViewerStates] /\ viewers[v].state = "running"
    BY <1>1 DEF Sound, Runs
  <2> HIDE DEF t
  <2> QED BY <1>1, <2>1, <2>2 DEF ViewerStates
<1> HIDE DEF p, t
<1>5. IdOf' = IdOf
  BY <1>1, SameIds
<1>6. /\ \A w \in Endpoints : w # v => toServer'[w] = toServer[w]
      /\ Extends(toServer'[v], toServer[v], p)
  BY <1>1, <1>2, ServerQueueInOrder
<1>7. \A w \in Endpoints : Unseen(w) => Unseen(w)'
  BY <1>1, UnseenKept
<1>8. \A c \in ClientIds : relay'.latestSnapshotsByClientId[c] # None =>
                              relay'.latestSnapshotsByClientId[c].yaw # YawMax
  BY <1>1 DEF AllFollowed
<1>9. ASSUME NEW w \in Endpoints, viewers'[w].state = "new" PROVE Unseen(w)'
  BY <1>4, <1>7, <1>9 DEF AllFollowed
<1>10. ASSUME NEW w \in Endpoints, NEW i \in DOMAIN toServer'[w],
              toServer'[w][i].kind = "connect"
       PROVE  i = 1 /\ relay'.clientIdByEndpoint[w] = None /\ Unseen(w)'
  <2>1. i \in DOMAIN toServer[w] /\ toServer[w][i].kind = "connect"
    BY <1>2, <1>6, <1>10 DEF Extends
  <2>2. i = 1 /\ relay.clientIdByEndpoint[w] = None /\ Unseen(w)
    BY <2>1 DEF AllFollowed
  <2> QED BY <1>1, <1>7, <2>2
<1>11. ASSUME NEW w \in Endpoints PROVE Ascends(w)'
  <2>1. CASE w = v
    <3> DEFINE q == toServer[v]
               r == toServer'[v]
               L == relay.latestSnapshotsByClientId[IdOf[v]]
    <3>1. /\ \A i \in DOMAIN q : i \in Nat /\ (q[i].kind = "snapshot" => q[i].tick \in Int)
          /\ HasSession(v) /\ L # None => L.tick \in Int
      BY ServerTicks, SessionLatest DEF Latest
    <3>2. /\ \A i \in DOMAIN q : q[i].kind = "snapshot" =>
                /\ q[i].tick <= t
                /\ \A j \in DOMAIN q : j > i /\ q[j].kind = "snapshot" =>
                      q[i].tick <= q[j].tick
          /\ HasSession(v) /\ L # None =>
                /\ From(L, v) /\ L.tick <= t
                /\ \A i \in DOMAIN q : q[i].kind = "snapshot" => L.tick <= q[i].tick
      BY DEF AllFollowed, Ascends, Latest, t
    <3>3. /\ \A i \in DOMAIN r : \/ i \in DOMAIN q /\ r[i] = q[i]
                                 \/ r[i] = p /\ \A j \in DOMAIN r : ~ (j > i)
      BY <1>6 DEF Extends
    <3> HIDE DEF q, r, L
    <3>4. ASSUME NEW i \in DOMAIN r, r[i].kind = "snapshot"
          PROVE  /\ r[i].tick <= t + 1
                 /\ HasSession(v) /\ L # None => L.tick <= r[i].tick
      <4>1. CASE i \in DOMAIN q /\ r[i] = q[i]
        BY <1>3, <3>1, <3>2, <3>4, <4>1
      <4>2. CASE r[i] = p
        BY <1>2, <1>3, <3>1, <3>2, <4>2
      <4> QED BY <3>3, <4>1, <4>2
    <3>5. ASSUME NEW i \in DOMAIN r, NEW j \in DOMAIN r, j > i,
                 r[i].kind = "snapshot", r[j].kind = "snapshot"
          PROVE  r[i].tick <= r[j].tick
      <4>1. i \in DOMAIN q /\ r[i] = q[i]
        BY <3>3, <3>5
      <4>2. CASE j \in DOMAIN q /\ r[j] = q[j]
        BY <3>2, <3>5, <4>1, <4>2
      <4>3. CASE r[j] = p
        BY <1>2, <3>2, <3>5, <4>1, <4>3
      <4> QED BY <3>3, <4>2, <4>3
    <3>6. HasSession(v) /\ L # None => From(L, v) /\ L.tick <= t + 1
      BY <1>3, <3>1, <3>2
    <3>7. Latest(v)' = L /\ (HasSession(v)' <=> HasSession(v))
      BY <1>1, <1>5 DEF Latest, HasSession, L
    <3> QED BY <1>4, <2>1, <3>4, <3>5, <3>6, <3>7 DEF Ascends, From, r
  <2>2. CASE w # v
    <3>1. Ascends(w)
      BY DEF AllFollowed
    <3> QED BY <1>1, <1>4, <1>5, <1>6, <2>2, <3>1, AscendsKept DEF HasSession
  <2> QED BY <2>1, <2>2
<1>12. \A w \in Endpoints : HasSession(w)' <=> HasSession(w)
  BY <1>1, <1>5 DEF HasSession
<1>13. ASSUME NEW w \in Endpoints, HasSession(w)' PROVE Relays(w)'
  BY <1>1, <1>5, <1>12, <1>13, RelaysKept DEF AllFollowed
<1>14. ASSUME NEW w \in Endpoints, NEW u \in Endpoints, HasSession(w)', IdOf[u] # IdOf[w]
       PROVE  Follows(u, w)'
  <2>1. Follows(u, w) /\ HasSession(w)
    BY <1>12, <1>14 DEF AllFollowed
  <2>2. /\ IdOf[w] \in ClientIds
        /\ Latest(w) # None => Latest(w).tick \in Int /\ Latest(w).tick >= Latest(w).tick
    BY <2>1, SessionLatest
  <2> QED BY <1>1, <1>5, <2>1, <2>2, FollowsKept DEF Latest
<1> QED BY <1>5, <1>8, <1>9, <1>10, <1>11, <1>13, <1>14 DEF AllFollowed

LEMMA FollowedEnd ==
    ASSUME Sound, InOrder, AllFollowed, NEW v \in Endpoints, Close(v) \/ Crash(v)
    PROVE  AllFollowed'
<1> DEFINE p == [kind |-> "disconnect", clientId |-> IdOf[v], sequence |-> 2]
<1>1. /\ Runs(v) /\ UNCHANGED <<setting, relay, result, server, rosters>>
      /\ viewers'[v].state \in {"closed", "crashed"}
      /\ viewers'[v].tick = viewers[v].tick
      /\ \A w \in Endpoints : w # v => viewers'[w] = viewers[w]
      /\ toViewer' = [toViewer EXCEPT ![v] = <<>>]
      /\ p \in SentBy(v)
      /\ SendToServer(v, p) \/ UNCHANGED toServer
  BY EndEffect
<1>2. p.kind = "disconnect"
  OBVIOUS
<1> HIDE DEF p
<1>3. /\ DOMAIN toViewer'[v] = {}
      /\ \A w \in Endpoints : w # v => toViewer'[w] = toViewer[w]
  <2>1. DOMAIN <<>> = {}
    OBVIOUS
  <2> QED BY <1>1, <2>1 DEF Sound
<1>4. IdOf' = IdOf
  BY <1>1, SameIds
<1>5. /\ \A w \in Endpoints : w # v => toServer'[w] = toServer[w]
      /\ Extends(toServer'[v], toServer[v], p)
  <2>1. CASE SendToServer(v, p)
    BY <1>1, <2>1, ServerQueueInOrder
  <2>2. CASE UNCHANGED toServer
    BY <2>2 DEF Extends
  <2> QED BY <1>1, <2>1, <2>2
<1>6. ASSUME NEW w \in Endpoints, Unseen(w) PROVE Unseen(w)'
  <2>1. \A u \in Endpoints : \A i \in DOMAIN toViewer'[u] :
           \E k \in DOMAIN toViewer[u] : toViewer'[u][i] = toViewer[u][k]
    BY <1>3
  <2> QED BY <1>1, <1>6, <2>1, UnseenNext
<1>7. \A c \in ClientIds : relay'.latestSnapshotsByClientId[c] # None =>
                              relay'.latestSnapshotsByClientId[c].yaw # YawMax
  BY <1>1 DEF AllFollowed
<1>8. ASSUME NEW w \in Endpoints, viewers'[w].state = "new" PROVE Unseen(w)'
  BY <1>1, <1>6, <1>8 DEF AllFollowed
<1>9. ASSUME NEW w \in Endpoints, NEW i \in DOMAIN toServer'[w],
             toServer'[w][i].kind = "connect"
      PROVE  i = 1 /\ relay'.clientIdByEndpoint[w] = None /\ Unseen(w)'
  <2>1. i \in DOMAIN toServer[w] /\ toServer[w][i].kind = "connect"
    BY <1>2, <1>5, <1>9 DEF Extends
  <2>2. i = 1 /\ relay.clientIdByEndpoint[w] = None /\ Unseen(w)
    BY <2>1 DEF AllFollowed
  <2> QED BY <1>1, <1>6, <2>2
<1>10. ASSUME NEW w \in Endpoints PROVE Ascends(w)'
  <2>1. Ascends(w)
    BY DEF AllFollowed
  <2>2. CASE w = v
    <3> DEFINE q == toServer[v]
               r == toServer'[v]
    <3>1. \A i \in DOMAIN r : \/ i \in DOMAIN q /\ r[i] = q[i]
                              \/ r[i] = p
      BY <1>5 DEF Extends
    <3> HIDE DEF q, r
    <3>2. \A i \in DOMAIN r : r[i].kind = "snapshot" => i \in DOMAIN q /\ r[i] = q[i]
      BY <1>2, <3>1
    <3>3. Latest(v)' = Latest(v) /\ (HasSession(v)' <=> HasSession(v))
      BY <1>1, <1>4 DEF Latest, HasSession
    <3> QED BY <1>1, <2>1, <2>2, <3>2, <3>3 DEF Ascends, From, q, r
  <2>3. CASE w # v
    BY <1>1, <1>4, <1>5, <2>1, <2>3, AscendsKept DEF HasSession
  <2> QED BY <2>2, <2>3
<1>11. \A w \in Endpoints : HasSession(w)' <=> HasSession(w)
  BY <1>1, <1>4 DEF HasSession
<1>12. ASSUME NEW w \in Endpoints, HasSession(w)' PROVE Relays(w)'
  BY <1>1, <1>4, <1>11, <1>12, RelaysKept DEF AllFollowed
<1>13. ASSUME NEW w \in Endpoints, NEW u \in Endpoints, HasSession(w)', IdOf[u] # IdOf[w]
       PROVE  Follows(u, w)'
  <2>1. Follows(u, w) /\ HasSession(w)
    BY <1>11, <1>13 DEF AllFollowed
  <2>2. /\ IdOf[w] \in ClientIds
        /\ Latest(w) # None => Latest(w).tick \in Int /\ Latest(w).tick >= Latest(w).tick
    BY <2>1, SessionLatest
  <2>3. CASE u # v
    BY <1>1, <1>3, <1>4, <2>1, <2>2, <2>3, FollowsKept DEF Latest
  <2>4. CASE u = v
    BY <1>1, <1>3, <1>4, <2>1, <2>4 DEF Follows, Shows, SnapshotPoses, Latest
  <2> QED BY <2>3, <2>4
<1> QED BY <1>4, <1>7, <1>8, <1>9, <1>10, <1>12, <1>13 DEF AllFollowed

\* Where a pose of w comes from that a batch brings or leaves.
LEMMA PumpShows ==
    ASSUME NEW w, NEW q, NEW n, NEW c, NEW pose, NEW next, PumpsTo(q, n, c, pose, next),
           Shows(next, w)
    PROVE  \/ \E m \in FirstSnapshots(q, n, c) :
                 /\ From(q[m], w) /\ next.tick = q[m].tick
                 /\ \A i \in FirstSnapshots(q, n, c) : i <= m
           \/ Shows(pose, w) /\ next = pose
<1>1. CASE FirstSnapshots(q, n, c) # {}
  <2>1. PICK m \in FirstSnapshots(q, n, c) :
           /\ \A i \in FirstSnapshots(q, n, c) : i <= m
           /\ next = [tick |-> q[m].tick, yaw |-> q[m].yaw]
    BY <1>1 DEF PumpsTo
  <2>2. q[m].kind = "snapshot"
    BY DEF FirstSnapshots
  <2>3. next.tick = q[m].tick /\ next.yaw = q[m].yaw
    BY <2>1
  <2> QED BY <2>1, <2>2, <2>3 DEF From, Shows
<1>2. CASE FirstSnapshots(q, n, c) = {}
  <2>1. next \in {None, SpawnPose, pose}
    BY <1>2 DEF PumpsTo
  <2> QED BY <2>1, PosesAssumption DEF Shows
<1> QED BY <1>1, <1>2

LEMMA FollowedPump ==
    ASSUME Sound, InOrder, AllFollowed, NEW v \in Endpoints,
           NEW n \in 1..Len(toViewer[v]), Pump(v, n)
    PROVE  AllFollowed'
<1> DEFINE q == toViewer[v]
           r == toViewer'[v]
<1>1. /\ UNCHANGED <<setting, relay, result, server, viewers, toServer>>
      /\ \A w \in Endpoints : w # v => toViewer'[w] = toViewer[w] /\ rosters'[w] = rosters[w]
      /\ Len(r) = Len(q) - n
      /\ \A i \in 1..Len(r) : r[i] = q[n + i]
      /\ \A c \in ClientIds :
            IF c = IdOf[v] THEN rosters'[v][c] = rosters[v][c]
            ELSE PumpsTo(q, n, c, rosters[v][c], rosters'[v][c])
  BY PumpEffect
<1>2. /\ DOMAIN q = 1..Len(q) /\ DOMAIN r = 1..Len(r) /\ Len(q) \in Nat /\ Len(r) \in Nat
      /\ n \in 1..Len(q) /\ n \in Nat
      /\ \A i \in DOMAIN q : q[i] \in SentByRelay
  <2>1. q \in Seq(SentByRelay)
    BY DEF Sound
  <2>2. r \in Seq(SentByRelay)
    BY PumpEffect
  <2>3. DOMAIN q = 1..Len(q) /\ DOMAIN r = 1..Len(r) /\ Len(q) \in Nat /\ Len(r) \in Nat
    BY <2>1, <2>2, LenProperties
  <2>4. \A i \in DOMAIN q : q[i] \in SentByRelay
    BY <2>1, <2>3, ElementOfSeq
  <2> QED BY <2>3, <2>4
<1> HIDE DEF q, r
<1>3. IdOf' = IdOf
  BY <1>1, SameIds
<1>4. ASSUME NEW i \in DOMAIN r PROVE n + i \in DOMAIN q /\ r[i] = q[n + i] /\ i \in Nat
  BY <1>1, <1>2, <1>4
<1>5. ASSUME NEW w \in Endpoints, Unseen(w) PROVE Unseen(w)'
  <2>1. ASSUME NEW u \in Endpoints, NEW c \in ClientIds, Shows(rosters'[u][c], w)
        PROVE  \/ Shows(rosters[u][c], w)
               \/ \E i \in DOMAIN toViewer[u] : From(toViewer[u][i], w)
    <3>1. CASE u = v /\ c # IdOf[v]
      <4>1. PumpsTo(q, n, c, rosters[v][c], rosters'[v][c])
        BY <1>1, <3>1
      <4>2. \/ \E m \in FirstSnapshots(q, n, c) : From(q[m], w)
            \/ Shows(rosters[v][c], w)
        BY <2>1, <3>1, <4>1, PumpShows
      <4>3. \A m \in FirstSnapshots(q, n, c) : m \in DOMAIN q
        BY <1>2 DEF FirstSnapshots
      <4> QED BY <3>1, <4>2, <4>3 DEF q
    <3>2. CASE ~ (u = v /\ c # IdOf[v])
      BY <1>1, <2>1, <3>2
    <3> QED BY <3>1, <3>2
  <2>2. \A u \in Endpoints : \A i \in DOMAIN toViewer'[u] :
           \E k \in DOMAIN toViewer[u] : toViewer'[u][i] = toViewer[u][k]
    BY <1>1, <1>4 DEF q, r
  <2> QED BY <1>1, <1>5, <2>1, <2>2, UnseenNext
<1>6. \A c \in ClientIds : relay'.latestSnapshotsByClientId[c] # None =>
                              relay'.latestSnapshotsByClientId[c].yaw # YawMax
  BY <1>1 DEF AllFollowed
<1>7. \A w \in Endpoints : viewers'[w].state = "new" => Unseen(w)'
  BY <1>1, <1>5 DEF AllFollowed
<1>8. \A w \in Endpoints : \A i \in DOMAIN toServer'[w] :
         toServer'[w][i].kind = "connect" =>
            i = 1 /\ relay'.clientIdByEndpoint[w] = None /\ Unseen(w)'
  BY <1>1, <1>5 DEF AllFollowed
<1>9. ASSUME NEW w \in Endpoints PROVE Ascends(w)'
  BY <1>1, <1>3, AscendsKept DEF AllFollowed, HasSession
<1>10. \A w \in Endpoints : HasSession(w)' <=> HasSession(w)
  BY <1>1, <1>3 DEF HasSession
<1>11. ASSUME NEW w \in Endpoints, HasSession(w)' PROVE Relays(w)'
  BY <1>1, <1>3, <1>10, <1>11, RelaysKept DEF AllFollowed
<1>12. ASSUME NEW w \in Endpoints, NEW u \in Endpoints, HasSession(w)', IdOf[u] # IdOf[w]
       PROVE  Follows(u, w)'
  <2>1. Follows(u, w) /\ HasSession(w)
    BY <1>10, <1>12 DEF AllFollowed
  <2>2. /\ IdOf[w] \in ClientIds
        /\ Latest(w) # None => Latest(w).tick \in Int /\ Latest(w).tick >= Latest(w).tick
    BY <2>1, SessionLatest
  <2>3. CASE u # v
    BY <1>1, <1>3, <2>1, <2>2, <2>3, FollowsKept DEF Latest
  <2>4. CASE u = v
    <3> DEFINE c == IdOf[w]
               L == Latest(w)
               pose == rosters[v][c]
               next == rosters'[v][c]
    <3>1. /\ \A i \in DOMAIN q : From(q[i], w) /\ q[i].clientId = c =>
                /\ L # None /\ q[i].tick <= L.tick
                /\ \A j \in DOMAIN q : j > i => Continues(q[j], w, q[i].tick)
          /\ Shows(pose, w) => /\ L # None /\ pose.tick <= L.tick
                               /\ \A j \in DOMAIN q : Continues(q[j], w, pose.tick)
      BY <2>1, <2>4 DEF Follows, q
    <3>2. PumpsTo(q, n, c, pose, next)
      BY <1>1, <1>12, <2>2, <2>4
    <3> HIDE DEF c, L, pose, next
    <3>3. ASSUME NEW i \in DOMAIN r, From(r[i], w), r[i].clientId = c
          PROVE  /\ L # None /\ r[i].tick <= L.tick
                 /\ \A j \in DOMAIN r : j > i => Continues(r[j], w, r[i].tick)
      <4>1. From(q[n + i], w) /\ q[n + i].clientId = c /\ n + i \in DOMAIN q /\ i \in Nat
        BY <1>4, <3>3
      <4>2. \A j \in DOMAIN r : j > i => n + j > n + i
        BY <1>2, <1>4, <4>1
      <4> QED BY <1>4, <3>1, <4>1, <4>2
    <3>4. ASSUME Shows(next, w)
          PROVE  /\ L # None /\ next.tick <= L.tick
                 /\ \A j \in DOMAIN r : Continues(r[j], w, next.tick)
      <4>1. ASSUME NEW m \in FirstSnapshots(q, n, c), From(q[m], w), next.tick = q[m].tick
            PROVE  /\ L # None /\ next.tick <= L.tick
                   /\ \A j \in DOMAIN r : Continues(r[j], w, next.tick)
        <5>1. m \in DOMAIN q /\ q[m].clientId = c /\ m <= n /\ m \in Nat
          BY <1>2 DEF FirstSnapshots
        <5>2. \A j \in DOMAIN r : n + j > m
          BY <1>2, <1>4, <5>1
        <5> QED BY <1>4, <3>1, <4>1, <5>1, <5>2
      <4>2. CASE Shows(pose, w) /\ next = pose
        BY <1>4, <3>1, <4>2
      <4>3. \/ \E m \in FirstSnapshots(q, n, c) : From(q[m], w) /\ next.tick = q[m].tick
            \/ Shows(pose, w) /\ next = pose
        BY <3>2, <3>4, PumpShows
      <4> QED BY <4>1, <4>2, <4>3
    <3>5. Latest(w)' = L /\ \A x, t : Continues(x, w, t)' = Continues(x, w, t)
      BY <1>1, <1>3 DEF Latest, L, Continues, Dismisses, From
    <3> QED BY <1>3, <2>4, <3>3, <3>4, <3>5 DEF Follows, From, Shows, SnapshotPoses, c,
               next, r
  <2> QED BY <2>3, <2>4
<1> QED BY <1>3, <1>6, <1>7, <1>8, <1>9, <1>11, <1>12 DEF AllFollowed

\* The snapshots on their way to a viewer, and the poses it shows, are numbered.
LEMMA ViewerTicks ==
    ASSUME Sound, NEW v \in Endpoints, NEW w \in Endpoints
    PROVE  /\ \A i \in DOMAIN toViewer[v] : From(toViewer[v][i], w) =>
                                               toViewer[v][i].tick \in Int
           /\ \A c : Shows(rosters[v][c], w) => rosters[v][c].tick \in Int
<1>1. toViewer[v] \in Seq(SentByRelay)
  BY DEF Sound
<1>2. \A i \in DOMAIN toViewer[v] : toViewer[v][i] \in SentByRelay
  BY <1>1, LenProperties, ElementOfSeq
<1>3. \A i \in DOMAIN toViewer[v] : From(toViewer[v][i], w) => toViewer[v][i].tick \in Int
  BY <1>2, SentByRelayFields, TicksAreNumbers DEF From
<1>4. \A c : Shows(rosters[v][c], w) => rosters[v][c].tick \in Int
  BY TicksAreNumbers DEF Shows
<1> QED BY <1>3, <1>4

LEMMA FollowedSends ==
    ASSUME Sound, InOrder, AllFollowed, NEW output \in result.outputs, ServerSends(output)
    PROVE  AllFollowed'
<1> DEFINE p == output.packet
           to == output.to
<1>1. /\ SendToViewer(to, p)
      /\ result' = [result EXCEPT !.outputs = result.outputs \ {output}]
      /\ UNCHANGED <<setting, relay, server, viewers, rosters, toServer>>
  BY DEF ServerSends
<1>2. /\ to \in Endpoints /\ p \in SentByRelay
      /\ result'.outputs \subseteq result.outputs
  BY <1>1 DEF Sound, ResultTyped, RelayOutputs
<1>3. \E o \in result.outputs : p = o.packet
  OBVIOUS
<1> HIDE DEF p, to
<1>4. /\ \A w \in Endpoints : w # to => toViewer'[w] = toViewer[w]
      /\ Extends(toViewer'[to], toViewer[to], p)
  BY <1>1, <1>2, ViewerQueueInOrder
<1>5. IdOf' = IdOf
  BY <1>1, SameIds
<1>6. ASSUME NEW w \in Endpoints, Unseen(w) PROVE Unseen(w)'
  <2>1. \A u \in Endpoints : \A i \in DOMAIN toViewer'[u] :
           \/ \E k \in DOMAIN toViewer[u] : toViewer'[u][i] = toViewer[u][k]
           \/ \E o \in result.outputs : toViewer'[u][i] = o.packet
    BY <1>2, <1>3, <1>4 DEF Extends
  <2> QED BY <1>1, <1>2, <1>6, <2>1, UnseenNext
<1>7. \A c \in ClientIds : relay'.latestSnapshotsByClientId[c] # None =>
                              relay'.latestSnapshotsByClientId[c].yaw # YawMax
  BY <1>1 DEF AllFollowed
<1>8. \A w \in Endpoints : viewers'[w].state = "new" => Unseen(w)'
  BY <1>1, <1>6 DEF AllFollowed
<1>9. \A w \in Endpoints : \A i \in DOMAIN toServer'[w] :
         toServer'[w][i].kind = "connect" =>
            i = 1 /\ relay'.clientIdByEndpoint[w] = None /\ Unseen(w)'
  BY <1>1, <1>6 DEF AllFollowed
<1>10. ASSUME NEW w \in Endpoints PROVE Ascends(w)'
  BY <1>1, <1>5, AscendsKept DEF AllFollowed, HasSession
<1>11. \A w \in Endpoints : HasSession(w)' <=> HasSession(w)
  BY <1>1, <1>5 DEF HasSession
<1>12. ASSUME NEW w \in Endpoints, HasSession(w)' PROVE Relays(w)'
  BY <1>1, <1>2, <1>5, <1>11, <1>12, RelaysKept DEF AllFollowed
<1>13. ASSUME NEW w \in Endpoints, NEW u \in Endpoints, HasSession(w)', IdOf[u] # IdOf[w]
       PROVE  Follows(u, w)'
  <2>1. Follows(u, w) /\ HasSession(w) /\ Relays(w)
    BY <1>11, <1>13 DEF AllFollowed
  <2>2. /\ IdOf[w] \in ClientIds
        /\ Latest(w) # None => Latest(w).tick \in Int /\ Latest(w).tick >= Latest(w).tick
    BY <2>1, SessionLatest
  <2>3. CASE u # to
    BY <1>1, <1>4, <1>5, <2>1, <2>2, <2>3, FollowsKept DEF Latest
  <2>4. CASE u = to
    <3> DEFINE q == toViewer[to]
               r == toViewer'[to]
               c == IdOf[w]
               L == Latest(w)
               pose == rosters[to][c]
    <3>1. /\ \A i \in DOMAIN q : From(q[i], w) /\ q[i].clientId = c =>
                /\ L # None /\ q[i].tick <= L.tick
                /\ \A j \in DOMAIN q : j > i => Continues(q[j], w, q[i].tick)
          /\ Shows(pose, w) => /\ L # None /\ pose.tick <= L.tick
                               /\ \A j \in DOMAIN q : Continues(q[j], w, pose.tick)
      BY <2>1, <2>4 DEF Follows
    <3>2. /\ \A i \in DOMAIN q : From(q[i], w) => q[i].tick \in Int
          /\ Shows(pose, w) => pose.tick \in Int
      BY <1>2, ViewerTicks
    <3>3. /\ L # None => L.tick \in Int
          /\ p.clientId = c => /\ ~ Dismisses(p, c)
                               /\ p.kind = "snapshot" =>
                                     L # None /\ From(p, w) /\ p.tick = L.tick
      BY <1>3, <2>1, <2>2 DEF Relays
    <3>4. \A i \in DOMAIN r : \/ i \in DOMAIN q /\ r[i] = q[i]
                              \/ r[i] = p /\ \A j \in DOMAIN r : ~ (j > i)
      BY <1>4 DEF Extends
    <3> HIDE DEF q, r, c, L, pose
    <3>5. ASSUME NEW t \in Int, L # None, t <= L.tick PROVE Continues(p, w, t)
      BY <3>3, <3>5 DEF Continues, c
    <3>6. ASSUME NEW i \in DOMAIN r, From(r[i], w), r[i].clientId = c
          PROVE  /\ L # None /\ r[i].tick <= L.tick
                 /\ \A j \in DOMAIN r : j > i => Continues(r[j], w, r[i].tick)
      <4>1. CASE i \in DOMAIN q /\ r[i] = q[i]
        <5>1. L # None /\ r[i].tick <= L.tick /\ r[i].tick \in Int
          BY <3>1, <3>2, <3>6, <4>1
        <5>2. \A j \in DOMAIN q : j > i => Continues(q[j], w, r[i].tick)
          BY <3>1, <3>6, <4>1
        <5>3. Continues(p, w, r[i].tick)
          BY <3>5, <5>1
        <5> QED BY <3>4, <5>1, <5>2, <5>3
      <4>2. CASE r[i] = p /\ \A j \in DOMAIN r : ~ (j > i)
        <5>1. L # None /\ p.tick = L.tick /\ L.tick \in Int
          BY <3>3, <3>6, <4>2 DEF From
        <5> QED BY <4>2, <5>1
      <4> QED BY <3>4, <4>1, <4>2
    <3>7. ASSUME Shows(pose, w)
          PROVE  /\ L # None /\ pose.tick <= L.tick
                 /\ \A j \in DOMAIN r : Continues(r[j], w, pose.tick)
      <4>1. L # None /\ pose.tick <= L.tick /\ pose.tick \in Int
        BY <3>1, <3>2, <3>7
      <4>2. Continues(p, w, pose.tick)
        BY <3>5, <4>1
      <4> QED BY <3>1, <3>4, <3>7, <4>1, <4>2
    <3>8. Latest(w)' = L /\ \A x, t : Continues(x, w, t)' = Continues(x, w, t)
      BY <1>1, <1>5 DEF Latest, L, Continues, Dismisses, From
    <3> QED BY <1>1, <1>5, <2>4, <3>6, <3>7, <3>8 DEF Follows, From, Shows, SnapshotPoses,
               c, pose, r
  <2> QED BY <2>3, <2>4
<1> QED BY <1>5, <1>7, <1>8, <1>9, <1>10, <1>12, <1>13 DEF AllFollowed

LEMMA FollowedServer ==
    ASSUME Sound, AllFollowed, ServerLoops \/ ServerStops \/ ServerRestarts
    PROVE  AllFollowed'
<1>1. /\ UNCHANGED <<setting, viewers, rosters, toViewer>>
      /\ \/ relay' = relay /\ toServer' = toServer
         \/ relay' = EmptyRelay /\ toServer' = [v \in Endpoints |-> <<>>]
      /\ result' = result \/ result' = NoResult
  BY DEF ServerLoops, ServerStops, ServerRestarts
<1>2. result'.outputs \subseteq result.outputs
  BY <1>1 DEF NoResult, RelayResult
<1>3. IdOf' = IdOf
  BY <1>1, SameIds
<1>4. \/ relay' = relay /\ toServer' = toServer
      \/ /\ \A c \in ClientIds : relay'.latestSnapshotsByClientId[c] = None
         /\ \A w \in Endpoints : relay'.clientIdByEndpoint[w] = None
         /\ \A w \in Endpoints : DOMAIN toServer'[w] = {}
  <2>1. DOMAIN <<>> = {}
    OBVIOUS
  <2> QED BY <1>1, <2>1 DEF EmptyRelay
<1>5. ASSUME NEW w \in Endpoints, Unseen(w) PROVE Unseen(w)'
  BY <1>1, <1>2, <1>4, <1>5, UnseenNext
<1>6. \A c \in ClientIds : relay'.latestSnapshotsByClientId[c] # None =>
                              relay'.latestSnapshotsByClientId[c].yaw # YawMax
  BY <1>4 DEF AllFollowed
<1>7. \A w \in Endpoints : viewers'[w].state = "new" => Unseen(w)'
  BY <1>1, <1>5 DEF AllFollowed
<1>8. \A w \in Endpoints : \A i \in DOMAIN toServer'[w] :
         toServer'[w][i].kind = "connect" =>
            i = 1 /\ relay'.clientIdByEndpoint[w] = None /\ Unseen(w)'
  BY <1>4, <1>5 DEF AllFollowed
<1>9. \A w \in Endpoints : HasSession(w)' => HasSession(w) /\ relay' = relay
  BY <1>3, <1>4 DEF HasSession
<1>10. ASSUME NEW w \in Endpoints PROVE Ascends(w)'
  <2>1. CASE relay' = relay /\ toServer' = toServer
    BY <1>1, <1>3, <2>1, AscendsKept DEF AllFollowed, HasSession
  <2>2. CASE ~ HasSession(w)' /\ DOMAIN toServer'[w] = {}
    BY <2>2 DEF Ascends
  <2> QED BY <1>3, <1>4, <2>1, <2>2 DEF HasSession
<1>11. ASSUME NEW w \in Endpoints, HasSession(w)' PROVE Relays(w)'
  BY <1>2, <1>3, <1>9, <1>11, RelaysKept DEF AllFollowed
<1>12. ASSUME NEW w \in Endpoints, NEW u \in Endpoints, HasSession(w)', IdOf[u] # IdOf[w]
       PROVE  Follows(u, w)'
  <2>1. Follows(u, w) /\ HasSession(w) /\ relay' = relay
    BY <1>9, <1>12 DEF AllFollowed
  <2>2. /\ IdOf[w] \in ClientIds
        /\ Latest(w) # None => Latest(w).tick \in Int /\ Latest(w).tick >= Latest(w).tick
    BY <2>1, SessionLatest
  <2> QED BY <1>1, <1>3, <2>1, <2>2, FollowsKept DEF Latest
<1> QED BY <1>3, <1>6, <1>7, <1>8, <1>10, <1>11, <1>12 DEF AllFollowed

\* What ingesting a datagram of process v leaves of the sessions of the others, and of
\* their snapshots.
LEMMA OthersIngested ==
    ASSUME Sound, AllFollowed, NEW v \in Endpoints, NEW p \in SentBy(v),
           \/ IngestsNothing(v, p, IdOf[v]) \/ IngestsConnect(v, p, IdOf[v])
           \/ IngestsDisconnect(v, p, IdOf[v]) \/ IngestsSnapshot(v, p, IdOf[v]),
           NEW w \in Endpoints, w # v, IdOf[w] # None,
           relay'.clientIdByEndpoint[w] = IdOf[w]
    PROVE  /\ HasSession(w)
           /\ relay'.latestSnapshotsByClientId[IdOf[w]]
                = relay.latestSnapshotsByClientId[IdOf[w]]
           /\ \A o \in result'.outputs : o.packet.clientId = IdOf[w] =>
                 /\ ~ Dismisses(o.packet, IdOf[w])
                 /\ o.packet.kind = "snapshot" =>
                       Latest(w) # None /\ o.packet = Latest(w)
<1> DEFINE c == IdOf[v]
           d == IdOf[w]
<1>1. c \in ClientIds /\ c # None /\ p.clientId = c /\ Consistent(relay)
  BY SentByFields, NoneAssumption DEF Sound
<1>2. relay.clientIdByEndpoint[w] \in {None, d} /\ d # None /\ d \in ClientIds
  BY SettingFields DEF Sound
<1>3. relay.clientIdByEndpoint[v] = c => d # c \/ relay.clientIdByEndpoint[w] # d
  BY <1>1, DistinctOwners
<1> HIDE DEF c, d
<1>4. relay'.clientIdByEndpoint[w] = d
  BY DEF d
<1>5. CASE IngestsNothing(v, p, c)
  BY <1>2, <1>4, <1>5 DEF IngestsNothing, HasSession, d
<1>6. CASE IngestsConnect(v, p, c)
  <2>1. relay.clientIdByEndpoint[w] = d /\ d # c
    BY <1>1, <1>2, <1>4, <1>6 DEF IngestsConnect
  <2>2. relay'.latestSnapshotsByClientId[d] = relay.latestSnapshotsByClientId[d]
    BY <1>2, <1>6, <2>1 DEF IngestsConnect
  <2>3. ASSUME NEW o \in result'.outputs, o.packet.clientId = d
        PROVE  /\ ~ Dismisses(o.packet, d)
               /\ o.packet.kind = "snapshot" => Latest(w) # None /\ o.packet = Latest(w)
    <3>1. CASE o.packet.kind = "serverEvent" /\ o.packet.event = "clientConnected"
      BY <3>1 DEF Dismisses
    <3>2. ASSUME NEW e \in ClientIds, relay.latestSnapshotsByClientId[e] # None,
                 o.packet = Reencoded(relay.latestSnapshotsByClientId[e])
          PROVE  /\ ~ Dismisses(o.packet, d)
                 /\ Latest(w) # None /\ o.packet = Latest(w)
      <4> DEFINE s == relay.latestSnapshotsByClientId[e]
      <4>1. s \in ActorSnapshots /\ s.clientId = e /\ s.yaw # YawMax
        BY <1>1, <3>2 DEF Consistent, RelayMaps, AllFollowed
      <4>2. o.packet = s
        BY <3>2, <4>1 DEF Reencoded
      <4>3. e = d
        BY <2>3, <4>1, <4>2
      <4>4. s.kind = "snapshot"
        BY <4>1 DEF ActorSnapshots
      <4> HIDE DEF s
      <4>5. ~ Dismisses(o.packet, d)
        BY <4>2, <4>4 DEF Dismisses
      <4> QED BY <3>2, <4>2, <4>3, <4>5 DEF s, d, Latest
    <3> QED BY <1>6, <3>1, <3>2 DEF IngestsConnect
  <2> QED BY <1>2, <2>1, <2>2, <2>3 DEF HasSession, d
<1>7. CASE IngestsDisconnect(v, p, c)
  <2>1. relay.clientIdByEndpoint[w] = d /\ d # c
    BY <1>3, <1>4, <1>7 DEF IngestsDisconnect
  <2>2. relay'.latestSnapshotsByClientId[d] = relay.latestSnapshotsByClientId[d]
    BY <1>2, <1>7, <2>1 DEF IngestsDisconnect
  <2>3. \A o \in result'.outputs : o.packet.clientId # d
    BY <1>7, <2>1 DEF IngestsDisconnect
  <2> QED BY <1>2, <2>1, <2>2, <2>3 DEF HasSession, d
<1>8. CASE IngestsSnapshot(v, p, c)
  <2>1. relay.clientIdByEndpoint[w] = d /\ d # c
    BY <1>3, <1>4, <1>8 DEF IngestsSnapshot
  <2>2. relay'.latestSnapshotsByClientId[d] = relay.latestSnapshotsByClientId[d]
    BY <1>2, <1>8, <2>1 DEF IngestsSnapshot
  <2>3. \A o \in result'.outputs : o.packet.clientId # d
    BY <1>1, <1>8, <2>1 DEF IngestsSnapshot
  <2> QED BY <1>2, <2>1, <2>2, <2>3 DEF HasSession, d
<1> QED BY <1>5, <1>6, <1>7, <1>8 DEF c

\* And what it makes of its own session.
LEMMA OwnIngested ==
    ASSUME Sound, NEW v \in Endpoints, NEW p \in SentBy(v),
           \/ IngestsNothing(v, p, IdOf[v]) \/ IngestsConnect(v, p, IdOf[v])
           \/ IngestsDisconnect(v, p, IdOf[v]) \/ IngestsSnapshot(v, p, IdOf[v]),
           relay'.clientIdByEndpoint[v] = IdOf[v]
    PROVE  LET c == IdOf[v]
               M == relay'.latestSnapshotsByClientId[c]
           IN  /\ \A o \in result'.outputs : o.packet.clientId = c =>
                     /\ ~ Dismisses(o.packet, c)
                     /\ o.packet.kind = "snapshot" => o.packet = p /\ M = p /\ M # None
               /\ \/ HasSession(v) /\ M = Latest(v)
                  \/ HasSession(v) /\ p.kind = "snapshot" /\ M = p /\ M # None
                  \/ p.kind = "connect" /\ M = None
<1> DEFINE c == IdOf[v]
           M == relay'.latestSnapshotsByClientId[c]
<1>1. c \in ClientIds /\ c # None /\ p.clientId = c /\ p # None /\ Consistent(relay)
  BY SentByFields, NoneAssumption DEF Sound
<1>2. relay'.clientIdByEndpoint[v] = c
  OBVIOUS
<1> HIDE DEF c
<1>3. CASE IngestsNothing(v, p, c)
  <2>1. relay.clientIdByEndpoint[v] = c /\ M = relay.latestSnapshotsByClientId[c]
        /\ result'.outputs = {}
    BY <1>2, <1>3 DEF IngestsNothing
  <2> QED BY <1>1, <2>1 DEF HasSession, Latest, c
<1>4. CASE IngestsConnect(v, p, c)
  <2>1. p.kind = "connect" /\ M = None
    BY <1>1, <1>4 DEF IngestsConnect
  <2>2. ASSUME NEW o \in result'.outputs, o.packet.clientId = c
        PROVE  o.packet.kind = "serverEvent" /\ o.packet.event = "clientConnected"
    <3>1. ASSUME NEW d \in ClientIds \ {c}, relay.latestSnapshotsByClientId[d] # None,
                 o.packet = Reencoded(relay.latestSnapshotsByClientId[d])
          PROVE  FALSE
      <4>1. /\ relay.latestSnapshotsByClientId[d] \in ActorSnapshots
            /\ relay.latestSnapshotsByClientId[d].clientId = d
        BY <1>1, <3>1 DEF Consistent, RelayMaps
      <4>2. o.packet.clientId = d
        BY <3>1, <4>1 DEF Reencoded, ActorSnapshots
      <4> QED BY <2>2, <4>2
    <3> QED BY <1>4, <3>1 DEF IngestsConnect
  <2> QED BY <2>1, <2>2 DEF Dismisses, c
<1>5. CASE IngestsDisconnect(v, p, c)
  BY <1>1, <1>2, <1>5 DEF IngestsDisconnect
<1>6. CASE IngestsSnapshot(v, p, c)
  <2>1. p.kind = "snapshot" /\ M = p /\ relay.clientIdByEndpoint[v] = c
        /\ \A o \in result'.outputs : o.packet = p
    BY <1>1, <1>6 DEF IngestsSnapshot
  <2> QED BY <1>1, <2>1 DEF HasSession, Dismisses, c
<1> QED BY <1>3, <1>4, <1>5, <1>6 DEF c

\* A snapshot that comes to be relayed is of the process it was received from.
LEMMA UnseenIngested ==
    ASSUME Sound, AllFollowed, NEW v \in Endpoints, NEW p \in SentBy(v),
           \/ IngestsNothing(v, p, IdOf[v]) \/ IngestsConnect(v, p, IdOf[v])
           \/ IngestsDisconnect(v, p, IdOf[v]) \/ IngestsSnapshot(v, p, IdOf[v]),
           UNCHANGED <<rosters, toViewer>>,
           NEW w \in Endpoints, w # v, Unseen(w)
    PROVE  Unseen(w)'
<1> DEFINE c == IdOf[v]
           old == relay.latestSnapshotsByClientId
           new == relay'.latestSnapshotsByClientId
<1>1. c \in ClientIds /\ p.clientId = c /\ (p.kind = "snapshot" => p.yaw = Facing[v])
  BY SentByFields
<1>2. ~ From(p, w)
  BY <1>1, FacingAssumption DEF From
<1>3. \A d \in ClientIds : old[d] # None => ~ From(old[d], w) /\ Reencoded(old[d]) = old[d]
  BY DEF AllFollowed, Unseen, Reencoded
<1> HIDE DEF c, old, new
<1>4. /\ \A d \in ClientIds : new[d] # None => new[d] = old[d] \/ ~ From(new[d], w)
      /\ \A o \in result'.outputs : ~ From(o.packet, w)
  <2>1. CASE IngestsNothing(v, p, c)
    BY <2>1 DEF IngestsNothing, old, new
  <2>2. CASE IngestsConnect(v, p, c)
    <3>1. \A d \in ClientIds : new[d] = IF d = c THEN None ELSE old[d]
      BY <2>2 DEF IngestsConnect, old, new
    <3>2. \A o \in result'.outputs :
             \/ o.packet.kind = "serverEvent"
             \/ \E d \in ClientIds : old[d] # None /\ o.packet = Reencoded(old[d])
      BY <2>2 DEF IngestsConnect, old
    <3>3. \A o \in result'.outputs : ~ From(o.packet, w)
      BY <1>3, <3>2 DEF From
    <3> QED BY <3>1, <3>3
  <2>3. CASE IngestsDisconnect(v, p, c)
    <3>1. \A d \in ClientIds : new[d] = IF d = c THEN None ELSE old[d]
      BY <2>3 DEF IngestsDisconnect, old, new
    <3>2. \A o \in result'.outputs : o.packet.kind = "serverEvent"
      BY <2>3 DEF IngestsDisconnect
    <3> QED BY <3>1, <3>2 DEF From
  <2>4. CASE IngestsSnapshot(v, p, c)
    <3>1. \A d \in ClientIds : new[d] = IF d = c THEN p ELSE old[d]
      BY <2>4 DEF IngestsSnapshot, old, new
    <3>2. \A o \in result'.outputs : o.packet = p
      BY <2>4 DEF IngestsSnapshot
    <3> QED BY <1>2, <3>1, <3>2
  <2> QED BY <2>1, <2>2, <2>3, <2>4 DEF c
<1> QED BY <1>4, UnseenNext DEF old, new

\* The snapshots of a process ascend as the server takes the first of its datagrams.
LEMMA AscendsIngested ==
    ASSUME Sound, NEW v \in Endpoints, Ascends(v), NEW p, p = toServer[v][1],
           toServer[v] # <<>>, UNCHANGED <<setting, viewers>>,
           DOMAIN toServer'[v] \subseteq Nat \ {0},
           \A i \in DOMAIN toServer'[v] :
              i + 1 \in DOMAIN toServer[v] /\ toServer'[v][i] = toServer[v][i + 1],
           relay'.clientIdByEndpoint[v] = IdOf[v] =>
              LET M == relay'.latestSnapshotsByClientId[IdOf[v]]
              IN  \/ HasSession(v) /\ M = Latest(v)
                  \/ HasSession(v) /\ p.kind = "snapshot" /\ M = p /\ M # None
                  \/ p.kind = "connect" /\ M = None
    PROVE  Ascends(v)'
<1> DEFINE q == toServer[v]
           r == toServer'[v]
           t == viewers[v].tick
           L == Latest(v)
           M == relay'.latestSnapshotsByClientId[IdOf[v]]
<1>1. IdOf' = IdOf /\ viewers'[v].tick = t
  BY SameIds
<1>2. 1 \in DOMAIN q /\ p = q[1]
  <2>1. q \in Seq(SentBy(v)) /\ q # <<>>
    BY DEF Sound
  <2> HIDE DEF q
  <2>2. Len(q) # 0 /\ Len(q) \in Nat /\ DOMAIN q = 1..Len(q)
    BY <2>1, EmptySeq, LenProperties
  <2> QED BY <2>2 DEF q
<1>3. /\ \A i \in DOMAIN q : q[i].kind = "snapshot" =>
            /\ q[i].tick <= t
            /\ \A j \in DOMAIN q : j > i /\ q[j].kind = "snapshot" => q[i].tick <= q[j].tick
      /\ HasSession(v) /\ L # None =>
            /\ From(L, v) /\ L.tick <= t
            /\ \A i \in DOMAIN q : q[i].kind = "snapshot" => L.tick <= q[i].tick
  BY DEF Ascends
<1>4. \A i \in DOMAIN q : q[i].kind = "snapshot" => From(q[i], v)
  BY ServerTicks
<1>5. relay'.clientIdByEndpoint[v] = IdOf[v] =>
         \/ HasSession(v) /\ M = L
         \/ p.kind = "snapshot" /\ M = p
         \/ M = None
  OBVIOUS
<1> HIDE DEF q, r, t, L, M
<1>6. \A i \in DOMAIN r : /\ i + 1 \in DOMAIN q /\ r[i] = q[i + 1] /\ i + 1 > 1
                          /\ \A j \in DOMAIN r : j > i => j + 1 > i + 1
  BY DEF q, r
<1>7. \A i \in DOMAIN r : r[i].kind = "snapshot" =>
         /\ r[i].tick <= t
         /\ \A j \in DOMAIN r : j > i /\ r[j].kind = "snapshot" => r[i].tick <= r[j].tick
  BY <1>3, <1>6
<1>8. ASSUME relay'.clientIdByEndpoint[v] = IdOf[v], M # None
      PROVE  /\ From(M, v) /\ M.tick <= t
             /\ \A i \in DOMAIN r : r[i].kind = "snapshot" => M.tick <= r[i].tick
  <2>1. CASE HasSession(v) /\ M = L
    BY <1>3, <1>6, <1>8, <2>1
  <2>2. CASE p.kind = "snapshot" /\ M = p
    BY <1>2, <1>3, <1>4, <1>6, <2>2
  <2> QED BY <1>5, <1>8, <2>1, <2>2
<1> QED BY <1>1, <1>7, <1>8 DEF Ascends, HasSession, Latest, From, M, r

LEMMA FollowedIngests ==
    ASSUME Sound, InOrder, AllFollowed, NEW v \in Endpoints, ServerIngests(v)
    PROVE  AllFollowed'
<1> DEFINE p == Head(toServer[v])
           c == IdOf[v]
<1>1. /\ p \in SentBy(v) /\ p = toServer[v][1] /\ Ingest(v, p) /\ toServer[v] # <<>>
      /\ UNCHANGED <<setting, server, viewers, rosters, toViewer>>
      /\ \A w \in Endpoints : w # v => toServer'[w] = toServer[w]
  BY Received
<1>2. /\ DOMAIN toServer'[v] \subseteq Nat \ {0}
      /\ \A i \in DOMAIN toServer'[v] :
            i + 1 \in DOMAIN toServer[v] /\ toServer'[v][i] = toServer[v][i + 1]
  <2> DEFINE q == toServer[v]
             r == toServer'[v]
  <2>1. /\ q \in Seq(SentBy(v)) /\ r \in Seq(SentBy(v)) /\ Len(r) = Len(q) - 1
        /\ \A i \in 1..Len(r) : r[i] = q[i + 1]
    BY Received DEF Sound
  <2> HIDE DEF q, r
  <2>2. DOMAIN q = 1..Len(q) /\ DOMAIN r = 1..Len(r) /\ Len(q) \in Nat /\ Len(r) \in Nat
    BY <2>1, LenProperties
  <2>3. /\ DOMAIN r \subseteq Nat \ {0}
        /\ \A i \in DOMAIN r : i + 1 \in DOMAIN q /\ r[i] = q[i + 1]
    BY <2>1, <2>2
  <2> QED BY <2>3 DEF q, r
<1>3. /\ p.clientId = c /\ c \in ClientIds /\ c # None
      /\ p.kind = "snapshot" => From(p, v) /\ p.tick \in Int /\ p.yaw # YawMax
  <2>1. /\ p.clientId = c /\ c \in ClientIds
        /\ p.kind = "snapshot" => p \in ActorSnapshots /\ p.yaw = Facing[v]
    BY <1>1, SentByFields
  <2>2. Facing[v] \in 0..(YawMax - 1) /\ YawMax \in Nat
    BY FacingAssumption, YawMaxAssumption
  <2>3. Facing[v] # YawMax
    BY <2>2
  <2> QED BY <2>1, <2>3, TicksAreNumbers, NoneAssumption DEF From
<1> HIDE DEF p
<1>4. \/ IngestsNothing(v, p, c) \/ IngestsConnect(v, p, c)
      \/ IngestsDisconnect(v, p, c) \/ IngestsSnapshot(v, p, c)
  BY <1>1, IngestCases
<1> HIDE DEF c
<1>5. IdOf' = IdOf
  BY <1>1, SameIds
<1>6. ASSUME NEW w \in Endpoints, w # v, Unseen(w) PROVE Unseen(w)'
  BY <1>1, <1>4, <1>6, UnseenIngested DEF c
<1>7. ASSUME NEW w \in Endpoints, w # v, HasSession(w)'
      PROVE  /\ HasSession(w)
             /\ relay'.latestSnapshotsByClientId[IdOf[w]]
                  = relay.latestSnapshotsByClientId[IdOf[w]]
             /\ \A o \in result'.outputs : o.packet.clientId = IdOf[w] =>
                   /\ ~ Dismisses(o.packet, IdOf[w])
                   /\ o.packet.kind = "snapshot" =>
                         Latest(w) # None /\ o.packet = Latest(w)
  <2>1. IdOf[w] # None /\ relay'.clientIdByEndpoint[w] = IdOf[w]
    BY <1>5, <1>7 DEF HasSession
  <2> QED BY <1>1, <1>4, <1>7, <2>1, OthersIngested DEF c
<1> DEFINE M == relay'.latestSnapshotsByClientId[c]
<1>8. ASSUME relay'.clientIdByEndpoint[v] = c
      PROVE  /\ \A o \in result'.outputs : o.packet.clientId = c =>
                   /\ ~ Dismisses(o.packet, c)
                   /\ o.packet.kind = "snapshot" => o.packet = p /\ M = p /\ M # None
             /\ \/ HasSession(v) /\ M = Latest(v)
                \/ HasSession(v) /\ p.kind = "snapshot" /\ M = p /\ M # None
                \/ p.kind = "connect" /\ M = None
  BY <1>1, <1>4, <1>8, OwnIngested DEF c
<1>9. ASSUME NEW d \in ClientIds, relay'.latestSnapshotsByClientId[d] # None
      PROVE  relay'.latestSnapshotsByClientId[d].yaw # YawMax
  <2>1. \/ relay'.latestSnapshotsByClientId[d] = relay.latestSnapshotsByClientId[d]
        \/ p.kind = "snapshot" /\ relay'.latestSnapshotsByClientId[d] = p
    BY <1>4, <1>9 DEF IngestsNothing, IngestsConnect, IngestsDisconnect, IngestsSnapshot
  <2> QED BY <1>3, <1>9, <2>1 DEF AllFollowed
<1>10. ASSUME NEW w \in Endpoints, viewers'[w].state = "new" PROVE Unseen(w)'
  <2>1. w # v
    BY <1>1, <1>10 DEF Sound
  <2> QED BY <1>1, <1>6, <1>10, <2>1 DEF AllFollowed
<1>11. ASSUME NEW w \in Endpoints, NEW i \in DOMAIN toServer'[w],
              toServer'[w][i].kind = "connect"
       PROVE  i = 1 /\ relay'.clientIdByEndpoint[w] = None /\ Unseen(w)'
  <2>1. w # v
    <3>1. w = v => i + 1 \in DOMAIN toServer[v] /\ toServer[v][i + 1].kind = "connect"
                   /\ i \in Nat \ {0}
      BY <1>2, <1>11
    <3>2. w = v => i + 1 = 1 /\ i \in Nat \ {0}
      BY <3>1 DEF AllFollowed
    <3> QED BY <3>2
  <2>2. i = 1 /\ relay.clientIdByEndpoint[w] = None /\ Unseen(w)
    BY <1>1, <1>11, <2>1 DEF AllFollowed
  <2>3. relay'.clientIdByEndpoint[w] = None
    <3>1. relay'.clientIdByEndpoint[w] \in {None, relay.clientIdByEndpoint[w]}
      BY <1>4, <2>1 DEF IngestsNothing, IngestsConnect, IngestsDisconnect, IngestsSnapshot
    <3> QED BY <2>2, <3>1
  <2> QED BY <1>6, <2>1, <2>2, <2>3
<1>12. ASSUME NEW w \in Endpoints PROVE Ascends(w)'
  <2>1. Ascends(w)
    BY DEF AllFollowed
  <2>2. CASE w = v
    <3>1. relay'.clientIdByEndpoint[v] = IdOf[v] =>
             LET N == relay'.latestSnapshotsByClientId[IdOf[v]]
             IN  \/ HasSession(v) /\ N = Latest(v)
                 \/ HasSession(v) /\ p.kind = "snapshot" /\ N = p /\ N # None
                 \/ p.kind = "connect" /\ N = None
      BY <1>8 DEF c
    <3> QED BY <1>1, <1>2, <2>1, <2>2, <3>1, AscendsIngested
  <2>3. CASE w # v
    <3>1. IdOf[w] # None /\ relay'.clientIdByEndpoint[w] = IdOf[w] =>
              /\ HasSession(w)
              /\ relay'.latestSnapshotsByClientId[IdOf[w]]
                    = relay.latestSnapshotsByClientId[IdOf[w]]
      BY <1>5, <1>7, <2>3 DEF HasSession
    <3> QED BY <1>1, <1>5, <2>1, <2>3, <3>1, AscendsKept
  <2> QED BY <2>2, <2>3
<1>13. HasSession(v)' => relay'.clientIdByEndpoint[v] = c
  BY <1>5 DEF HasSession, c
<1>14. ASSUME NEW w \in Endpoints, HasSession(w)' PROVE Relays(w)'
  <2>1. CASE w = v
    <3>1. \A o \in result'.outputs : o.packet.clientId = c =>
             /\ ~ Dismisses(o.packet, c)
             /\ o.packet.kind = "snapshot" => o.packet = p /\ M = p /\ M # None
      BY <1>8, <1>13, <1>14, <2>1
    <3>2. \A o \in result'.outputs : o.packet.clientId = c =>
             /\ ~ Dismisses(o.packet, c)
             /\ o.packet.kind = "snapshot" => /\ M # None /\ From(o.packet, v)
                                              /\ o.packet.tick = M.tick
      BY <1>3, <3>1
    <3>3. Latest(v)' = M
      BY <1>5 DEF Latest, c
    <3> QED BY <1>5, <2>1, <3>2, <3>3 DEF Relays, From, Dismisses, c
  <2>2. CASE w # v
    <3>1. HasSession(w) /\ Ascends(w) /\ Latest(w)' = Latest(w)
      BY <1>5, <1>7, <1>14, <2>2 DEF Latest, AllFollowed
    <3>2. \A o \in result'.outputs : o.packet.clientId = IdOf[w] =>
                   /\ ~ Dismisses(o.packet, IdOf[w])
                   /\ o.packet.kind = "snapshot" =>
                         Latest(w) # None /\ o.packet = Latest(w)
      BY <1>7, <1>14, <2>2
    <3>3. Latest(w) # None => From(Latest(w), w)
      BY <3>1 DEF Ascends
    <3> QED BY <1>5, <3>1, <3>2, <3>3 DEF Relays, From, Dismisses
  <2> QED BY <2>1, <2>2
<1>15. ASSUME NEW w \in Endpoints, NEW u \in Endpoints, HasSession(w)', IdOf[u] # IdOf[w]
       PROVE  Follows(u, w)'
  <2>1. CASE w # v
    <3>1. HasSession(w) /\ Follows(u, w)
          /\ relay'.latestSnapshotsByClientId[IdOf[w]]
                = relay.latestSnapshotsByClientId[IdOf[w]]
      BY <1>7, <1>15, <2>1 DEF AllFollowed
    <3>2. /\ IdOf[w] \in ClientIds
          /\ Latest(w) # None => Latest(w).tick \in Int /\ Latest(w).tick >= Latest(w).tick
      BY <3>1, SessionLatest
    <3> QED BY <1>1, <1>5, <3>1, <3>2, FollowsKept DEF Latest
  <2>2. CASE w = v /\ HasSession(v) /\ M = Latest(v)
    <3>1. Follows(u, v)
      BY <1>15, <2>2 DEF AllFollowed
    <3>2. Latest(v) # None => Latest(v).tick \in Int /\ Latest(v).tick >= Latest(v).tick
      BY <2>2, SessionLatest
    <3> QED BY <1>1, <1>3, <1>5, <2>2, <3>1, <3>2, FollowsKept DEF c
  <2>3. CASE w = v /\ HasSession(v) /\ p.kind = "snapshot" /\ M = p /\ M # None
    <3>1. Follows(u, v) /\ Ascends(v)
      BY <1>15, <2>3 DEF AllFollowed
    <3>2. Latest(v) # None => Latest(v).tick \in Int
      BY <2>3, SessionLatest
    <3>3. 1 \in DOMAIN toServer[v]
      <4>1. toServer[v] \in Seq(SentBy(v))
        BY DEF Sound
      <4>2. Len(toServer[v]) # 0 /\ Len(toServer[v]) \in Nat
            /\ DOMAIN toServer[v] = 1..Len(toServer[v])
        BY <1>1, <4>1, EmptySeq, LenProperties
      <4> QED BY <4>2
    <3>4. Latest(v) # None => Latest(v).tick <= p.tick
      BY <1>1, <2>3, <3>1, <3>3 DEF Ascends
    <3>5. Latest(v) # None => /\ M # None /\ Latest(v).tick \in Int /\ M.tick \in Int
                              /\ M.tick >= Latest(v).tick
      BY <1>3, <2>3, <3>2, <3>4
    <3> HIDE DEF M
    <3>6. M = relay'.latestSnapshotsByClientId[IdOf[v]] /\ IdOf[v] \in ClientIds
      BY <1>3 DEF M, c
    <3> QED BY <1>1, <1>5, <2>3, <3>1, <3>5, <3>6, FollowsKept
  <2>4. CASE w = v /\ p.kind = "connect" /\ M = None
    <3>1. Unseen(v)
      <4>1. 1 \in DOMAIN toServer[v]
        <5>1. toServer[v] \in Seq(SentBy(v))
          BY DEF Sound
        <5>2. Len(toServer[v]) # 0 /\ Len(toServer[v]) \in Nat
              /\ DOMAIN toServer[v] = 1..Len(toServer[v])
          BY <1>1, <5>1, EmptySeq, LenProperties
        <5> QED BY <5>2
      <4> QED BY <1>1, <2>4, <4>1 DEF AllFollowed
    <3>2. /\ \A i \in DOMAIN toViewer'[u] : ~ From(toViewer'[u][i], v)
          /\ ~ Shows(rosters'[u][c], v)
      BY <1>1, <1>3, <3>1 DEF Unseen
    <3> QED BY <1>5, <2>4, <3>2 DEF Follows, From, Shows, SnapshotPoses, c
  <2> QED BY <1>8, <1>13, <1>15, <2>1, <2>2, <2>3, <2>4
<1> QED BY <1>5, <1>9, <1>10, <1>11, <1>12, <1>14, <1>15 DEF AllFollowed

LEMMA FollowedInit == Init => FollowedInv
<1> SUFFICES ASSUME Init PROVE AllFollowed
  BY DEF FollowedInv
<1>1. /\ \A v \in Endpoints : DOMAIN toServer[v] = {} /\ DOMAIN toViewer[v] = {}
      /\ \A v \in Endpoints : relay.clientIdByEndpoint[v] = None
      /\ \A c \in ClientIds : relay.latestSnapshotsByClientId[c] = None
      /\ result.outputs = {}
      /\ \A v \in Endpoints, c \in ClientIds : rosters[v][c] = None
  <2>1. DOMAIN <<>> = {}
    OBVIOUS
  <2> QED BY <2>1 DEF Init, RelayInit, EmptyRelay, NoResult, RelayResult, NoActors
<1>2. \A w \in Endpoints : Unseen(w)
  BY <1>1, PosesAssumption DEF Unseen, Shows
<1>3. \A w \in Endpoints : ~ HasSession(w)
  BY <1>1 DEF HasSession
<1> QED BY <1>1, <1>2, <1>3 DEF AllFollowed, Ascends

LEMMA FollowedStep == Sound /\ FollowedInv /\ [Next]_vars => FollowedInv'
<1> SUFFICES ASSUME Sound, FollowedInv, [Next]_vars PROVE FollowedInv'
  OBVIOUS
<1>1. setting' = setting
  BY StepKeepsSetting
<1>2. InOrder' <=> InOrder
  BY <1>1, SameIds DEF InOrder
<1>3. ASSUME InOrder PROVE AllFollowed'
  <2>1. AllFollowed
    BY <1>3 DEF FollowedInv
  <2>2. CASE UNCHANGED vars
    <3>1. IdOf' = IdOf
      BY <1>1, SameIds
    <3>2. \A w \in Endpoints : /\ Unseen(w)' <=> Unseen(w)
                               /\ Ascends(w)' <=> Ascends(w)
                               /\ Relays(w)' <=> Relays(w)
                               /\ HasSession(w)' <=> HasSession(w)
      BY <2>2, <3>1 DEF vars, Unseen, Ascends, Relays, HasSession, Latest, From, Shows,
                        SnapshotPoses, Dismisses
    <3>3. \A v, w : Follows(v, w)' <=> Follows(v, w)
      BY <2>2, <3>1 DEF vars, Follows, Latest, From, Shows, SnapshotPoses, Continues,
                        Dismisses
    <3> QED BY <2>1, <2>2, <3>1, <3>2, <3>3 DEF vars, AllFollowed
  <2> QED BY <1>3, <2>1, <2>2, StepCases, FollowedStart, FollowedPublish, FollowedPump,
             FollowedEnd, FollowedIngests, FollowedSends, FollowedServer
<1> QED BY <1>2, <1>3 DEF FollowedInv

\* A viewer that shows a pose of w, who has its session, shows no earlier one next.
LEMMA GoesOn ==
    ASSUME Sound, AllFollowed, [Next]_vars, NEW v \in Endpoints, NEW w \in Endpoints,
           HasSession(w), IdOf[w] \in ClientIds, Runs(v), IdOf[v] # IdOf[w],
           Shows(rosters[v][IdOf[w]], w)
    PROVE  LET next == rosters'[v][IdOf[w]]
           IN  Shows(next, w) /\ next.tick >= rosters[v][IdOf[w]].tick
<1> DEFINE c == IdOf[w]
           shown == rosters[v][c]
           next == rosters'[v][c]
<1>1. shown.tick \in Int
  BY ViewerTicks
<1>2. CASE rosters'[v] = rosters[v]
  BY <1>1, <1>2
<1>3. ASSUME NEW n \in 1..Len(toViewer[v]), Pump(v, n)
      PROVE  Shows(next, w) /\ next.tick >= shown.tick
  <2> DEFINE q == toViewer[v]
  <2>1. PumpsTo(q, n, c, shown, next)
    BY <1>3, PumpEffect
  <2>2. \A i \in 1..n : i \in DOMAIN q /\ q[i] \in SentByRelay
    <3>1. q \in Seq(SentByRelay)
      BY DEF Sound
    <3> QED BY <3>1, LenProperties, ElementOfSeq
  <2>3. \A i \in DOMAIN q : Continues(q[i], w, shown.tick)
    BY DEF AllFollowed, Follows
  <2> HIDE DEF q, shown, next
  <2>4. CASE FirstSnapshots(q, n, c) # {}
    <3>1. PICK m \in FirstSnapshots(q, n, c) : next = [tick |-> q[m].tick, yaw |-> q[m].yaw]
      BY <2>1, <2>4 DEF PumpsTo
    <3>2. m \in 1..n /\ q[m].kind = "snapshot" /\ q[m].clientId = c
      BY DEF FirstSnapshots
    <3>3. q[m].yaw = Facing[w] /\ q[m].tick >= shown.tick
      BY <2>2, <2>3, <3>2 DEF Continues, From
    <3>4. next \in SnapshotPoses /\ next.tick = q[m].tick /\ next.yaw = q[m].yaw
      BY <2>2, <3>1, <3>2, SentByRelayFields
    <3> QED BY <3>3, <3>4 DEF Shows
  <2>5. CASE FirstSnapshots(q, n, c) = {}
    <3>1. shown # None
      BY PosesAssumption DEF Shows, shown
    <3>2. \A i \in FirstEvents(q, n, c) : ~ Dismisses(q[i], c)
      BY <2>2, <2>3 DEF FirstEvents, Continues
    <3>3. next = shown
      BY <2>1, <2>5, <3>1, <3>2 DEF PumpsTo
    <3> QED BY <1>1, <3>3 DEF shown
  <2> QED BY <2>4, <2>5
<1>4. \/ rosters'[v] = rosters[v]
      \/ \E n \in 1..Len(toViewer[v]) : Pump(v, n)
  <2>1. ASSUME NEW u \in Endpoints, Start(u) PROVE rosters'[v] = rosters[v]
    <3>1. u # v /\ rosters' = [rosters EXCEPT ![u] = [NoActors EXCEPT ![IdOf[u]] = SpawnPose]]
      BY <2>1 DEF Start, Runs
    <3> QED BY <3>1 DEF Sound
  <2>2. ASSUME NEW u \in Endpoints, Publish(u) \/ Close(u) \/ Crash(u) \/ ServerIngests(u)
        PROVE  rosters' = rosters
    BY <2>2 DEF Publish, Close, Crash, ServerIngests
  <2>3. ASSUME NEW u \in Endpoints, u # v, NEW n \in 1..Len(toViewer[u]), Pump(u, n)
        PROVE  rosters'[v] = rosters[v]
    BY <2>3, PumpEffect
  <2>4. ASSUME \/ \E output \in result.outputs : ServerSends(output)
               \/ ServerLoops \/ ServerStops \/ ServerRestarts \/ UNCHANGED vars
        PROVE  rosters' = rosters
    <3>1. CASE UNCHANGED vars
      BY <3>1 DEF vars
    <3>2. CASE ~ UNCHANGED vars
      BY <2>4, <3>2 DEF ServerSends, ServerLoops, ServerStops, ServerRestarts
    <3> QED BY <3>1, <3>2
  <2> QED BY <2>1, <2>2, <2>3, <2>4, StepCases
<1> QED BY <1>2, <1>3, <1>4

\* Whatever is lost, crashes, stops and is taken over: where the network keeps the order
\* and a process ends within one round of ticks, no viewer goes back along the poses of
\* the process that has a session, nor to one of a process it has displaced.
THEOREM HolderIsFollowed ==
    ASSUME \A s \in Settings : s.lastTick < s.modulus
    PROVE  Spec => FollowsHolder
<1> DEFINE Goes ==
      {"reorder", "duplicate"} \cap Faults = {} => \A v, w \in Endpoints :
          LET shown == rosters[v][IdOf[w]]
              next == rosters'[v][IdOf[w]]
          IN  /\ Holds(w) /\ v # w /\ Runs(v) /\ IdOf[v] # IdOf[w]
              /\ shown \notin {None, SpawnPose} /\ shown.yaw = Facing[w]
              => /\ next \notin {None, SpawnPose}
                 /\ next.yaw = shown.yaw
                 /\ next.tick >= shown.tick
<1>1. Sound /\ FollowedInv /\ [Next]_vars => Goes
  <2> SUFFICES ASSUME Sound, FollowedInv, [Next]_vars,
                      {"reorder", "duplicate"} \cap Faults = {},
                      NEW v \in Endpoints, NEW w \in Endpoints,
                      Holds(w), v # w, Runs(v), IdOf[v] # IdOf[w],
                      rosters[v][IdOf[w]] \notin {None, SpawnPose},
                      rosters[v][IdOf[w]].yaw = Facing[w]
               PROVE  /\ rosters'[v][IdOf[w]] \notin {None, SpawnPose}
                      /\ rosters'[v][IdOf[w]].yaw = rosters[v][IdOf[w]].yaw
                      /\ rosters'[v][IdOf[w]].tick >= rosters[v][IdOf[w]].tick
    OBVIOUS
  <2>1. AllFollowed
    BY DEF FollowedInv, InOrder, Sound
  <2>2. IdOf[w] \in ClientIds /\ HasSession(w)
    BY NoneAssumption DEF Sound, Holds, HasSession
  <2>3. Shows(rosters[v][IdOf[w]], w)
    BY <2>2 DEF Sound, Poses, Shows
  <2>4. /\ Shows(rosters'[v][IdOf[w]], w)
        /\ rosters'[v][IdOf[w]].tick >= rosters[v][IdOf[w]].tick
    BY <2>1, <2>2, <2>3, GoesOn
  <2> QED BY <2>4, PosesAssumption DEF Shows
<1>2. Sound /\ FollowedInv /\ [Next]_vars => [Goes]_vars
  BY <1>1
<1> HIDE DEF Goes
<1>3. Spec => [][Goes]_vars
  BY <1>2, FollowedInit, FollowedStep, SoundInit, SoundStep, PTL DEF Spec
<1> QED BY <1>3 DEF FollowsHolder, Goes
=============================================================================
