----------------------------- MODULE StateProtocol -----------------------------
(***************************************************************************)
(* The packets on the wire (src/network/state_protocol.cpp), at their      *)
(* widths: bits written least significant first, padded to whole bytes.  A *)
(* datagram is the sequence of its bits.  A packet is sent, may be changed *)
(* on its way once, is decoded, and is encoded again by the relay.         *)
(*                                                                         *)
(* Positions and yaws are floats; here they are counted in parts of the    *)
(* step the wire rounds them to.  Errors of float arithmetic are below     *)
(* half a step and are left out, and positions stay within 2^31 steps      *)
(* (21,000 km), where lround's result fits the integer it is clamped in.   *)
(***************************************************************************)
EXTENDS Integers, Sequences

CONSTANTS
    Connects, Snapshots, Events,  \* packets that are sent
    Parts,                        \* parts of a step, an even number
    MaxHops,                      \* bound: how often a packet is relayed
    None, Pending

ASSUME PartsAssumption == Parts \in Nat /\ Parts > 0 /\ Parts % 2 = 0
ASSUME MaxHopsAssumption == MaxHops \in Nat

\* What an unsigned integer of so many bits holds.
Unsigned(width) == 0..(2^width - 1)

\* ConnectPacket and DisconnectPacket, ActorSnapshot, ServerEventPacket.
ConnectPackets == [kind : {1, 2}, clientId : Unsigned(8), sequence : Unsigned(16)]

ActorSnapshots == [kind : {3}, clientId : Unsigned(8), tick : Unsigned(16),
                   flags : Unsigned(8), x : Int, y : Int, z : Int, yaw : Int]

ServerEventPackets ==
    [kind : {4}, event : {1, 2}, clientId : Unsigned(8), sequence : Unsigned(16)]

ASSUME PacketsAssumption ==
    /\ Connects \subseteq ConnectPackets
    /\ Snapshots \subseteq ActorSnapshots
    /\ Events \subseteq ServerEventPackets
ASSUME NoneAssumption ==
    /\ None # Pending /\ None \notin 1..4
    /\ \A nothing \in {None, Pending} :
          nothing \notin ConnectPackets \cup ActorSnapshots \cup ServerEventPackets

ByteBits == 8
PositionBits == 22
YawMax == 65535

\* The fields of a packet after its header, and their widths.
Header == <<<<"magicLow", 16>>, <<"magicHigh", 16>>, <<"version", 4>>, <<"kind", 4>>>>

Layout(kind) ==
    CASE kind \in {1, 2} -> <<<<"clientId", 8>>, <<"sequence", 16>>>>
      [] kind = 3 -> <<<<"clientId", 8>>, <<"tick", 16>>, <<"flags", 8>>, <<"x", PositionBits>>,
                       <<"y", PositionBits>>, <<"z", PositionBits>>, <<"yaw", 16>>>>
      [] kind = 4 -> <<<<"event", 8>>, <<"clientId", 8>>, <<"sequence", 16>>>>

Signed == {"x", "y", "z"}

\* kProtocolMagic, in halves: TLC's integers end below 2^31.
Marks(kind) == [magicLow |-> 17217, magicHigh |-> 12630, version |-> 1, kind |-> kind]

\* The bits up to the end of a field; before the first field there are none.
Ends(layout) ==
    LET end[k \in 0..Len(layout)] == IF k = 0 THEN 0 ELSE end[k - 1] + layout[k][2]
    IN  end

Width(layout) == Ends(layout)[Len(layout)]
-----------------------------------------------------------------------------
(* BitWriter and BitReader.                                                *)

\* writeBits, and writeSigned: a negative value has the bits of its two's complement.
Bit(value, i) == (value \div 2^(i - 1)) % 2

\* One field after the other, each from its lowest bit.
WriteFields(layout, values) ==
    LET end == Ends(layout)
        BitOf(k, i) == Bit(values[layout[k][1]], i - end[k - 1])
    IN  [i \in 1..end[Len(layout)] |->
            BitOf(CHOOSE k \in DOMAIN layout : end[k - 1] < i /\ i <= end[k], i)]

\* The bits of a byte that nothing is written to are zero.
Padded(bits) == bits \o [i \in 1..((-Len(bits)) % ByteBits) |-> 0]

\* The number with these bits, and all bits above them as given: 0, or -1 for ones.
Number(bits, above) ==
    LET from[i \in 0..Len(bits)] ==
            IF i = Len(bits) THEN above ELSE bits[i + 1] + 2 * from[i + 1]
    IN  from[0]

ReadBits(bits) == Number(bits, 0)

\* MUTANT of ReadSigned: the sign bit is not extended.
ReadSigned_Unextended(bits) == ReadBits(bits)

\* readSigned: the bits above are copies of the sign bit.
ReadSigned(bits) == Number(bits, -bits[Len(bits)])

\* A field is read where the fields before it end.
ReadField(bits, start, layout, k) ==
    LET before == start + Ends(layout)[k - 1]
        raw == [i \in 1..layout[k][2] |-> bits[before + i]]
    IN  IF layout[k][1] \in Signed THEN ReadSigned(raw) ELSE ReadBits(raw)

Names(layout) == {layout[k][1] : k \in DOMAIN layout}

ReadFields(bits, start, layout) ==
    [name \in Names(layout) |->
        ReadField(bits, start, layout, CHOOSE k \in DOMAIN layout : layout[k][1] = name)]
-----------------------------------------------------------------------------
(* What the wire rounds.                                                   *)

\* lround: a half goes away from zero.
Rounded(value) ==
    IF value >= 0 THEN (value + Parts \div 2) \div Parts
    ELSE -((Parts \div 2 - value) \div Parts)

Clamp(value, low, high) == IF value < low THEN low ELSE IF value > high THEN high ELSE value

Positions == -(2^(PositionBits - 1))..(2^(PositionBits - 1) - 1)

QuantizePosition(value) ==
    Clamp(Rounded(value), -(2^(PositionBits - 1)), 2^(PositionBits - 1) - 1)

DequantizePosition(value) == value * Parts

FullTurn == YawMax * Parts

\* A yaw less than half a step below the full turn is the full turn's.
QuantizeYaw(yaw) == Clamp(Rounded(yaw % FullTurn), 0, YawMax)

\* MUTANT of DequantizeYaw: a turn has one step more than it is quantized to.
DequantizeYaw_OneMore(value) == value * Parts - (value * Parts) \div (YawMax + 1)

DequantizeYaw(value) == value * Parts

Quantized(packet) ==
    IF packet.kind # 3 THEN packet
    ELSE [packet EXCEPT !.x = QuantizePosition(@), !.y = QuantizePosition(@),
                        !.z = QuantizePosition(@), !.yaw = QuantizeYaw(@)]

Dequantized(packet) ==
    IF packet.kind # 3 THEN packet
    ELSE [packet EXCEPT !.x = DequantizePosition(@), !.y = DequantizePosition(@),
                        !.z = DequantizePosition(@), !.yaw = DequantizeYaw(@)]
-----------------------------------------------------------------------------
\* encodeConnectPacket, encodeDisconnectPacket, encodeActorSnapshot,
\* encodeServerEventPacket.
Encode(packet) ==
    Padded(WriteFields(Header, Marks(packet.kind))
           \o WriteFields(Layout(packet.kind), Quantized(packet)))

\* readHeader: the kind, or None.
ReadHeader(bits) ==
    IF Len(bits) < Width(Header) THEN None
    ELSE LET marks == ReadFields(bits, 0, Header)
         IN  IF marks.kind \in 1..4 /\ marks = Marks(marks.kind) THEN marks.kind ELSE None

\* decodePacket.  What follows the last field is not looked at.
DecodePacket(bits) ==
    LET kind == ReadHeader(bits)
        fields == ReadFields(bits, Width(Header), Layout(kind))
    IN  IF kind = None THEN None
        ELSE IF Len(bits) < Width(Header) + Width(Layout(kind)) THEN None
        ELSE IF kind = 4 /\ fields.event \notin {1, 2} THEN None
        ELSE Dequantized([name \in DOMAIN fields \cup {"kind"} |->
                              IF name = "kind" THEN kind ELSE fields[name]])
-----------------------------------------------------------------------------
VARIABLES
    sent,      \* the packet that was sent
    datagram,  \* the bits on their way
    fault,     \* what happened to them: "none", "cut", "longer" or "flipped"
    received,  \* what they were decoded to, or Pending before that
    hops       \* how often the packet was relayed

protocolVars == <<sent, datagram, fault, received, hops>>

ProtocolInit ==
    /\ sent \in Connects \cup Snapshots \cup Events
    /\ datagram = Encode(sent)
    /\ fault = "none" /\ received = Pending /\ hops = 0

Disturbed(bits, kind) ==
    /\ fault = "none" /\ received = Pending
    /\ datagram' = bits /\ fault' = kind
    /\ UNCHANGED <<sent, received, hops>>

\* Another program, or another version of the protocol, sends less ...
CutShort ==
    \E bytes \in 0..(Len(datagram) \div ByteBits - 1) :
        Disturbed(SubSeq(datagram, 1, bytes * ByteBits), "cut")

\* ... or more, or another bit.  No datagram is longer than the buffer it is received in.
Longer == Disturbed(datagram \o [i \in 1..ByteBits |-> 1], "longer")

Flipped == \E i \in DOMAIN datagram : Disturbed([datagram EXCEPT ![i] = 1 - @], "flipped")

Receive ==
    /\ received = Pending
    /\ received' = DecodePacket(datagram)
    /\ UNCHANGED <<sent, datagram, fault, hops>>

\* The relay sends on what it has decoded.
RelayOn ==
    /\ received \notin {Pending, None} /\ hops < MaxHops
    /\ datagram' = Encode(received)
    /\ received' = Pending /\ hops' = hops + 1
    /\ UNCHANGED <<sent, fault>>

ProtocolNext ==
    \/ CutShort
    \/ Longer
    \/ Flipped
    \/ Receive
    \/ RelayOn

ProtocolSpec == ProtocolInit /\ [][ProtocolNext]_protocolVars
-----------------------------------------------------------------------------
(* Properties.                                                             *)

Arrived == received \notin {Pending, None}

\* At most half a step apart.
Close(a, b) == 2 * (a - b) \in -Parts..Parts

ClosePosition(a, b) ==
    \/ Close(a, b)
    \/ Rounded(b) \notin Positions /\ a = DequantizePosition(Rounded(a))
          /\ QuantizePosition(b) = Rounded(a)

CloseYaw(a, b) == \E turn \in {-1, 0, 1} : Close(a, (b % FullTurn) + turn * FullTurn)

\* One packet says what the other does, but for what the wire rounds.
SaysWhat(packet, original) ==
    /\ DOMAIN packet = DOMAIN original
    /\ \A name \in DOMAIN original :
          CASE name \in Signed -> ClosePosition(packet[name], original[name])
            [] name = "yaw" -> CloseYaw(packet.yaw, original.yaw)
            [] OTHER -> packet[name] = original[name]

\* A datagram says what was sent, however often it is relayed: every field, positions to
\* half a step unless they leave the range of 22 bits, yaws to half a step around the
\* circle, with the sign.  One that is cut anywhere says nothing, and one that is longer
\* says the same (decodePacket, and the encoders).
DatagramsMeanThePacket ==
    /\ fault = "cut" => ~Arrived
    /\ fault \in {"none", "longer"} /\ received # Pending =>
          Arrived /\ SaysWhat(received, sent)

\* Whatever bits arrive, if they are a packet the relay sends the same bits on, up to the
\* padding and to a yaw of the full turn, which becomes zero (encodeActorSnapshot after
\* decodePacket): relaying neither moves an actor nor turns it.
RelayedBitsAreKept ==
    Arrived =>
        LET again == Encode(received)
            used == Width(Header) + Width(Layout(received.kind))
            turned == received.kind = 3 /\ received.yaw = FullTurn
        IN  \A i \in 1..used :
                again[i] = IF turned /\ i > used - 16 THEN 0 ELSE datagram[i]
=============================================================================
