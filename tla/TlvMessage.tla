----------------------------- MODULE TlvMessage -----------------------------
(***************************************************************************)
(* A datagram's way through the brokers as cells of two bytes              *)
(* (src/protocol/TlvMessage.{h,cpp}, and start and handlePublish of        *)
(* src/broker/broker.cpp): it is built, cut to the receiver's buffer,      *)
(* validated and searched in place, and a publication is built anew for    *)
(* the next broker.  The parser is a loop over the cells, a step per TLV.  *)
(* Lengths and offsets are counted in cells where the code counts bytes.   *)
(***************************************************************************)
EXTENDS Integers, Sequences, FiniteSets

CONSTANTS
    CellBase,         \* 2^16
    BufferSize,       \* sizeof(buffer) in start(), in cells
    Messages,         \* what clients send
    Garbage,          \* what a socket may receive besides
    HashName,         \* hashServiceName of any name
    MaxHops,          \* bound of the model: relays of one publication
    Absent

Cells == 0 .. CellBase - 1

\* MsgType and TlvType.
SUBSCRIBE == 1
PUBLISH == 2
HEARTBEAT == 3
HELLO == 4
REGION_UPDATE == 6
COORDINATES == 1
FLAGS == 2
SERVICE_NAME == 3
REGION == 5
BLINDED_VALUE == 16
BLINDED_VALUE_HI == 17
TlvTypes == {COORDINATES, FLAGS, SERVICE_NAME, REGION, BLINDED_VALUE,
             BLINDED_VALUE_HI}

HeaderSize == 4
TlvHeaderSize == 2

\* What a getter needs at least, and reads: a fixed size, or all there is.
Need(t) == IF t = COORDINATES THEN 4 ELSE IF t = FLAGS THEN 2
           ELSE IF t = REGION THEN 8 ELSE 0
Size(t, len) == IF Need(t) > 0 THEN Need(t) ELSE len

Optional == Seq(Cells) \cup {Absent}
MessageType ==
    [type : Cells, name : Seq(Cells), coords : Optional, flags : Optional,
     blind : Optional, hi : Optional, payload : Seq(Cells)]

ASSUME CellAssumption ==
    /\ CellBase \in Nat /\ CellBase > BLINDED_VALUE_HI
    /\ BufferSize \in Nat
    /\ \A m \in Messages : m.type \in Cells /\ m \in MessageType
    /\ Garbage \subseteq Seq(Cells)
    /\ HashName \in Seq(Cells) /\ Absent \notin Seq(Cells)

\* A payload whose length the header's two cells can tell.
Countable(payload) == Len(payload) < CellBase * CellBase

\* The clients that the properties of the message are about: they publish or
\* subscribe, give a position, and write no field that the broker's getters find
\* too short (clients/test_client.cpp).  Names, blinded values and payloads have
\* any length the header can tell.
ClientsBuild ==
    /\ Len(HashName) < CellBase
    /\ \A m \in Messages :
         /\ m.type \in {SUBSCRIBE, PUBLISH}
         /\ Countable(m.payload)
         /\ m.coords # Absent /\ Len(m.coords) = Need(COORDINATES)
         /\ m.flags # Absent => Len(m.flags) = Need(FLAGS)

VARIABLES
    wire,             \* the datagram on its way to a broker
    data,             \* the first bytes of the buffer, as recvfrom left them
    pc,
    num_tlvs, payload_len, payload_offset,
    i, cursor,        \* of the loop the parser is in
    wanted,           \* the TLV types the handler has yet to look up
    got,              \* what its getters returned
    origin,           \* history: the client's message, Absent for garbage
    hop, key,         \* history: relays so far, the name after the first one
    marks,            \* history: where the validated TLVs begin
    reach             \* history: the end of what was read of data

parserVars == <<num_tlvs, payload_len, payload_offset, i, cursor, wanted, got>>
vars == <<wire, data, pc, parserVars, origin, hop, key, marks, reach>>

Nothing == [t \in TlvTypes |-> Absent]

TypeOK ==
    /\ wire \in Seq(Cells) /\ data \in Seq(Cells)
    /\ pc \in {"idle", "sent", "header", "tlvs", "find", "handle",
               "refused", "done"}
    /\ num_tlvs \in Nat /\ payload_len \in Nat /\ payload_offset \in Nat
    /\ i \in Nat /\ cursor \in Nat /\ reach \in Nat
    /\ wanted \in Seq(TlvTypes) /\ got \in [TlvTypes -> Optional]
    /\ origin \in MessageType \cup {Absent} /\ key \in Optional
    /\ hop \in Nat /\ marks \in Seq(Nat)

-----------------------------------------------------------------------------
\* TlvMessageBuilder.

\* Mutant: nothing is narrowed.
TlvWide(t, v) == IF v = Absent THEN << >> ELSE <<t, Len(v)>> \o v

\* addTlv: the length is narrowed to sixteen bits, and so are the bytes copied.
Tlv(t, v) ==
    IF v = Absent THEN << >>
    ELSE LET len == Len(v) % CellBase IN <<t, len>> \o SubSeq(v, 1, len)

\* Mutant: the bytes are counted in header sizes (the "rough" first guess).
RoughCount(tlvs) ==
    Len(tlvs[1] \o tlvs[2] \o tlvs[3] \o tlvs[4] \o tlvs[5]) \div TlvHeaderSize

Count(tlvs) == Cardinality({n \in 1 .. 5 : tlvs[n] # << >>})

\* build: the header with the number of TLVs and the payload's 32-bit length.
Build(type, tlvs, payload) ==
    <<type, Count(tlvs) % CellBase,
      (Len(payload) \div CellBase) % CellBase, Len(payload) % CellBase>>
    \o tlvs[1] \o tlvs[2] \o tlvs[3] \o tlvs[4] \o tlvs[5] \o payload

\* What a client sends.
Sent(m) ==
    Build(m.type,
          <<Tlv(SERVICE_NAME, m.name), Tlv(COORDINATES, m.coords),
            Tlv(FLAGS, m.flags), Tlv(BLINDED_VALUE, m.blind),
            Tlv(BLINDED_VALUE_HI, m.hi)>>, m.payload)

\* Mutant: the blinded value stays behind.
RelayedPlain(name, coords, payload, blind, flags) ==
    Build(PUBLISH,
          <<Tlv(SERVICE_NAME, name), Tlv(COORDINATES, coords), << >>,
            Tlv(FLAGS, flags), << >> >>, payload)

\* What handlePublish sends to its parent and its children.
Relayed(name, coords, payload, blind, flags) ==
    Build(PUBLISH,
          <<Tlv(SERVICE_NAME, name), Tlv(COORDINATES, coords),
            Tlv(BLINDED_VALUE, blind), Tlv(FLAGS, flags), << >> >>, payload)

-----------------------------------------------------------------------------
Init ==
    /\ wire = << >> /\ data = << >> /\ pc = "idle"
    /\ num_tlvs = 0 /\ payload_len = 0 /\ payload_offset = 0
    /\ i = 0 /\ cursor = 0 /\ wanted = << >> /\ got = Nothing
    /\ origin = Absent /\ hop = 0 /\ key = Absent /\ marks = << >> /\ reach = 0

ClientSends ==
    /\ pc = "idle"
    /\ \E m \in Messages : wire' = Sent(m) /\ origin' = m
    /\ pc' = "sent"
    /\ UNCHANGED <<data, parserVars, hop, key, marks, reach>>

GarbageArrives ==
    /\ pc = "idle"
    /\ wire' \in Garbage
    /\ pc' = "sent"
    /\ UNCHANGED <<data, parserVars, origin, hop, key, marks, reach>>

\* recvfrom: what does not fit the buffer is cut off.
Receive ==
    /\ pc = "sent"
    /\ data' = SubSeq(wire, 1, IF Len(wire) <= BufferSize THEN Len(wire) ELSE BufferSize)
    /\ pc' = "header" /\ reach' = 0
    /\ UNCHANGED <<wire, parserVars, origin, hop, key, marks>>

-----------------------------------------------------------------------------
\* TlvMessage's constructor, findTlv and the getters.

\* The cell at offset o.  Behind the data lie bytes of earlier datagrams.
Cell(o) == IF o < Len(data) THEN data[o + 1] ELSE 0

\* All cells up to offset o have been read.
Read(o) == reach' = IF o > reach THEN o ELSE reach

Refuse == pc' = "refused" /\ UNCHANGED <<num_tlvs, payload_len, i, cursor, marks>>

Header ==
    /\ pc = "header"
    /\ IF Len(data) < HeaderSize
       THEN Refuse /\ UNCHANGED reach
       ELSE /\ num_tlvs' = Cell(1) /\ payload_len' = Cell(2) * CellBase + Cell(3)
            /\ i' = 0 /\ cursor' = HeaderSize /\ marks' = << >>
            /\ pc' = "tlvs" /\ Read(HeaderSize)
    /\ UNCHANGED <<wire, data, payload_offset, wanted, got, origin, hop, key>>

\* Mutant: one cell of the TLV's header is enough.
HalfHeaderFits == cursor < Len(data)

HeaderFits == cursor + TlvHeaderSize <= Len(data)

\* The end of the TLV at the cursor.
After == cursor + TlvHeaderSize + Cell(cursor + 1)

ValidateTlv ==
    /\ pc = "tlvs" /\ i < num_tlvs
    /\ IF ~HeaderFits THEN Refuse /\ UNCHANGED reach
       ELSE /\ Read(cursor + TlvHeaderSize)
            /\ IF After > Len(data) THEN Refuse
               ELSE /\ cursor' = After /\ i' = i + 1
                    /\ marks' = Append(marks, cursor)
                    /\ UNCHANGED <<pc, num_tlvs, payload_len>>
    /\ UNCHANGED <<wire, data, payload_offset, wanted, got, origin, hop, key>>

\* The types the handler of a message looks up, in its order.
Lookups(type) ==
    IF type = SUBSCRIBE
    THEN <<SERVICE_NAME, COORDINATES, FLAGS, BLINDED_VALUE, BLINDED_VALUE_HI>>
    ELSE IF type = PUBLISH THEN <<SERVICE_NAME, COORDINATES, FLAGS, BLINDED_VALUE>>
    ELSE IF type = HELLO THEN <<SERVICE_NAME, COORDINATES>>
    ELSE IF type = REGION_UPDATE THEN <<SERVICE_NAME, REGION>>
    ELSE IF type = HEARTBEAT THEN <<SERVICE_NAME>> ELSE << >>

\* Mutant: the payload's length is not looked at.
AnyPayload == TRUE

PayloadFits == cursor + payload_len <= Len(data)

\* The payload fits too: the message is valid, and its handler runs.
ValidatePayload ==
    /\ pc = "tlvs" /\ i >= num_tlvs
    /\ payload_offset' = cursor
    /\ IF PayloadFits
       THEN /\ pc' = "find" /\ wanted' = Lookups(Cell(0)) /\ got' = Nothing
            /\ i' = 0 /\ cursor' = HeaderSize
            /\ UNCHANGED <<num_tlvs, payload_len, marks>>
       ELSE Refuse /\ UNCHANGED <<wanted, got>>
    /\ UNCHANGED <<wire, data, origin, hop, key, reach>>

\* The next lookup starts from the first TLV again.
NextLookup ==
    /\ wanted' = Tail(wanted) /\ i' = 0 /\ cursor' = HeaderSize

\* One round of findTlv for the type looked up: past a TLV of another type, or
\* the getter's answer, or the end.
FindStep ==
    /\ pc = "find" /\ wanted # << >>
    /\ IF i >= num_tlvs THEN NextLookup /\ UNCHANGED <<got, reach>>
       ELSE LET len == Cell(cursor + 1)
                start == cursor + TlvHeaderSize
                t == Head(wanted)
            IN  IF Cell(cursor) # t
                THEN /\ cursor' = start + len /\ i' = i + 1
                     /\ Read(start) /\ UNCHANGED <<wanted, got>>
                ELSE /\ NextLookup
                     /\ IF len < Need(t) THEN Read(start) /\ UNCHANGED got
                        ELSE /\ got' = [got EXCEPT ![t] =
                                   SubSeq(data, start + 1, start + Size(t, len))]
                             /\ Read(start + Size(t, len))
    /\ UNCHANGED <<wire, data, pc, num_tlvs, payload_len, payload_offset, origin,
                   hop, key, marks>>

FindDone ==
    /\ pc = "find" /\ wanted = << >>
    /\ pc' = "handle"
    /\ UNCHANGED <<wire, data, parserVars, origin, hop, key, marks, reach>>

-----------------------------------------------------------------------------
\* The handler, as far as the next datagram goes.

Payload == SubSeq(data, payload_offset + 1, payload_offset + payload_len)

\* Mutant: a name that arrives with a blinded value is always hashed.
KeyRehashed(he) == IF he /\ got[BLINDED_VALUE] # Absent THEN HashName ELSE got[SERVICE_NAME]

\* FROM_CHILD or FROM_PARENT is set.
FromBroker == got[FLAGS] # Absent /\ (got[FLAGS][2] \div 2) % 4 # 0

\* Mutant: the test for brokers is the wrong way round.
KeyHashedLate(he) ==
    IF he /\ got[BLINDED_VALUE] # Absent /\ FromBroker
    THEN HashName ELSE got[SERVICE_NAME]

\* The name a publication is filed and forwarded under: a broker with a key
\* hashes it unless it comes from a broker.
PubKey(he) ==
    IF he /\ got[BLINDED_VALUE] # Absent /\ ~FromBroker
    THEN HashName ELSE got[SERVICE_NAME]

\* Missing coordinates count as the point 0, 0.
PubCoords == IF got[COORDINATES] = Absent THEN <<0, 0, 0, 0>> ELSE got[COORDINATES]

\* handlePublish forwards the publication, upward or downward.
Forward(he, flags) ==
    /\ pc = "handle" /\ Cell(0) = PUBLISH
    /\ got[SERVICE_NAME] # Absent /\ hop < MaxHops
    /\ key' = PubKey(he)
    /\ wire' = Relayed(PubKey(he), PubCoords, Payload, got[BLINDED_VALUE], flags)
    /\ hop' = hop + 1 /\ pc' = "sent" /\ Read(payload_offset + payload_len)
    /\ UNCHANGED <<data, parserVars, origin, marks>>

\* Everything else that a handler does ends the datagram's way.
Finish ==
    /\ pc = "handle" /\ pc' = "done"
    /\ UNCHANGED <<wire, data, parserVars, origin, hop, key, marks, reach>>

FROM_CHILD == <<0, 2>>
FROM_PARENT == <<0, 4>>

Next ==
    \/ ClientSends \/ GarbageArrives \/ Receive \/ Header \/ ValidateTlv
    \/ ValidatePayload \/ FindStep \/ FindDone \/ Finish
    \/ \E he \in BOOLEAN : \E flags \in {FROM_CHILD, FROM_PARENT} : Forward(he, flags)

Spec == Init /\ [][Next]_vars

-----------------------------------------------------------------------------
\* No read passes the end of the datagram, whatever its bytes say: the lengths
\* validated once are the ones every later search walks over (TlvMessage,
\* findTlv and the getters; main_fixed.tex:198).
InBounds == reach <= Len(data)

\* A datagram the buffer cut is refused, so no handler sees half a message.
TruncatedRefused ==
    Len(data) < Len(wire) /\ origin # Absent => pc \notin {"find", "handle", "done"}

\* A message the builder made and the buffer holds is never refused, even if
\* its name was too long for a 16-bit length.
BuiltIsValid == pc = "refused" /\ origin # Absent => Len(data) < Len(wire)

\* The narrowed value of a field that was sent.
Narrow(v) == IF v = Absent THEN Absent ELSE SubSeq(v, 1, Len(v) % CellBase)

\* What a handler reads is what the client wrote, however many brokers rebuilt
\* the message: coordinates, payload and blinded values are the client's, and
\* the name stays what the first broker made of it.
ReadAsWritten ==
    pc = "handle" /\ origin # Absent =>
      /\ got[COORDINATES] = origin.coords
      /\ got[BLINDED_VALUE] = Narrow(origin.blind)
      /\ got[SERVICE_NAME] = IF hop = 0 THEN Narrow(origin.name) ELSE key
      /\ Payload = origin.payload

\* A relayed publication keeps the name of its first broker's choice.
OneName == [][hop >= 1 /\ hop' > hop /\ origin # Absent => key' = key]_vars

\* A publication that one broker other than its first could read, all can: it
\* grows on its first hop only, by the FLAGS and the longer name.
GrowsOnce == pc = "refused" /\ origin # Absent => hop <= 1
=============================================================================
