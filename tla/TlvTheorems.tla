---------------------------- MODULE TlvTheorems ----------------------------
(***************************************************************************)
(* The parser reads no cell behind the datagram, for every datagram, every *)
(* buffer and every number of relays; and what the builder wrote is refused*)
(* exactly if the buffer cut it, and otherwise read as it was written.     *)
(***************************************************************************)
EXTENDS TlvMessage, FiniteSetTheorems, SequenceTheorems, TLAPS

\* Where the k-th TLV begins; behind the last one validated lies end.
Start(k, end) == IF k <= Len(marks) THEN marks[k] ELSE end

\* The validated TLVs follow each other from the header to end, inside the data.
Chain(end) ==
    /\ Start(1, end) = HeaderSize
    /\ \A k \in 1 .. Len(marks) :
         /\ Start(k + 1, end) = marks[k] + TlvHeaderSize + Cell(marks[k] + 1)
         /\ Start(k + 1, end) <= Len(data)

\* While the TLVs are validated, the cursor is the end of the chain.
Validating ==
    pc = "tlvs" => /\ Chain(cursor) /\ Len(marks) = i
                   /\ cursor <= Len(data) /\ i <= num_tlvs

\* A search walks over the chain that was validated.
Searching ==
    pc = "find" => /\ Chain(payload_offset) /\ Len(marks) = num_tlvs
                   /\ i <= num_tlvs /\ cursor = Start(i + 1, payload_offset)

PayloadInside ==
    pc \in {"find", "handle"} => payload_offset + payload_len <= Len(data)

TlvInv == TypeOK /\ InBounds /\ Validating /\ Searching /\ PayloadInside

-----------------------------------------------------------------------------
LEMMA CellsAreNat == Cells \subseteq Nat /\ 0 \in Cells /\ TlvTypes \subseteq Cells
BY CellAssumption
DEF Cells, TlvTypes, COORDINATES, FLAGS, SERVICE_NAME, REGION, BLINDED_VALUE,
    BLINDED_VALUE_HI

\* The low part of a number is a cell.
LEMMA Narrowed ==
    ASSUME NEW n \in Nat
    PROVE  n % CellBase \in Cells /\ n % CellBase \in Nat /\ n % CellBase <= n
BY CellAssumption DEF Cells, BLINDED_VALUE_HI

\* A piece of a datagram is made of its cells.
LEMMA Within ==
    ASSUME NEW v \in Seq(Cells), NEW first \in Nat \ {0}, NEW last \in Nat,
           last <= Len(v)
    PROVE  SubSeq(v, first, last) \in Seq(Cells)
<1>1. \A n \in first .. last : v[n] \in Cells
  OBVIOUS
<1> QED BY <1>1, SubSeqProperties

\* addTlv makes cells of cells.
LEMMA TlvOfCells ==
    ASSUME NEW t \in TlvTypes, NEW v \in Optional
    PROVE  Tlv(t, v) \in Seq(Cells)
<1>1. CASE v = Absent
  BY <1>1 DEF Tlv
<1>2. CASE v # Absent
  <2>1. v \in Seq(Cells) /\ Len(v) \in Nat
    BY <1>2 DEF Optional
  <2>2. t \in Cells /\ Len(v) % CellBase \in Cells /\ Len(v) % CellBase <= Len(v)
    BY <2>1, Narrowed, CellsAreNat
  <2>3. Len(v) % CellBase \in Nat /\ 1 \in Nat \ {0}
    BY <2>1, Narrowed
  <2>4. SubSeq(v, 1, Len(v) % CellBase) \in Seq(Cells)
    BY <2>1, <2>2, <2>3, Within
  <2> QED BY <1>2, <2>2, <2>4 DEF Tlv
<1> QED BY <1>1, <1>2

LEMMA HighDigits == \A l \in Nat, c \in Nat \ {0} : l \div c \in Nat
OBVIOUS

\* build makes cells of cells.
LEMMA BuildOfCells ==
    ASSUME NEW type \in Cells, NEW payload \in Seq(Cells),
           NEW a \in Seq(Cells), NEW b \in Seq(Cells), NEW c \in Seq(Cells),
           NEW d \in Seq(Cells), NEW e \in Seq(Cells)
    PROVE  Build(type, <<a, b, c, d, e>>, payload) \in Seq(Cells)
<1> DEFINE tlvs == <<a, b, c, d, e>>
<1>1. Count(tlvs) \in Nat
  <2>1. IsFiniteSet({n \in 1 .. 5 : tlvs[n] # << >>})
    <3> DEFINE some == {n \in 1 .. 5 : tlvs[n] # << >>}
    <3>1. some \subseteq 1 .. 5
      OBVIOUS
    <3>2. IsFiniteSet(1 .. 5)
      BY FS_Interval, 1 \in Int, 5 \in Int
    <3> HIDE DEF some
    <3>3. IsFiniteSet(some)
      BY <3>1, <3>2, FS_Subset
    <3> QED BY <3>3 DEF some
  <2> QED BY <2>1, FS_CardinalityType DEF Count
<1>2. Count(tlvs) % CellBase \in Cells
  BY <1>1, Narrowed
<1>3. Len(payload) % CellBase \in Cells /\ (Len(payload) \div CellBase) % CellBase \in Cells
  <2>1. PICK l \in Nat : l = Len(payload)
    OBVIOUS
  <2>2. PICK base \in Nat \ {0} : base = CellBase
    BY CellAssumption DEF BLINDED_VALUE_HI
  <2>3. l \div base \in Nat
    BY <2>1, <2>2, HighDigits, Zenon
  <2>4. Len(payload) \in Nat /\ Len(payload) \div CellBase \in Nat
    BY <2>1, <2>2, <2>3, Zenon
  <2> QED BY <2>4, Narrowed
<1>4. <<type, Count(tlvs) % CellBase, (Len(payload) \div CellBase) % CellBase,
        Len(payload) % CellBase>> \in Seq(Cells)
  BY <1>2, <1>3
<1> QED BY <1>4 DEF Build
\* What a client sends is made of cells.
LEMMA SentOfCells ==
    ASSUME NEW m \in Messages
    PROVE  Sent(m) \in Seq(Cells)
<1>1. /\ m.type \in Cells /\ m.name \in Optional /\ m.coords \in Optional
      /\ m.flags \in Optional /\ m.blind \in Optional /\ m.hi \in Optional
      /\ m.payload \in Seq(Cells)
  BY CellAssumption DEF MessageType, Optional
<1> QED BY <1>1, TlvOfCells, BuildOfCells DEF Sent, TlvTypes

\* And so is what a broker forwards.
LEMMA RelayedOfCells ==
    ASSUME NEW name \in Optional, NEW coords \in Optional, NEW payload \in Seq(Cells),
           NEW blind \in Optional, NEW flags \in Optional
    PROVE  Relayed(name, coords, payload, blind, flags) \in Seq(Cells)
<1>1. PUBLISH \in Cells /\ << >> \in Seq(Cells)
  BY CellAssumption DEF Cells, PUBLISH, BLINDED_VALUE_HI
<1> QED BY <1>1, TlvOfCells, BuildOfCells DEF Relayed, TlvTypes

LEMMA CellIsNat ==
    ASSUME TypeOK, NEW o \in Nat
    PROVE  Cell(o) \in Cells /\ Cell(o) \in Nat
<1>1. CASE o < Len(data)
  <2>1. data \in Seq(Cells) /\ o + 1 \in 1 .. Len(data)
    BY <1>1 DEF TypeOK
  <2>2. data[o + 1] \in Cells
    BY <2>1
  <2> QED BY <1>1, <2>2, CellsAreNat DEF Cell
<1>2. CASE ~(o < Len(data))
  BY <1>2, CellsAreNat DEF Cell
<1> QED BY <1>1, <1>2

-----------------------------------------------------------------------------
\* A datagram sets out and is cut to the buffer.
LEMMA ArrivalKeeps ==
    ASSUME TlvInv, ClientSends \/ GarbageArrives \/ Receive
    PROVE  TlvInv'
<1>1. CASE ClientSends
  <2>1. wire' \in Seq(Cells) /\ origin' \in MessageType
    BY <1>1, SentOfCells, CellAssumption DEF ClientSends
  <2> QED
    BY <1>1, <2>1 DEF ClientSends, TlvInv, TypeOK, InBounds, Validating, Searching,
                      PayloadInside, parserVars
<1>2. CASE GarbageArrives
  BY <1>2, CellAssumption
  DEF GarbageArrives, TlvInv, TypeOK, InBounds, Validating, Searching,
      PayloadInside, parserVars
<1>3. CASE Receive
  <2>1. data' \in Seq(Cells) /\ Len(data') \in Nat
    BY <1>3, Within, CellAssumption DEF Receive, TlvInv, TypeOK
  <2> QED
    BY <1>3, <2>1 DEF Receive, TlvInv, TypeOK, InBounds, Validating, Searching,
                      PayloadInside, parserVars
<1> QED BY <1>1, <1>2, <1>3

\* The header starts an empty chain.
LEMMA HeaderKeeps ==
    ASSUME TlvInv, Header
    PROVE  TlvInv'
<1>1. CASE Len(data) < HeaderSize
  BY <1>1 DEF Header, Refuse, TlvInv, TypeOK, InBounds, Validating, Searching,
              PayloadInside
<1>2. CASE ~(Len(data) < HeaderSize)
  <2>1. Cell(1) \in Nat /\ Cell(2) \in Nat /\ Cell(3) \in Nat
    BY CellIsNat DEF TlvInv
  <2>2. Cell(2) * CellBase + Cell(3) \in Nat
    BY <2>1, CellAssumption
  <2>3. TypeOK'
    BY <1>2, <2>1, <2>2 DEF Header, Read, TlvInv, TypeOK, HeaderSize
  <2>4. InBounds'
    BY <1>2 DEF Header, Read, TlvInv, TypeOK, InBounds, HeaderSize
  <2>5. Validating'
    BY <1>2, <2>1 DEF Header, TlvInv, TypeOK, Validating, Chain, Start, HeaderSize
  <2> QED
    BY <1>2, <2>3, <2>4, <2>5 DEF Header, TlvInv, Searching, PayloadInside
<1> QED BY <1>1, <1>2

\* A TLV that fits makes the chain longer by one.
LEMMA ValidateKeeps ==
    ASSUME TlvInv, ValidateTlv
    PROVE  TlvInv'
<1>1. CASE ~HeaderFits
  BY <1>1 DEF ValidateTlv, Refuse, TlvInv, TypeOK, InBounds, Validating, Searching,
              PayloadInside
<1>2. CASE HeaderFits
  <2>1. cursor \in Nat /\ cursor + 1 \in Nat /\ TypeOK
    BY DEF TlvInv, TypeOK
  <2>2. Cell(cursor + 1) \in Nat
    BY <2>1, CellIsNat
  <2>3. PICK end \in Nat : end = After /\ end >= cursor
    BY <2>1, <2>2 DEF After, TlvHeaderSize
  <2>4. InBounds' /\ reach' \in Nat
    BY <1>2 DEF ValidateTlv, Read, HeaderFits, TlvInv, TypeOK, InBounds, TlvHeaderSize
  <2>5. CASE end > Len(data)
    BY <1>2, <2>3, <2>4, <2>5
    DEF ValidateTlv, Refuse, TlvInv, TypeOK, Validating, Searching, PayloadInside
  <2>6. CASE ~(end > Len(data))
    <3>1. /\ marks' = Append(marks, cursor) /\ cursor' = end /\ i' = i + 1
          /\ UNCHANGED <<data, pc, num_tlvs, payload_len>> /\ pc = "tlvs"
          /\ i < num_tlvs
      BY <1>2, <2>3, <2>6 DEF ValidateTlv
    <3>2. TypeOK'
      BY <2>1, <2>3, <2>4, <3>1 DEF ValidateTlv, TypeOK
    <3>3. /\ marks \in Seq(Nat) /\ Len(marks') = Len(marks) + 1
          /\ \A k \in 1 .. Len(marks) : marks'[k] = marks[k]
          /\ marks'[Len(marks) + 1] = cursor
      BY <2>1, <3>1 DEF TypeOK
    <3>4. Chain(cursor) /\ Len(marks) = i /\ cursor <= Len(data)
      BY <3>1 DEF TlvInv, Validating
    <3>5. \A k \in 1 .. Len(marks) + 1 : Start(k, end)' = Start(k, cursor)
      BY <3>3 DEF Start
    <3>6. Chain(end)'
      <4>1. Start(1, end)' = HeaderSize
        BY <3>3, <3>4, <3>5 DEF Chain
      <4>2. ASSUME NEW k \in 1 .. Len(marks')
            PROVE  (/\ Start(k + 1, end) = marks[k] + TlvHeaderSize + Cell(marks[k] + 1)
                    /\ Start(k + 1, end) <= Len(data))'
        <5> \A o : Cell(o)' = Cell(o)
          BY <3>1 DEF Cell
        <5>1. CASE k = Len(marks) + 1
          <6>1. Start(k + 1, end)' = end /\ marks'[k] = cursor
            BY <3>3, <5>1 DEF Start
          <6> QED BY <2>1, <2>3, <2>6, <3>1, <6>1 DEF After
        <5>2. CASE k \in 1 .. Len(marks)
          <6>1. Start(k + 1, end)' = Start(k + 1, cursor)
            BY <3>3, <3>5, <5>2
          <6> QED BY <3>1, <3>3, <3>4, <5>2, <6>1 DEF Chain
        <5> QED BY <3>3, <5>1, <5>2
      <4> QED BY <4>1, <4>2 DEF Chain
    <3>7. Validating'
      BY <2>1, <2>3, <2>6, <3>1, <3>2, <3>3, <3>4, <3>6 DEF Validating, TypeOK
    <3> QED BY <2>4, <3>1, <3>2, <3>7 DEF TlvInv, Searching, PayloadInside
  <2> QED BY <2>3, <2>5, <2>6
<1> QED BY <1>1, <1>2

\* A handler looks up types that the model has.
LEMMA LookupsTyped ==
    ASSUME NEW type
    PROVE  Lookups(type) \in Seq(TlvTypes)
<1>1. /\ SERVICE_NAME \in TlvTypes /\ COORDINATES \in TlvTypes /\ FLAGS \in TlvTypes
      /\ REGION \in TlvTypes /\ BLINDED_VALUE \in TlvTypes
      /\ BLINDED_VALUE_HI \in TlvTypes
  BY DEF TlvTypes
<1>2. /\ <<SERVICE_NAME, COORDINATES, FLAGS, BLINDED_VALUE, BLINDED_VALUE_HI>> \in Seq(TlvTypes)
      /\ <<SERVICE_NAME, COORDINATES, FLAGS, BLINDED_VALUE>> \in Seq(TlvTypes)
      /\ <<SERVICE_NAME, COORDINATES>> \in Seq(TlvTypes)
      /\ <<SERVICE_NAME, REGION>> \in Seq(TlvTypes)
      /\ <<SERVICE_NAME>> \in Seq(TlvTypes) /\ << >> \in Seq(TlvTypes)
  BY <1>1
<1> QED BY <1>2 DEF Lookups

\* The payload behind the chain fits: the searches may begin.
LEMMA PayloadKeeps ==
    ASSUME TlvInv, ValidatePayload
    PROVE  TlvInv'
<1>1. /\ pc = "tlvs" /\ i >= num_tlvs /\ payload_offset' = cursor
      /\ UNCHANGED <<wire, data, origin, hop, key, reach>>
  BY DEF ValidatePayload
<1>2. Chain(cursor) /\ Len(marks) = i /\ i <= num_tlvs
  BY <1>1 DEF TlvInv, Validating
<1>3. CASE PayloadFits
  <2>1. /\ pc' = "find" /\ wanted' = Lookups(Cell(0)) /\ got' = Nothing
        /\ i' = 0 /\ cursor' = HeaderSize
        /\ UNCHANGED <<num_tlvs, payload_len, marks>>
    BY <1>3 DEF ValidatePayload
  <2>2. wanted' \in Seq(TlvTypes)
    BY <2>1, LookupsTyped
  <2>3. got' \in [TlvTypes -> Optional]
    BY <2>1 DEF Nothing, Optional
  <2>4. TypeOK'
    BY <1>1, <2>1, <2>2, <2>3 DEF TlvInv, TypeOK, HeaderSize
  <2>5. PICK end \in Nat : end = cursor
    BY DEF TlvInv, TypeOK
  <2>6. Chain(end)' /\ Start(1, end)' = HeaderSize
    BY <1>1, <1>2, <2>1, <2>5 DEF Chain, Start, Cell
  <2>7. Searching'
    BY <1>1, <1>2, <2>1, <2>4, <2>5, <2>6 DEF Searching, TlvInv, TypeOK
  <2> QED
    BY <1>1, <1>3, <2>1, <2>4, <2>7
    DEF TlvInv, TypeOK, InBounds, Validating, PayloadInside, PayloadFits
<1>4. CASE ~PayloadFits
  BY <1>1, <1>4
  DEF ValidatePayload, Refuse, TlvInv, TypeOK, InBounds, Validating, Searching,
      PayloadInside
<1> QED BY <1>3, <1>4

\* A search reads the TLV it stands on, and steps to the next of the chain.
LEMMA FindKeeps ==
    ASSUME TlvInv, FindStep
    PROVE  TlvInv'
<1>1. /\ TypeOK /\ pc = "find" /\ wanted # << >>
      /\ Chain(payload_offset) /\ Len(marks) = num_tlvs
      /\ i <= num_tlvs /\ cursor = Start(i + 1, payload_offset)
      /\ UNCHANGED <<wire, data, pc, num_tlvs, payload_len, payload_offset, origin,
                     hop, key, marks>>
  BY DEF FindStep, TlvInv, Searching
<1>2. wanted \in Seq(TlvTypes) /\ Head(wanted) \in TlvTypes /\ Tail(wanted) \in Seq(TlvTypes)
  BY <1>1, HeadTailProperties DEF TypeOK
<1>3. Chain(payload_offset)' /\ Start(1, payload_offset)' = HeaderSize
  BY <1>1 DEF Chain, Start, Cell
<1>4. SUFFICES /\ i' \in Nat /\ cursor' \in Nat /\ reach' \in Nat
               /\ wanted' \in Seq(TlvTypes) /\ got' \in [TlvTypes -> Optional]
               /\ reach' <= Len(data) /\ i' <= num_tlvs
               /\ cursor' = Start(i' + 1, payload_offset)
  <2>1. TypeOK'
    BY <1>1, <1>4 DEF TypeOK
  <2>2. cursor' = Start(i + 1, payload_offset)'
    BY <1>1, <1>4 DEF Start
  <2> QED
    BY <1>1, <1>3, <1>4, <2>1, <2>2
    DEF TlvInv, InBounds, Validating, Searching, PayloadInside
<1>5. CASE i >= num_tlvs
  <2>1. /\ wanted' = Tail(wanted) /\ i' = 0 /\ cursor' = HeaderSize
        /\ UNCHANGED <<got, reach>>
    BY <1>5 DEF FindStep, NextLookup
  <2>2. num_tlvs \in Nat /\ reach \in Nat /\ got \in [TlvTypes -> Optional] /\ reach <= Len(data)
    BY <1>1 DEF TypeOK, TlvInv, InBounds
  <2> QED BY <1>1, <1>2, <2>1, <2>2 DEF Chain, HeaderSize
<1>6. CASE ~(i >= num_tlvs)
  <2> DEFINE len == Cell(cursor + 1)
             start == cursor + TlvHeaderSize
             t == Head(wanted)
  <2>1. /\ i + 1 \in 1 .. Len(marks) /\ cursor = marks[i + 1]
        /\ cursor \in Nat /\ i \in Nat
    BY <1>1, <1>6 DEF Start, TypeOK
  <2>2. /\ Start(i + 2, payload_offset) = start + len
        /\ start + len <= Len(data)
    BY <1>1, <2>1 DEF Chain
  <2>3. len \in Nat /\ start \in Nat /\ Need(t) \in Nat /\ Len(data) \in Nat
    <3>1. cursor + 1 \in Nat /\ start \in Nat /\ data \in Seq(Cells)
      BY <1>1, <2>1 DEF TypeOK, TlvHeaderSize
    <3>2. len \in Nat
      BY <1>1, <3>1, CellIsNat
    <3>3. Need(t) \in Nat
      BY DEF Need
    <3> QED BY <3>1, <3>2, <3>3
  <2>4. start <= Len(data) /\ reach <= Len(data) /\ reach \in Nat
    BY <1>1, <2>2, <2>3 DEF TlvInv, InBounds, TypeOK
  <2>5. CASE Cell(cursor) # t
    <3>1. cursor' = start + len /\ i' = i + 1 /\ Read(start) /\ UNCHANGED <<wanted, got>>
      BY <1>6, <2>5 DEF FindStep
    <3> HIDE DEF len, start, t
    <3> QED BY <1>1, <1>2, <1>6, <2>1, <2>2, <2>3, <2>4, <3>1 DEF TypeOK, Read
  <2>6. CASE Cell(cursor) = t
    <3>1. /\ NextLookup
          /\ IF len < Need(t) THEN Read(start) /\ UNCHANGED got
             ELSE /\ got' = [got EXCEPT ![t] =
                        SubSeq(data, start + 1, start + Size(t, len))]
                  /\ Read(start + Size(t, len))
      BY <1>6, <2>6 DEF FindStep
    <3>2. /\ i' = 0 /\ cursor' = HeaderSize /\ wanted' = Tail(wanted)
          /\ cursor' = Start(i' + 1, payload_offset)
      BY <1>1, <3>1 DEF NextLookup, Chain
    <3>3. reach' \in Nat /\ reach' <= Len(data) /\ got' \in [TlvTypes -> Optional]
      <4> HIDE DEF len, start, t
      <4>1. CASE len < Need(t)
        BY <1>1, <2>3, <2>4, <3>1, <4>1 DEF Read, TypeOK
      <4>2. CASE ~(len < Need(t))
        <5>1. Size(t, len) \in Nat /\ Size(t, len) <= len
          BY <2>3, <4>2 DEF Size
        <5>2. SubSeq(data, start + 1, start + Size(t, len)) \in Seq(Cells)
          <6>1. /\ data \in Seq(Cells) /\ start + 1 \in Nat \ {0}
                /\ start + Size(t, len) \in Nat /\ start + Size(t, len) <= Len(data)
            <7>1. data \in Seq(Cells)
              BY <1>1 DEF TypeOK
            <7>2. /\ start + 1 \in Nat \ {0} /\ start + Size(t, len) \in Nat
                  /\ start + Size(t, len) <= Len(data)
              BY <2>2, <2>3, <5>1
            <7> QED BY <7>1, <7>2
          <6> QED BY <6>1, Within
        <5>3. got' \in [TlvTypes -> Optional]
          BY <1>1, <1>2, <3>1, <4>2, <5>2 DEF TypeOK, Optional, t
        <5> QED BY <2>2, <2>3, <2>4, <3>1, <4>2, <5>1, <5>3 DEF Read
      <4> QED BY <4>1, <4>2
    <3> QED BY <1>1, <1>2, <3>2, <3>3 DEF HeaderSize, TypeOK
  <2> QED BY <2>5, <2>6
<1> QED BY <1>1, <1>5, <1>6 DEF TypeOK

-----------------------------------------------------------------------------
\* The handler reads the payload it was promised, and builds the next datagram.
LEMMA ForwardKeeps ==
    ASSUME TlvInv, NEW he \in BOOLEAN, NEW flags \in {FROM_CHILD, FROM_PARENT},
           Forward(he, flags)
    PROVE  TlvInv'
<1>1. /\ TypeOK /\ pc = "handle" /\ got[SERVICE_NAME] # Absent
      /\ payload_offset + payload_len <= Len(data) /\ reach <= Len(data)
  BY DEF TlvInv, Forward, PayloadInside, InBounds
<1>2. Payload \in Seq(Cells)
  <2>1. /\ payload_offset + 1 \in Nat \ {0} /\ payload_offset + payload_len \in Nat
        /\ data \in Seq(Cells)
    BY <1>1 DEF TypeOK
  <2> QED BY <1>1, <2>1, Within DEF Payload
<1>3. /\ SERVICE_NAME \in TlvTypes /\ COORDINATES \in TlvTypes
      /\ BLINDED_VALUE \in TlvTypes
  BY DEF TlvTypes
<1>4. /\ got[SERVICE_NAME] \in Optional /\ got[COORDINATES] \in Optional
      /\ got[BLINDED_VALUE] \in Optional
  BY <1>1, <1>3 DEF TypeOK
<1>5. PubKey(he) \in Optional
  BY <1>4, CellAssumption DEF PubKey, Optional
<1>6. PubCoords \in Optional
  BY <1>4, CellsAreNat DEF PubCoords, Optional
<1>7. flags \in Optional
  <2>1. 0 \in Cells /\ 2 \in Cells /\ 4 \in Cells
    BY CellAssumption DEF Cells, BLINDED_VALUE_HI
  <2>2. <<0, 2>> \in Seq(Cells) /\ <<0, 4>> \in Seq(Cells)
    BY <2>1
  <2> QED BY <2>2 DEF FROM_CHILD, FROM_PARENT, Optional
<1>8. wire' \in Seq(Cells) /\ key' \in Optional
  BY <1>2, <1>4, <1>5, <1>6, <1>7, RelayedOfCells DEF Forward
<1>9. reach' \in Nat /\ reach' <= Len(data)
  BY <1>1 DEF Forward, Read, TypeOK
<1> QED
  BY <1>1, <1>8, <1>9
  DEF Forward, parserVars, TlvInv, TypeOK, InBounds, Validating, Searching,
      PayloadInside

LEMMA TlvInvStep ==
    ASSUME TlvInv, [Next]_vars
    PROVE  TlvInv'
<1>1. CASE ClientSends \/ GarbageArrives \/ Receive
  BY <1>1, ArrivalKeeps
<1>2. CASE Header \/ ValidateTlv \/ ValidatePayload
  BY <1>2, HeaderKeeps, ValidateKeeps, PayloadKeeps
<1>3. CASE FindStep
  BY <1>3, FindKeeps
<1>4. CASE FindDone \/ Finish \/ UNCHANGED vars
  BY <1>4
  DEF FindDone, Finish, vars, parserVars, TlvInv, TypeOK, InBounds, Validating,
      Searching, PayloadInside, Chain, Start, Cell
<1>5. CASE \E he \in BOOLEAN : \E flags \in {FROM_CHILD, FROM_PARENT} : Forward(he, flags)
  BY <1>5, ForwardKeeps
<1> QED BY <1>1, <1>2, <1>3, <1>4, <1>5 DEF Next

\* The parser's invariant, for every message, every garbage and every buffer.
THEOREM ParserInvariant == Spec => []TlvInv
<1>1. Init => TlvInv
  <2>1. Nothing \in [TlvTypes -> Optional]
    BY DEF Nothing, Optional
  <2> QED
    BY <2>1 DEF Init, TlvInv, TypeOK, Optional, InBounds, Validating, Searching,
                PayloadInside
<1>2. TlvInv /\ [Next]_vars => TlvInv'
  BY TlvInvStep
<1> QED BY <1>1, <1>2, PTL DEF Spec

\* No read of the constructor, of findTlv, of a getter or of the handler passes
\* the end of the datagram (TlvMessage.cpp).
THEOREM ReadsStayInside == Spec => []InBounds
<1>1. TlvInv => InBounds
  BY DEF TlvInv
<1> QED BY <1>1, ParserInvariant, PTL

\* Whatever arrives, the parser's counts, offsets and results keep their types.
THEOREM ParserTypes == Spec => []TypeOK
<1>1. TlvInv => TypeOK
  BY DEF TlvInv
<1> QED BY <1>1, ParserInvariant, PTL

-----------------------------------------------------------------------------
\* What the builder wrote.

\* The two cells of the header that count the payload.
Both(high, low) == high * CellBase + low

ClientOrder == <<SERVICE_NAME, COORDINATES, FLAGS, BLINDED_VALUE, BLINDED_VALUE_HI>>
BrokerOrder == <<SERVICE_NAME, COORDINATES, BLINDED_VALUE, FLAGS, BLINDED_VALUE_HI>>

\* A message by its fields: the types in the order of the addTlv calls, the
\* narrowed values, and where and as the how manieth each TLV begins.
Forms ==
    [type : Cells, ts : {ClientOrder, BrokerOrder}, vs : [1 .. 5 -> Optional],
     payload : Seq(Cells), off : [1 .. 6 -> Nat], cnt : [1 .. 6 -> Nat]]

\* Present TLVs lie behind each other, absent ones take no room.
Steps(f) ==
    /\ f.off[1] = HeaderSize /\ f.cnt[1] = 0
    /\ \A n \in 1 .. 5 :
         IF f.vs[n] = Absent
         THEN f.off[n + 1] = f.off[n] /\ f.cnt[n + 1] = f.cnt[n]
         ELSE /\ f.off[n + 1] = f.off[n] + TlvHeaderSize + Len(f.vs[n])
              /\ f.cnt[n + 1] = f.cnt[n] + 1

\* At offset o of w stands a TLV of type t and value v.
TlvAt(w, o, t, v) ==
    /\ w[o + 1] = t /\ w[o + 2] = Len(v)
    /\ \A k \in 1 .. Len(v) : w[o + TlvHeaderSize + k] = v[k]

FieldAt(w, f, n) == TlvAt(w, f.off[n], f.ts[n], f.vs[n])

HeaderAt(w, f) ==
    /\ w[1] = f.type /\ w[2] = f.cnt[6]
    /\ Both(w[3], w[4]) = Len(f.payload)

PayloadAt(w, f) == \A k \in 1 .. Len(f.payload) : w[f.off[6] + k] = f.payload[k]

\* w is the message f.
Layout(w, f) ==
    /\ f \in Forms /\ w \in Seq(Cells) /\ Steps(f)
    /\ Len(w) = f.off[6] + Len(f.payload)
    /\ HeaderAt(w, f) /\ PayloadAt(w, f)
    /\ \A n \in 1 .. 5 : f.vs[n] # Absent => FieldAt(w, f, n)

-----------------------------------------------------------------------------
\* A number below CellBase^2 is the two cells the header gives it.
LEMMA TwoCells ==
    ASSUME NEW payload \in Seq(Cells), Countable(payload)
    PROVE  Both((Len(payload) \div CellBase) % CellBase, Len(payload) % CellBase)
             = Len(payload)
<1>1. PICK c \in Nat : c = CellBase /\ c > 0
  BY CellAssumption DEF BLINDED_VALUE_HI
<1>2. PICK n \in Nat : n = Len(payload) /\ n < c * c
  BY <1>1 DEF Countable
<1>3. PICK q \in Int : q = n \div c
  BY <1>1
<1>4. PICK r \in Int : r = n % c /\ 0 <= r /\ r < c
  BY <1>1
<1>5. n = c * q + r
  BY <1>1, <1>3, <1>4
<1>6. 0 <= q
  BY <1>1, <1>3, <1>4, <1>5
<1>7. q < c
  BY <1>1, <1>2, <1>4, <1>5, <1>6
<1>8. q % c = q
  BY <1>1, <1>6, <1>7
<1> QED BY <1>1, <1>2, <1>3, <1>4, <1>5, <1>8 DEF Both

\* x is the beginning of w.
Begins(x, w) == Len(x) <= Len(w) /\ \A k \in 1 .. Len(x) : w[k] = x[k]

LEMMA BeginsConcat ==
    ASSUME NEW x \in Seq(Cells), NEW y \in Seq(Cells)
    PROVE  /\ x \o y \in Seq(Cells) /\ Len(x \o y) = Len(x) + Len(y)
           /\ Begins(x, x \o y) /\ \A k \in 1 .. Len(y) : (x \o y)[Len(x) + k] = y[k]
BY ConcatProperties DEF Begins

LEMMA BeginsTransitive ==
    ASSUME NEW x \in Seq(Cells), NEW y \in Seq(Cells), NEW w \in Seq(Cells),
           Begins(x, y), Begins(y, w)
    PROVE  Begins(x, w)
BY DEF Begins

LEMMA NarrowType ==
    ASSUME NEW v \in Optional
    PROVE  /\ Narrow(v) \in Optional /\ (Narrow(v) = Absent <=> v = Absent)
           /\ v # Absent => /\ Narrow(v) \in Seq(Cells) /\ Len(Narrow(v)) \in Nat
                            /\ Len(Narrow(v)) = Len(v) % CellBase
                            /\ Len(Narrow(v)) < CellBase
<1>1. CASE v = Absent
  BY <1>1 DEF Narrow, Optional
<1>2. CASE v # Absent
  <2>1. v \in Seq(Cells) /\ Len(v) \in Nat
    BY <1>2 DEF Optional
  <2>2. PICK l \in Nat : l = Len(v) % CellBase /\ l <= Len(v) /\ l < CellBase
    <3> DEFINE l == Len(v) % CellBase
    <3>1. l \in Nat /\ l <= Len(v)
      BY <2>1, Narrowed
    <3>2. l < CellBase
      BY <2>1, CellAssumption DEF BLINDED_VALUE_HI
    <3> QED BY <3>1, <3>2
  <2>3. SubSeq(v, 1, l) \in Seq(Cells) /\ Len(SubSeq(v, 1, l)) = l
    <3>1. 1 \in Nat \ {0}
      OBVIOUS
    <3>2. SubSeq(v, 1, l) \in Seq(Cells)
      BY <2>1, <2>2, <3>1, Within
    <3> QED BY <2>1, <2>2, <3>2, SubSeqProperties
  <2>4. Narrow(v) = SubSeq(v, 1, l)
    BY <1>2, <2>2 DEF Narrow
  <2> QED BY <1>2, <2>2, <2>3, <2>4, CellAssumption DEF Optional
<1> QED BY <1>1, <1>2

\* What fits its length is not narrowed.
LEMMA NarrowShort ==
    ASSUME NEW v \in Seq(Cells), Len(v) < CellBase
    PROVE  Narrow(v) = v
<1>1. v # Absent /\ Len(v) \in Nat /\ CellBase \in Nat
  BY CellAssumption
<1>2. Len(v) % CellBase = Len(v)
  BY <1>1
<1>3. SubSeq(v, 1, Len(v)) = v
  BY SubSeqFull
<1> QED BY <1>1, <1>2, <1>3 DEF Narrow

LEMMA NarrowTwice ==
    ASSUME NEW v \in Optional
    PROVE  Narrow(Narrow(v)) = Narrow(v)
<1>1. CASE v = Absent
  BY <1>1 DEF Narrow
<1>2. CASE v # Absent
  BY <1>2, NarrowType, NarrowShort
<1> QED BY <1>1, <1>2

\* addTlv writes the type, the narrowed length and the narrowed value.
LEMMA TlvShape ==
    ASSUME NEW t \in TlvTypes, NEW v \in Optional
    PROVE  /\ Narrow(v) = Absent => Tlv(t, v) = << >>
           /\ Narrow(v) # Absent =>
                /\ Len(Tlv(t, v)) = TlvHeaderSize + Len(Narrow(v))
                /\ Tlv(t, v)[1] = t /\ Tlv(t, v)[2] = Len(Narrow(v))
                /\ \A k \in 1 .. Len(Narrow(v)) :
                     Tlv(t, v)[TlvHeaderSize + k] = Narrow(v)[k]
<1>1. CASE v = Absent
  BY <1>1, NarrowType DEF Tlv
<1>2. CASE v # Absent
  <2>1. PICK x \in Seq(Cells) : x = Narrow(v) /\ Len(x) = Len(v) % CellBase /\ x # Absent
    BY <1>2, NarrowType
  <2>2. Tlv(t, v) = <<t, Len(x)>> \o x
    BY <1>2, <2>1 DEF Tlv, Narrow
  <2>3. Len(x) \in Cells /\ t \in Cells
    BY <1>2, <2>1, CellsAreNat, Narrowed DEF Optional
  <2>4. PICK h \in Seq(Cells) : h = <<t, Len(x)>> /\ Len(h) = 2 /\ h[1] = t /\ h[2] = Len(x)
    <3>1. <<t, Len(x)>> \in Seq(Cells)
      BY <2>3
    <3> QED BY <3>1
  <2>5. /\ Len(h \o x) = 2 + Len(x) /\ (h \o x)[1] = t /\ (h \o x)[2] = Len(x)
        /\ \A k \in 1 .. Len(x) : (h \o x)[2 + k] = x[k]
    BY <2>4, BeginsConcat DEF Begins
  <2> QED BY <2>1, <2>2, <2>4, <2>5 DEF TlvHeaderSize
<1> QED BY <1>1, <1>2

\* The TLVs written before the p-th addTlv.
Before(tlvs, p) == {n \in 1 .. 5 : n < p /\ tlvs[n] # << >>}

LEMMA CountSteps ==
    ASSUME NEW tlvs
    PROVE  /\ \A p \in 1 .. 6 : Cardinality(Before(tlvs, p)) \in 0 .. 5
           /\ Cardinality(Before(tlvs, 1)) = 0
           /\ Count(tlvs) = Cardinality(Before(tlvs, 6))
           /\ \A p \in 1 .. 5 :
                Cardinality(Before(tlvs, p + 1)) =
                  IF tlvs[p] = << >> THEN Cardinality(Before(tlvs, p))
                  ELSE Cardinality(Before(tlvs, p)) + 1
<1>1. IsFiniteSet(1 .. 5) /\ Cardinality(1 .. 5) = 5
  <2>1. PICK a, b \in Int : a = 1 /\ b = 5
    OBVIOUS
  <2>2. IsFiniteSet(a .. b) /\ Cardinality(a .. b) = IF a > b THEN 0 ELSE b - a + 1
    BY FS_Interval
  <2>3. Cardinality(a .. b) = 5
    BY <2>1, <2>2
  <2> QED BY <2>1, <2>2, <2>3
<1>2. ASSUME NEW p
      PROVE  /\ IsFiniteSet(Before(tlvs, p)) /\ Cardinality(Before(tlvs, p)) \in Nat
             /\ Cardinality(Before(tlvs, p)) <= 5
  <2>1. Before(tlvs, p) \subseteq 1 .. 5
    BY DEF Before
  <2> QED BY <1>1, <2>1, FS_Subset, FS_CardinalityType
<1>3. Before(tlvs, 1) = {}
  BY DEF Before
<1>4. Before(tlvs, 6) = {n \in 1 .. 5 : tlvs[n] # << >>}
  BY DEF Before
<1>5. ASSUME NEW p \in 1 .. 5
      PROVE  Cardinality(Before(tlvs, p + 1)) =
               IF tlvs[p] = << >> THEN Cardinality(Before(tlvs, p))
               ELSE Cardinality(Before(tlvs, p)) + 1
  <2>1. CASE tlvs[p] = << >>
    <3>1. Before(tlvs, p + 1) = Before(tlvs, p)
      BY <2>1 DEF Before
    <3> QED BY <2>1, <3>1
  <2>2. CASE tlvs[p] # << >>
    <3>1. Before(tlvs, p + 1) = Before(tlvs, p) \cup {p} /\ p \notin Before(tlvs, p)
      BY <2>2 DEF Before
    <3>2. Cardinality(Before(tlvs, p) \cup {p}) = Cardinality(Before(tlvs, p)) + 1
      BY <1>2, <3>1, FS_AddElement
    <3> QED BY <2>2, <3>1, <3>2
  <2> QED BY <2>1, <2>2
<1>6. Cardinality(Before(tlvs, 1)) = 0
  BY <1>3, FS_EmptySet
<1>7. Count(tlvs) = Cardinality(Before(tlvs, 6))
  BY <1>4 DEF Count
<1>8. \A p \in 1 .. 6 : Cardinality(Before(tlvs, p)) \in 0 .. 5
  BY <1>2
<1> QED BY <1>5, <1>6, <1>7, <1>8

\* The TLV appended to x stands behind it in everything that begins like that.
LEMMA FieldWritten ==
    ASSUME NEW x \in Seq(Cells), NEW w \in Seq(Cells), NEW t \in TlvTypes,
           NEW v \in Optional, Begins(x \o Tlv(t, v), w), Narrow(v) # Absent
    PROVE  TlvAt(w, Len(x), t, Narrow(v))
<1>1. PICK y \in Seq(Cells) : y = Tlv(t, v)
  BY TlvOfCells
<1>2. PICK l \in Nat : l = Len(Narrow(v)) /\ Len(y) = 2 + l
  BY <1>1, TlvShape, NarrowType DEF TlvHeaderSize, Optional
<1>3. y[1] = t /\ y[2] = l /\ \A k \in 1 .. l : y[2 + k] = Narrow(v)[k]
  BY <1>1, <1>2, TlvShape DEF TlvHeaderSize
<1>4. \A k \in 1 .. Len(y) : w[Len(x) + k] = y[k]
  <2>1. SUFFICES ASSUME NEW k \in 1 .. Len(y)
                 PROVE  w[Len(x) + k] = y[k]
    OBVIOUS
  <2>2. /\ Len(x \o y) = Len(x) + Len(y) /\ (x \o y)[Len(x) + k] = y[k]
        /\ Len(x) + k \in 1 .. Len(x \o y)
    BY BeginsConcat
  <2> QED BY <1>1, <2>2 DEF Begins
<1>5. ASSUME NEW k \in 1 .. l
      PROVE  w[Len(x) + 2 + k] = Narrow(v)[k]
  <2>1. 2 + k \in 1 .. Len(y) /\ Len(x) + 2 + k = Len(x) + (2 + k)
    BY <1>2
  <2> QED BY <1>3, <1>4, <2>1
<1>6. 1 \in 1 .. Len(y) /\ 2 \in 1 .. Len(y)
  BY <1>2
<1>7. w[Len(x) + 1] = t /\ w[Len(x) + 2] = l
  BY <1>3, <1>4, <1>6
<1> QED BY <1>2, <1>5, <1>7 DEF TlvHeaderSize, TlvAt

\* The place after a field.
LEMMA SlotAfter == \A n \in 1 .. 5 : n \in 1 .. 6 /\ n + 1 \in 1 .. 6
OBVIOUS

LEMMA OrdersTyped ==
    ASSUME NEW ts \in {ClientOrder, BrokerOrder}
    PROVE  /\ \A n \in 1 .. 5 : ts[n] \in TlvTypes
           /\ \A n, k \in 1 .. 5 : ts[n] = ts[k] => n = k
BY DEF ClientOrder, BrokerOrder, TlvTypes, COORDINATES, FLAGS, SERVICE_NAME, REGION,
       BLINDED_VALUE, BLINDED_VALUE_HI

\* The beginnings of what build writes, a TLV longer each.
LEMMA Prefixes ==
    ASSUME NEW head \in Seq(Cells), NEW tlvs \in [1 .. 5 -> Seq(Cells)]
    PROVE  \E xs \in [1 .. 6 -> Seq(Cells)] :
             /\ xs[1] = head /\ \A n \in 1 .. 5 : xs[n + 1] = xs[n] \o tlvs[n]
             /\ xs[6] = head \o tlvs[1] \o tlvs[2] \o tlvs[3] \o tlvs[4] \o tlvs[5]
<1>1. PICK x2 \in Seq(Cells) : x2 = head \o tlvs[1]
  <2>1. head \o tlvs[1] \in Seq(Cells)
    OBVIOUS
  <2> QED BY <2>1
<1>2. PICK x3 \in Seq(Cells) : x3 = x2 \o tlvs[2]
  <2>1. x2 \o tlvs[2] \in Seq(Cells)
    OBVIOUS
  <2> QED BY <2>1
<1>3. PICK x4 \in Seq(Cells) : x4 = x3 \o tlvs[3]
  <2>1. x3 \o tlvs[3] \in Seq(Cells)
    OBVIOUS
  <2> QED BY <2>1
<1>4. PICK x5 \in Seq(Cells) : x5 = x4 \o tlvs[4]
  <2>1. x4 \o tlvs[4] \in Seq(Cells)
    OBVIOUS
  <2> QED BY <2>1
<1>5. PICK x6 \in Seq(Cells) : x6 = x5 \o tlvs[5]
  <2>1. x5 \o tlvs[5] \in Seq(Cells)
    OBVIOUS
  <2> QED BY <2>1
<1>6. PICK xs \in [1 .. 6 -> Seq(Cells)] :
         /\ xs[1] = head /\ xs[2] = x2 /\ xs[3] = x3 /\ xs[4] = x4 /\ xs[5] = x5
         /\ xs[6] = x6
  <2> DEFINE xs == <<head, x2, x3, x4, x5, x6>>
  <2>1. xs \in [1 .. 6 -> Seq(Cells)]
    OBVIOUS
  <2>2. /\ xs[1] = head /\ xs[2] = x2 /\ xs[3] = x3 /\ xs[4] = x4 /\ xs[5] = x5
        /\ xs[6] = x6
    OBVIOUS
  <2> QED BY <2>1, <2>2
<1>7. ASSUME NEW n \in 1 .. 5
      PROVE  xs[n + 1] = xs[n] \o tlvs[n]
  <2>1. \/ (n = 1 /\ n + 1 = 2) \/ (n = 2 /\ n + 1 = 3) \/ (n = 3 /\ n + 1 = 4)
        \/ (n = 4 /\ n + 1 = 5) \/ (n = 5 /\ n + 1 = 6)
    OBVIOUS
  <2>2. xs[2] = xs[1] \o tlvs[1] /\ xs[3] = xs[2] \o tlvs[2]
    BY <1>1, <1>2, <1>6, Zenon
  <2>3. xs[4] = xs[3] \o tlvs[3] /\ xs[5] = xs[4] \o tlvs[4]
    BY <1>3, <1>4, <1>6, Zenon
  <2>4. xs[6] = xs[5] \o tlvs[5]
    BY <1>5, <1>6, Zenon
  <2>5. CASE n = 1 /\ n + 1 = 2
    BY <2>2, <2>5, Zenon
  <2>6. CASE n = 2 /\ n + 1 = 3
    BY <2>2, <2>6, Zenon
  <2>7. CASE n = 3 /\ n + 1 = 4
    BY <2>3, <2>7, Zenon
  <2>8. CASE n = 4 /\ n + 1 = 5
    BY <2>3, <2>8, Zenon
  <2>9. CASE n = 5 /\ n + 1 = 6
    BY <2>4, <2>9, Zenon
  <2> QED BY <2>1, <2>5, <2>6, <2>7, <2>8, <2>9
<1>8. xs[6] = head \o tlvs[1] \o tlvs[2] \o tlvs[3] \o tlvs[4] \o tlvs[5]
  BY <1>1, <1>2, <1>3, <1>4, <1>5, <1>6, Zenon
<1>9. xs[1] = head
  BY <1>6, Zenon
<1> QED BY <1>7, <1>8, <1>9, Zenon

\* Each of them is the beginning of all that follows.
LEMMA PrefixesBegin ==
    ASSUME NEW xs \in [1 .. 6 -> Seq(Cells)], NEW tlvs \in [1 .. 5 -> Seq(Cells)],
           \A n \in 1 .. 5 : xs[n + 1] = xs[n] \o tlvs[n],
           NEW w \in Seq(Cells), Begins(xs[6], w)
    PROVE  /\ \A n \in 1 .. 5 : Len(xs[n + 1]) = Len(xs[n]) + Len(tlvs[n])
           /\ \A n \in 1 .. 6 : Begins(xs[n], w)
<1>1. ASSUME NEW n \in 1 .. 5
      PROVE  /\ Len(xs[n + 1]) = Len(xs[n]) + Len(tlvs[n])
             /\ Begins(xs[n + 1], w) => Begins(xs[n], w)
  <2>1. xs[n] \in Seq(Cells) /\ tlvs[n] \in Seq(Cells) /\ xs[n + 1] = xs[n] \o tlvs[n]
    <3>1. n \in 1 .. 6
      OBVIOUS
    <3> QED BY <3>1, Zenon
  <2>2. PICK x \in Seq(Cells) : x = xs[n]
    BY <2>1
  <2>3. PICK y \in Seq(Cells) : y = tlvs[n]
    BY <2>1
  <2>4. /\ x \o y \in Seq(Cells) /\ Len(x \o y) = Len(x) + Len(y) /\ Begins(x, x \o y)
    BY BeginsConcat
  <2>5. Begins(x \o y, w) => Begins(x, w)
    BY <2>4, BeginsTransitive
  <2> QED BY <2>1, <2>2, <2>3, <2>4, <2>5
<1>2. Begins(xs[5], w)
  <2>1. 5 \in 1 .. 5 /\ 5 + 1 = 6
    OBVIOUS
  <2> QED BY <1>1, <2>1
<1>3. Begins(xs[4], w)
  <2>1. 4 \in 1 .. 5 /\ 4 + 1 = 5
    OBVIOUS
  <2> QED BY <1>1, <1>2, <2>1
<1>4. Begins(xs[3], w)
  <2>1. 3 \in 1 .. 5 /\ 3 + 1 = 4
    OBVIOUS
  <2> QED BY <1>1, <1>3, <2>1
<1>5. Begins(xs[2], w)
  <2>1. 2 \in 1 .. 5 /\ 2 + 1 = 3
    OBVIOUS
  <2> QED BY <1>1, <1>4, <2>1
<1>6. Begins(xs[1], w)
  <2>1. 1 \in 1 .. 5 /\ 1 + 1 = 2
    OBVIOUS
  <2> QED BY <1>1, <1>5, <2>1
<1>7. ASSUME NEW n \in 1 .. 6
      PROVE  Begins(xs[n], w)
  <2>1. n = 1 \/ n = 2 \/ n = 3 \/ n = 4 \/ n = 5 \/ n = 6
    OBVIOUS
  <2> QED BY <1>2, <1>3, <1>4, <1>5, <1>6, <2>1
<1> QED BY <1>1, <1>7

\* The number of cells that a field takes.
LEMMA FieldLength ==
    ASSUME NEW t \in TlvTypes, NEW v \in Optional
    PROVE  /\ Narrow(v) = Absent => Tlv(t, v) = << >> /\ Len(Tlv(t, v)) = 0
           /\ Narrow(v) # Absent =>
                /\ Len(Tlv(t, v)) = TlvHeaderSize + Len(Narrow(v)) /\ Tlv(t, v) # << >>
                /\ Len(Narrow(v)) \in Nat
<1>1. CASE Narrow(v) = Absent
  <2>1. Tlv(t, v) = << >>
    BY <1>1, TlvShape
  <2> QED BY <1>1, <2>1
<1>2. CASE Narrow(v) # Absent
  <2>1. PICK l \in Nat : l = Len(Narrow(v))
    BY <1>2, NarrowType
  <2>2. Len(Tlv(t, v)) = 2 + l
    BY <1>2, <2>1, TlvShape DEF TlvHeaderSize
  <2>3. Tlv(t, v) # << >>
    BY <2>2
  <2> QED BY <1>2, <2>1, <2>2, <2>3 DEF TlvHeaderSize
<1> QED BY <1>1, <1>2

\* A form with given fields.
Form(type, ts, vs, payload, off, cnt) ==
    [type |-> type, ts |-> ts, vs |-> vs, payload |-> payload, off |-> off,
     cnt |-> cnt]

LEMMA FormType ==
    ASSUME NEW type \in Cells, NEW ts \in {ClientOrder, BrokerOrder},
           NEW vs \in [1 .. 5 -> Optional], NEW payload \in Seq(Cells),
           NEW off \in [1 .. 6 -> Nat], NEW cnt \in [1 .. 6 -> Nat]
    PROVE  Form(type, ts, vs, payload, off, cnt) \in Forms
BY DEF Form, Forms

LEMMA SmallRemainder ==
    ASSUME NEW n \in Nat, NEW c \in Nat, n < c
    PROVE  n % c = n
OBVIOUS

\* The header that build writes.
HeadOf(type, payload, count) ==
    <<type, count, (Len(payload) \div CellBase) % CellBase, Len(payload) % CellBase>>

IsHead(h, type, payload, count) ==
    /\ h \in Seq(Cells) /\ Len(h) = HeaderSize /\ h[1] = type /\ h[2] = count
    /\ Both(h[3], h[4]) = Len(payload)

LEMMA HeadShape ==
    ASSUME NEW type \in Cells, NEW payload \in Seq(Cells), NEW count \in Cells,
           Countable(payload)
    PROVE  IsHead(HeadOf(type, payload, count), type, payload, count)
<1> DEFINE h == HeadOf(type, payload, count)
<1>1. PICK hi \in Cells : hi = (Len(payload) \div CellBase) % CellBase
  <2>1. Len(payload) \div CellBase \in Nat
    BY CellAssumption DEF BLINDED_VALUE_HI
  <2> QED BY <2>1, Narrowed
<1>2. PICK lo \in Cells : lo = Len(payload) % CellBase
  BY Narrowed
<1>3. Both(hi, lo) = Len(payload)
  BY <1>1, <1>2, TwoCells
<1>4. h = <<type, count, hi, lo>>
  BY <1>1, <1>2 DEF HeadOf
<1>5. h \in Seq(Cells) /\ Len(h) = HeaderSize /\ h[1] = type /\ h[2] = count
  BY <1>4 DEF HeaderSize
<1>6. h[3] = hi /\ h[4] = lo
  BY <1>4
<1> QED BY <1>3, <1>5, <1>6 DEF IsHead

\* f is the form of the fields vs, whose TLVs are tlvs and prefixes xs.
FormOf(f, vs, tlvs, xs) ==
    /\ \A n \in 1 .. 5 : tlvs[n] = Tlv(f.ts[n], vs[n]) /\ f.vs[n] = Narrow(vs[n])
    /\ \A n \in 1 .. 6 : /\ f.off[n] = Len(xs[n])
                        /\ f.cnt[n] = Cardinality(Before(tlvs, n))

\* Every prefix is longer than the one before by a TLV.
Grows(xs, tlvs) == \A n \in 1 .. 5 : xs[n + 1] = xs[n] \o tlvs[n]

\* What the prefixes of w are made of is where it should be in w.
LEMMA PrefixesLaidOut ==
    ASSUME NEW f \in Forms, NEW vs \in [1 .. 5 -> Optional],
           NEW tlvs \in [1 .. 5 -> Seq(Cells)], NEW xs \in [1 .. 6 -> Seq(Cells)],
           NEW w \in Seq(Cells), FormOf(f, vs, tlvs, xs), Grows(xs, tlvs),
           Begins(xs[6], w), Len(xs[1]) = HeaderSize
    PROVE  Steps(f) /\ \A n \in 1 .. 5 : f.vs[n] # Absent => FieldAt(w, f, n)
<1>1. /\ \A n \in 1 .. 5 : Len(xs[n + 1]) = Len(xs[n]) + Len(tlvs[n])
      /\ \A n \in 1 .. 6 : Begins(xs[n], w)
  BY PrefixesBegin DEF Grows
<1>2. /\ Cardinality(Before(tlvs, 1)) = 0
      /\ \A p \in 1 .. 5 : Cardinality(Before(tlvs, p + 1)) =
                  IF tlvs[p] = << >> THEN Cardinality(Before(tlvs, p))
                  ELSE Cardinality(Before(tlvs, p)) + 1
  BY CountSteps
<1>3. ASSUME NEW n \in 1 .. 5
      PROVE  /\ IF f.vs[n] = Absent
                THEN f.off[n + 1] = f.off[n] /\ f.cnt[n + 1] = f.cnt[n]
                ELSE /\ f.off[n + 1] = f.off[n] + TlvHeaderSize + Len(f.vs[n])
                     /\ f.cnt[n + 1] = f.cnt[n] + 1
             /\ f.vs[n] # Absent => FieldAt(w, f, n)
  <2>1. n \in 1 .. 6 /\ n + 1 \in 1 .. 6
    BY SlotAfter, Zenon
  <2>2. PICK t \in TlvTypes : t = f.ts[n]
    BY OrdersTyped DEF Forms
  <2>3. PICK v \in Optional : v = vs[n]
    OBVIOUS
  <2>4. tlvs[n] = Tlv(t, v) /\ f.vs[n] = Narrow(v)
    BY <2>2, <2>3 DEF FormOf
  <2>5. PICK x \in Seq(Cells) : x = xs[n]
    BY <2>1
  <2>6. Begins(x \o Tlv(t, v), w)
    <3>1. Begins(xs[n + 1], w) /\ xs[n + 1] = xs[n] \o tlvs[n]
      BY <1>1, <2>1, Zenon DEF Grows
    <3> QED BY <2>4, <2>5, <3>1
  <2>7. f.off[n] = Len(x) /\ f.off[n + 1] = Len(x) + Len(Tlv(t, v)) /\ Len(x) \in Nat
    <3>1. f.off[n] = Len(xs[n]) /\ f.off[n + 1] = Len(xs[n + 1])
      BY <2>1, Zenon DEF FormOf
    <3>2. Len(xs[n + 1]) = Len(xs[n]) + Len(tlvs[n])
      BY <1>1
    <3>3. Len(x) \in Nat
      OBVIOUS
    <3> QED BY <2>4, <2>5, <3>1, <3>2, <3>3, Zenon
  <2>8. f.cnt[n + 1] = IF Tlv(t, v) = << >> THEN f.cnt[n] ELSE f.cnt[n] + 1
    <3>1. /\ f.cnt[n] = Cardinality(Before(tlvs, n))
          /\ f.cnt[n + 1] = Cardinality(Before(tlvs, n + 1))
      BY <2>1, Zenon DEF FormOf
    <3>2. Cardinality(Before(tlvs, n + 1)) =
            IF tlvs[n] = << >> THEN Cardinality(Before(tlvs, n))
            ELSE Cardinality(Before(tlvs, n)) + 1
      BY <1>2
    <3> QED BY <2>4, <3>1, <3>2
  <2>9. CASE Narrow(v) = Absent
    <3>1. Tlv(t, v) = << >> /\ Len(Tlv(t, v)) = 0
      BY <2>9, FieldLength
    <3>2. f.off[n + 1] = f.off[n] /\ f.cnt[n + 1] = f.cnt[n]
      BY <2>7, <2>8, <3>1
    <3> QED BY <2>4, <2>9, <3>2
  <2>10. CASE Narrow(v) # Absent
    <3>1. PICK l \in Nat : l = Len(Narrow(v))
      BY <2>10, FieldLength
    <3>2. Len(Tlv(t, v)) = TlvHeaderSize + l /\ Tlv(t, v) # << >>
      BY <2>10, <3>1, FieldLength
    <3>3. f.off[n + 1] = f.off[n] + TlvHeaderSize + l /\ f.cnt[n + 1] = f.cnt[n] + 1
      BY <2>7, <2>8, <3>2 DEF TlvHeaderSize
    <3>4. TlvAt(w, Len(x), t, Narrow(v))
      BY <2>6, <2>10, FieldWritten, Zenon
    <3>5. FieldAt(w, f, n)
      BY <2>2, <2>4, <2>7, <3>4 DEF FieldAt
    <3> QED BY <2>4, <2>10, <3>1, <3>3, <3>5
  <2> QED BY <2>9, <2>10
<1>4. f.off[1] = HeaderSize /\ f.cnt[1] = 0
  <2>1. 1 \in 1 .. 6
    OBVIOUS
  <2> QED BY <1>2, <2>1 DEF FormOf
<1> QED BY <1>3, <1>4 DEF Steps

\* What build makes of five fields.
Assembled(type, ts, vs, payload) ==
    Build(type, <<Tlv(ts[1], vs[1]), Tlv(ts[2], vs[2]), Tlv(ts[3], vs[3]),
                  Tlv(ts[4], vs[4]), Tlv(ts[5], vs[5])>>, payload)

Carries(f, type, ts, vs, payload) ==
    /\ f.type = type /\ f.ts = ts /\ f.payload = payload
    /\ \A n \in 1 .. 5 : f.vs[n] = Narrow(vs[n])

\* What build returns is laid out field by field.
LEMMA BuildShape ==
    ASSUME NEW type \in Cells, NEW payload \in Seq(Cells), Countable(payload),
           NEW ts \in {ClientOrder, BrokerOrder}, NEW vs \in [1 .. 5 -> Optional]
    PROVE  \E f \in Forms : /\ Carries(f, type, ts, vs, payload)
                            /\ Layout(Assembled(type, ts, vs, payload), f)
<1>1. PICK tlvs \in [1 .. 5 -> Seq(Cells)] : \A n \in 1 .. 5 : tlvs[n] = Tlv(ts[n], vs[n])
  <2> DEFINE tlvs == [n \in 1 .. 5 |-> Tlv(ts[n], vs[n])]
  <2>1. ASSUME NEW n \in 1 .. 5
        PROVE  Tlv(ts[n], vs[n]) \in Seq(Cells)
    BY OrdersTyped, TlvOfCells
  <2>2. tlvs \in [1 .. 5 -> Seq(Cells)]
    BY <2>1
  <2>3. \A n \in 1 .. 5 : tlvs[n] = Tlv(ts[n], vs[n])
    OBVIOUS
  <2> QED BY <2>2, <2>3
<1>2. PICK w : w = Build(type, tlvs, payload)
  OBVIOUS
<1>3. <<Tlv(ts[1], vs[1]), Tlv(ts[2], vs[2]), Tlv(ts[3], vs[3]),
        Tlv(ts[4], vs[4]), Tlv(ts[5], vs[5])>> = tlvs
  BY <1>1
<1>4. PICK count \in Cells : count = Count(tlvs) /\ count % CellBase = count
  <2>1. PICK count \in 0 .. 5 : count = Count(tlvs)
    BY CountSteps
  <2>2. CellBase \in Nat /\ count \in Nat /\ count < CellBase
    BY CellAssumption DEF BLINDED_VALUE_HI
  <2>3. count % CellBase = count
    BY <2>2, SmallRemainder, Zenon
  <2>4. count \in Cells /\ count % CellBase = count
    BY <2>2, <2>3 DEF Cells
  <2> QED BY <2>1, <2>4, Zenon
<1>5. PICK head \in Seq(Cells) : head = HeadOf(type, payload, count)
  <2>1. HeadOf(type, payload, count) \in Seq(Cells)
    BY HeadShape, Zenon DEF IsHead
  <2> QED BY <2>1
<1>6. /\ Len(head) = HeaderSize /\ head[1] = type /\ head[2] = count
      /\ Both(head[3], head[4]) = Len(payload)
  <2>1. IsHead(head, type, payload, count)
    BY <1>5, HeadShape, Zenon
  <2> QED BY <2>1 DEF IsHead
<1>7. PICK xs \in [1 .. 6 -> Seq(Cells)] :
         /\ xs[1] = head /\ Grows(xs, tlvs)
         /\ xs[6] = head \o tlvs[1] \o tlvs[2] \o tlvs[3] \o tlvs[4] \o tlvs[5]
  BY Prefixes DEF Grows
<1>8. w = xs[6] \o payload
  BY <1>2, <1>4, <1>5, <1>7 DEF Build, HeadOf
<1>9. /\ w \in Seq(Cells) /\ Len(w) = Len(xs[6]) + Len(payload) /\ Begins(xs[6], w)
      /\ \A k \in 1 .. Len(payload) : w[Len(xs[6]) + k] = payload[k]
  <2>1. xs[6] \in Seq(Cells)
    OBVIOUS
  <2> QED BY <1>8, <2>1, BeginsConcat
<1>10. PICK f \in Forms :
         /\ f.type = type /\ f.ts = ts /\ f.payload = payload
         /\ FormOf(f, vs, tlvs, xs)
  <2>1. PICK off \in [1 .. 6 -> Nat] : \A n \in 1 .. 6 : off[n] = Len(xs[n])
    <3> DEFINE off == [n \in 1 .. 6 |-> Len(xs[n])]
    <3>1. \A n \in 1 .. 6 : Len(xs[n]) \in Nat
      OBVIOUS
    <3>2. off \in [1 .. 6 -> Nat] /\ \A n \in 1 .. 6 : off[n] = Len(xs[n])
      BY <3>1
    <3> QED BY <3>2
  <2>2. PICK cnt \in [1 .. 6 -> Nat] : \A n \in 1 .. 6 : cnt[n] = Cardinality(Before(tlvs, n))
    <3> DEFINE cnt == [n \in 1 .. 6 |-> Cardinality(Before(tlvs, n))]
    <3>1. \A n \in 1 .. 6 : Cardinality(Before(tlvs, n)) \in Nat
      <4>1. 0 .. 5 \subseteq Nat
        OBVIOUS
      <4> QED BY <4>1, CountSteps, Zenon
    <3>2. cnt \in [1 .. 6 -> Nat] /\ \A n \in 1 .. 6 : cnt[n] = Cardinality(Before(tlvs, n))
      BY <3>1
    <3> QED BY <3>2
  <2>3. PICK nvs \in [1 .. 5 -> Optional] : \A n \in 1 .. 5 : nvs[n] = Narrow(vs[n])
    <3> DEFINE nvs == [n \in 1 .. 5 |-> Narrow(vs[n])]
    <3>1. \A n \in 1 .. 5 : Narrow(vs[n]) \in Optional
      BY NarrowType
    <3>2. nvs \in [1 .. 5 -> Optional] /\ \A n \in 1 .. 5 : nvs[n] = Narrow(vs[n])
      BY <3>1
    <3> QED BY <3>2
  <2>4. PICK f \in Forms :
          /\ f.type = type /\ f.ts = ts /\ f.vs = nvs /\ f.payload = payload
          /\ f.off = off /\ f.cnt = cnt
    <3> DEFINE f == Form(type, ts, nvs, payload, off, cnt)
    <3>1. f \in Forms
      BY FormType, Zenon
    <3>2. /\ f.type = type /\ f.ts = ts /\ f.vs = nvs /\ f.payload = payload
          /\ f.off = off /\ f.cnt = cnt
      BY DEF Form
    <3> QED BY <3>1, <3>2, Zenon
  <2>5. FormOf(f, vs, tlvs, xs)
    BY <1>1, <2>1, <2>2, <2>3, <2>4, Zenon DEF FormOf
  <2> QED BY <2>4, <2>5
<1>11. Steps(f) /\ \A n \in 1 .. 5 : f.vs[n] # Absent => FieldAt(w, f, n)
  <2>1. Len(xs[1]) = HeaderSize
    BY <1>6, <1>7
  <2> QED BY <1>7, <1>9, <1>10, <2>1, PrefixesLaidOut, Zenon
<1>12. f.cnt[6] = count /\ f.off[6] = Len(xs[6])
  <2>1. 6 \in 1 .. 6
    OBVIOUS
  <2>2. f.cnt[6] = Cardinality(Before(tlvs, 6)) /\ f.off[6] = Len(xs[6])
    BY <1>10, <2>1, Zenon DEF FormOf
  <2> QED BY <1>4, <2>2, CountSteps
<1>13. /\ w[1] = head[1] /\ w[2] = head[2] /\ w[3] = head[3] /\ w[4] = head[4]
  <2>1. Begins(xs[1], w)
    <3>1. 1 \in 1 .. 6
      OBVIOUS
    <3> QED BY <1>7, <1>9, <3>1, PrefixesBegin, Zenon DEF Grows
  <2>2. \A k \in 1 .. Len(head) : w[k] = head[k]
    BY <1>7, <2>1, Zenon DEF Begins
  <2>3. Len(head) = 4
    BY <1>6 DEF HeaderSize
  <2>4. 1 \in 1 .. 4 /\ 2 \in 1 .. 4 /\ 3 \in 1 .. 4 /\ 4 \in 1 .. 4
    OBVIOUS
  <2> QED BY <2>2, <2>3, <2>4, Zenon
<1>14. HeaderAt(w, f)
  BY <1>6, <1>10, <1>12, <1>13 DEF HeaderAt
<1>15. PayloadAt(w, f) /\ Len(w) = f.off[6] + Len(f.payload)
  BY <1>9, <1>10, <1>12 DEF PayloadAt
<1>16. Layout(w, f)
  BY <1>9, <1>11, <1>14, <1>15 DEF Layout
<1>17. \A n \in 1 .. 5 : f.vs[n] = Narrow(vs[n])
  BY <1>10 DEF FormOf
<1>18. Carries(f, type, ts, vs, payload)
  BY <1>10, <1>17 DEF Carries
<1>19. Assembled(type, ts, vs, payload) = w
  BY <1>2, <1>3 DEF Assembled
<1> QED BY <1>16, <1>18, <1>19

-----------------------------------------------------------------------------
\* The parser on its way through a message that was built.

\* What lies ahead of a parser in front of field p: the payload, or a next TLV.
Ahead(f, p) ==
    /\ f.off[p] <= f.off[6] /\ f.cnt[p] <= f.cnt[6]
    /\ f.cnt[p] = f.cnt[6] => /\ f.off[p] = f.off[6]
                              /\ \A n \in 1 .. 5 : n >= p => f.vs[n] = Absent
    /\ f.cnt[p] < f.cnt[6] =>
         \E q \in 1 .. 5 :
           /\ p <= q /\ f.vs[q] # Absent /\ f.off[q] = f.off[p] /\ f.cnt[q] = f.cnt[p]
           /\ \A n \in 1 .. 5 : p <= n /\ n < q => f.vs[n] = Absent

LEMMA ValueLength ==
    ASSUME NEW v \in Optional, v # Absent
    PROVE  v \in Seq(Cells) /\ Len(v) \in Nat
BY DEF Optional

LEMMA FormTyped ==
    ASSUME NEW f \in Forms
    PROVE  /\ \A p \in 1 .. 6 : f.off[p] \in Nat /\ f.cnt[p] \in Nat
           /\ \A n \in 1 .. 5 : f.vs[n] \in Optional /\ f.ts[n] \in TlvTypes
           /\ \A n \in 1 .. 5 : f.vs[n] # Absent =>
                                   f.vs[n] \in Seq(Cells) /\ Len(f.vs[n]) \in Nat
           /\ f.payload \in Seq(Cells) /\ Len(f.payload) \in Nat /\ f.type \in Cells
           /\ f.ts \in {ClientOrder, BrokerOrder}
<1>1. /\ f.off \in [1 .. 6 -> Nat] /\ f.cnt \in [1 .. 6 -> Nat]
      /\ f.vs \in [1 .. 5 -> Optional] /\ f.payload \in Seq(Cells) /\ f.type \in Cells
      /\ f.ts \in {ClientOrder, BrokerOrder}
  BY DEF Forms
<1>2. \A n \in 1 .. 5 : f.ts[n] \in TlvTypes
  BY <1>1, OrdersTyped
<1>3. \A n \in 1 .. 5 : f.vs[n] \in Optional
  BY <1>1
<1>4. \A p \in 1 .. 6 : f.off[p] \in Nat /\ f.cnt[p] \in Nat
  BY <1>1
<1>5. Len(f.payload) \in Nat
  BY <1>1
<1> QED BY <1>1, <1>2, <1>3, <1>4, <1>5, ValueLength

LEMMA AheadOfAll ==
    ASSUME NEW f \in Forms, Steps(f)
    PROVE  \A p \in 1 .. 6 : Ahead(f, p)
<1>1. Ahead(f, 6)
  <2>1. f.off[6] \in Nat /\ f.cnt[6] \in Nat
    BY FormTyped, 6 \in 1 .. 6
  <2> QED BY <2>1 DEF Ahead
<1>2. ASSUME NEW p \in 1 .. 5, NEW next \in 2 .. 6, next = p + 1, Ahead(f, next)
      PROVE  Ahead(f, p)
  <2>1. /\ f.off[p] \in Nat /\ f.cnt[p] \in Nat /\ f.off[next] \in Nat
        /\ f.cnt[next] \in Nat /\ f.off[6] \in Nat /\ f.cnt[6] \in Nat
    <3>1. p \in 1 .. 6 /\ next \in 1 .. 6 /\ 6 \in 1 .. 6
      OBVIOUS
    <3> QED BY <3>1, FormTyped
  <2>2. CASE f.vs[p] = Absent
    <3>1. f.off[next] = f.off[p] /\ f.cnt[next] = f.cnt[p]
      BY <1>2, <2>2 DEF Steps
    <3>2. f.off[p] <= f.off[6] /\ f.cnt[p] <= f.cnt[6]
      BY <1>2, <3>1 DEF Ahead
    <3>3. ASSUME f.cnt[p] = f.cnt[6]
          PROVE  f.off[p] = f.off[6] /\ \A n \in 1 .. 5 : n >= p => f.vs[n] = Absent
      <4>1. f.off[next] = f.off[6] /\ \A n \in 1 .. 5 : n >= next => f.vs[n] = Absent
        BY <1>2, <3>1, <3>3 DEF Ahead
      <4>2. \A n \in 1 .. 5 : n >= p => n = p \/ n >= next
        BY <1>2
      <4> QED BY <2>2, <3>1, <4>1, <4>2
    <3>4. ASSUME f.cnt[p] < f.cnt[6]
          PROVE  \E q \in 1 .. 5 :
                   /\ p <= q /\ f.vs[q] # Absent /\ f.off[q] = f.off[p]
                   /\ f.cnt[q] = f.cnt[p]
                   /\ \A n \in 1 .. 5 : p <= n /\ n < q => f.vs[n] = Absent
      <4>1. PICK q \in 1 .. 5 :
              /\ next <= q /\ f.vs[q] # Absent /\ f.off[q] = f.off[next]
              /\ f.cnt[q] = f.cnt[next]
              /\ \A n \in 1 .. 5 : next <= n /\ n < q => f.vs[n] = Absent
        BY <1>2, <3>1, <3>4 DEF Ahead
      <4>2. p <= q /\ \A n \in 1 .. 5 : p <= n => n = p \/ next <= n
        BY <1>2, <4>1
      <4>3. \A n \in 1 .. 5 : p <= n /\ n < q => f.vs[n] = Absent
        BY <2>2, <4>1, <4>2
      <4> QED BY <3>1, <4>1, <4>2, <4>3
    <3> QED BY <3>2, <3>3, <3>4 DEF Ahead
  <2>3. CASE f.vs[p] # Absent
    <3>1. Len(f.vs[p]) \in Nat
      BY <2>3, FormTyped
    <3>2. f.off[next] = f.off[p] + 2 + Len(f.vs[p]) /\ f.cnt[next] = f.cnt[p] + 1
      BY <1>2, <2>3 DEF Steps, TlvHeaderSize
    <3>3. f.off[next] <= f.off[6] /\ f.cnt[next] <= f.cnt[6]
      BY <1>2 DEF Ahead
    <3>4. f.off[p] <= f.off[6] /\ f.cnt[p] < f.cnt[6]
      <4>1. PICK a, b, l \in Nat : a = f.off[p] /\ b = f.off[6] /\ l = Len(f.vs[p])
        BY <2>1, <3>1
      <4>2. PICK c, d \in Nat : c = f.cnt[p] /\ d = f.cnt[6]
        BY <2>1
      <4>3. a + 2 + l <= b /\ c + 1 <= d
        BY <3>2, <3>3, <4>1, <4>2
      <4>4. a <= b /\ c < d
        BY <4>3
      <4> QED BY <4>1, <4>2, <4>4
    <3>5. /\ p <= p /\ f.vs[p] # Absent
          /\ \A n \in 1 .. 5 : p <= n /\ n < p => f.vs[n] = Absent
      BY <2>3
    <3> QED BY <2>1, <3>4, <3>5 DEF Ahead
  <2> QED BY <2>2, <2>3
<1>3. Ahead(f, 5)
  BY <1>1, <1>2, 5 \in 1 .. 5, 6 \in 2 .. 6, 6 = 5 + 1
<1>4. Ahead(f, 4)
  BY <1>2, <1>3, 4 \in 1 .. 5, 5 \in 2 .. 6, 5 = 4 + 1
<1>5. Ahead(f, 3)
  BY <1>2, <1>4, 3 \in 1 .. 5, 4 \in 2 .. 6, 4 = 3 + 1
<1>6. Ahead(f, 2)
  BY <1>2, <1>5, 2 \in 1 .. 5, 3 \in 2 .. 6, 3 = 2 + 1
<1>7. Ahead(f, 1)
  BY <1>2, <1>6, 1 \in 1 .. 5, 2 \in 2 .. 6, 2 = 1 + 1
<1>8. \A p \in 1 .. 6 : p = 1 \/ p = 2 \/ p = 3 \/ p = 4 \/ p = 5 \/ p = 6
  OBVIOUS
<1> QED BY <1>1, <1>3, <1>4, <1>5, <1>6, <1>7, <1>8, Zenon

\* f tells what the client wrote and what the brokers made of it.
Written(f) ==
    /\ f.type = origin.type /\ f.type \in {SUBSCRIBE, PUBLISH}
    /\ f.payload = origin.payload /\ Countable(f.payload)
    /\ origin.coords \in Seq(Cells) /\ Len(origin.coords) = 4
    /\ origin.blind \in Optional
    /\ \A n \in 1 .. 5 : f.vs[n] # Absent => Len(f.vs[n]) < CellBase
    /\ \A n \in 1 .. 5 :
         /\ f.ts[n] = SERVICE_NAME =>
              f.vs[n] = IF hop = 0 THEN Narrow(origin.name) ELSE key
         /\ f.ts[n] = COORDINATES => f.vs[n] = origin.coords
         /\ f.ts[n] = BLINDED_VALUE => f.vs[n] = Narrow(origin.blind)
         /\ f.ts[n] = FLAGS /\ f.vs[n] # Absent => Len(f.vs[n]) = 2
    /\ hop >= 1 => /\ f.ts = BrokerOrder /\ f.vs[5] = Absent
                   /\ f.vs[4] \in {FROM_CHILD, FROM_PARENT}

\* data is what the buffer holds of wire.
Cut ==
    pc \notin {"idle", "sent"} =>
      /\ Len(data) <= Len(wire) /\ Len(data) <= BufferSize
      /\ Len(data) < Len(wire) => Len(data) = BufferSize
      /\ \A k \in 1 .. Len(data) : data[k] = wire[k]

\* The header's numbers are the builder's.
HeaderRead(f) ==
    num_tlvs = f.cnt[6] /\ payload_len = Len(f.payload) /\ Len(data) >= HeaderSize

Standing(f, p) == i = f.cnt[p] /\ cursor = f.off[p]

\* No field before p has the type looked up.
NotBefore(f, p) ==
    wanted # << >> =>
      \A n \in 1 .. 5 : n < p /\ f.vs[n] # Absent => f.ts[n] # Head(wanted)

Wanted(t) == \E k \in 1 .. Len(wanted) : wanted[k] = t

NoneTwice == \A k, l \in 1 .. Len(wanted) : wanted[k] = wanted[l] => k = l

\* What has been looked up was found.
Found(f) ==
    \A n \in 1 .. 5 :
      f.ts[n] # BLINDED_VALUE_HI =>
        got[f.ts[n]] = IF Wanted(f.ts[n]) THEN Absent ELSE f.vs[n]

Parsing(f) ==
    /\ pc # "idle"
    /\ pc \in {"tlvs", "find", "handle"} => HeaderRead(f)
    /\ pc = "tlvs" => \E p \in 1 .. 6 : Standing(f, p)
    /\ pc = "find" => \E p \in 1 .. 6 : Standing(f, p) /\ NotBefore(f, p)
    /\ pc = "find" => NoneTwice
    /\ pc = "handle" => wanted = << >>
    /\ pc \in {"find", "handle"} => payload_offset = f.off[6] /\ Found(f)
    /\ pc \in {"find", "handle", "done"} => Len(data) = Len(wire)
    /\ pc = "refused" => Len(data) < Len(wire)
    /\ hop >= 2 => Len(wire) <= BufferSize

\* A client's message is on the wire in full, as the last builder wrote it, and
\* the parser stands at one of its fields.
WireInv ==
    /\ pc = "idle" => origin = Absent /\ hop = 0
    /\ origin # Absent =>
         \E f \in Forms : Layout(wire, f) /\ Written(f) /\ Cut /\ Parsing(f)

\* A step that leaves the message alone.
LEMMA SameMessage ==
    ASSUME NEW f \in Forms, Layout(wire, f), Written(f),
           UNCHANGED <<wire, origin, hop, key>>, Cut', Parsing(f)'
    PROVE  WireInv'
<1>1. Layout(wire, f)'
  BY DEF Layout, HeaderAt, PayloadAt, FieldAt, TlvAt, Steps
<1>2. Written(f)'
  BY DEF Written
<1>3. pc' # "idle"
  BY DEF Parsing
<1> QED BY <1>1, <1>2, <1>3 DEF WireInv

\* The fields in the two orders.
LEMMA OrderIs ==
    /\ /\ ClientOrder[1] = SERVICE_NAME /\ ClientOrder[2] = COORDINATES
       /\ ClientOrder[3] = FLAGS /\ ClientOrder[4] = BLINDED_VALUE
       /\ ClientOrder[5] = BLINDED_VALUE_HI
    /\ /\ BrokerOrder[1] = SERVICE_NAME /\ BrokerOrder[2] = COORDINATES
       /\ BrokerOrder[3] = BLINDED_VALUE /\ BrokerOrder[4] = FLAGS
       /\ BrokerOrder[5] = BLINDED_VALUE_HI
BY DEF ClientOrder, BrokerOrder

LEMMA TypesDiffer ==
    /\ SERVICE_NAME # COORDINATES /\ SERVICE_NAME # FLAGS /\ SERVICE_NAME # BLINDED_VALUE
    /\ SERVICE_NAME # BLINDED_VALUE_HI /\ COORDINATES # FLAGS
    /\ COORDINATES # BLINDED_VALUE /\ COORDINATES # BLINDED_VALUE_HI
    /\ FLAGS # BLINDED_VALUE /\ FLAGS # BLINDED_VALUE_HI
    /\ BLINDED_VALUE # BLINDED_VALUE_HI
BY DEF SERVICE_NAME, COORDINATES, FLAGS, BLINDED_VALUE, BLINDED_VALUE_HI

\* A client's message.
LEMMA SentShape ==
    ASSUME NEW m \in Messages, ClientsBuild
    PROVE  \E f \in Forms :
             /\ f.type = m.type /\ f.ts = ClientOrder /\ f.payload = m.payload
             /\ f.vs[1] = Narrow(m.name) /\ f.vs[2] = Narrow(m.coords)
             /\ f.vs[3] = Narrow(m.flags) /\ f.vs[4] = Narrow(m.blind)
             /\ f.vs[5] = Narrow(m.hi)
             /\ Layout(Sent(m), f)
<1>1. /\ m.type \in Cells /\ m.name \in Optional /\ m.coords \in Optional
      /\ m.flags \in Optional /\ m.blind \in Optional /\ m.hi \in Optional
      /\ m.payload \in Seq(Cells) /\ Countable(m.payload)
  BY CellAssumption DEF MessageType, Optional, ClientsBuild
<1>2. PICK vs \in [1 .. 5 -> Optional] :
         /\ vs[1] = m.name /\ vs[2] = m.coords /\ vs[3] = m.flags /\ vs[4] = m.blind
         /\ vs[5] = m.hi
  <2> DEFINE vs == <<m.name, m.coords, m.flags, m.blind, m.hi>>
  <2>1. vs \in [1 .. 5 -> Optional]
    BY <1>1
  <2> QED BY <2>1
<1>3. Sent(m) = Assembled(m.type, ClientOrder, vs, m.payload)
  BY <1>2, OrderIs DEF Sent, Assembled
<1>4. PICK f \in Forms : Carries(f, m.type, ClientOrder, vs, m.payload) /\ Layout(Sent(m), f)
  <2>1. ClientOrder \in {ClientOrder, BrokerOrder}
    OBVIOUS
  <2> QED BY <1>1, <1>3, <2>1, BuildShape, Zenon
<1>5. 1 \in 1 .. 5 /\ 2 \in 1 .. 5 /\ 3 \in 1 .. 5 /\ 4 \in 1 .. 5 /\ 5 \in 1 .. 5
  OBVIOUS
<1>6. /\ f.vs[1] = Narrow(m.name) /\ f.vs[2] = Narrow(m.coords)
      /\ f.vs[3] = Narrow(m.flags) /\ f.vs[4] = Narrow(m.blind)
      /\ f.vs[5] = Narrow(m.hi)
  BY <1>2, <1>4, <1>5, Zenon DEF Carries
<1> QED BY <1>4, <1>6 DEF Carries

\* A broker's message.
LEMMA RelayedShape ==
    ASSUME NEW name \in Optional, NEW coords \in Optional, NEW payload \in Seq(Cells),
           NEW blind \in Optional, NEW flags \in Optional, Countable(payload)
    PROVE  \E f \in Forms :
             /\ f.type = PUBLISH /\ f.ts = BrokerOrder /\ f.payload = payload
             /\ f.vs[1] = Narrow(name) /\ f.vs[2] = Narrow(coords)
             /\ f.vs[3] = Narrow(blind) /\ f.vs[4] = Narrow(flags) /\ f.vs[5] = Absent
             /\ Layout(Relayed(name, coords, payload, blind, flags), f)
<1>1. PUBLISH \in Cells /\ Absent \in Optional
  BY CellAssumption DEF Cells, PUBLISH, BLINDED_VALUE_HI, Optional
<1>2. PICK vs \in [1 .. 5 -> Optional] :
         /\ vs[1] = name /\ vs[2] = coords /\ vs[3] = blind /\ vs[4] = flags
         /\ vs[5] = Absent
  <2> DEFINE vs == <<name, coords, blind, flags, Absent>>
  <2>1. vs \in [1 .. 5 -> Optional]
    BY <1>1
  <2> QED BY <2>1
<1>3. Relayed(name, coords, payload, blind, flags)
        = Assembled(PUBLISH, BrokerOrder, vs, payload)
  <2>1. Tlv(BrokerOrder[5], vs[5]) = << >>
    BY <1>2 DEF Tlv
  <2> QED BY <1>2, <2>1, OrderIs DEF Relayed, Assembled
<1>4. PICK f \in Forms : /\ Carries(f, PUBLISH, BrokerOrder, vs, payload)
                        /\ Layout(Relayed(name, coords, payload, blind, flags), f)
  <2>1. BrokerOrder \in {ClientOrder, BrokerOrder}
    OBVIOUS
  <2> QED BY <1>1, <1>3, <2>1, BuildShape, Zenon
<1>5. 1 \in 1 .. 5 /\ 2 \in 1 .. 5 /\ 3 \in 1 .. 5 /\ 4 \in 1 .. 5 /\ 5 \in 1 .. 5
  OBVIOUS
<1>6. /\ f.vs[1] = Narrow(name) /\ f.vs[2] = Narrow(coords)
      /\ f.vs[3] = Narrow(blind) /\ f.vs[4] = Narrow(flags) /\ f.vs[5] = Narrow(Absent)
  BY <1>2, <1>4, <1>5, Zenon DEF Carries
<1>7. Narrow(Absent) = Absent
  BY DEF Narrow
<1> QED BY <1>4, <1>6, <1>7 DEF Carries

\* The client's message is on its way.
LEMMA SendKeeps ==
    ASSUME WireInv, ClientsBuild, ClientSends
    PROVE  WireInv'
<1>1. PICK m \in Messages : wire' = Sent(m) /\ origin' = m
  BY DEF ClientSends
<1>2. pc' = "sent" /\ hop' = 0 /\ hop = 0
  BY DEF ClientSends, WireInv
<1>3. PICK f \in Forms :
             /\ f.type = m.type /\ f.ts = ClientOrder /\ f.payload = m.payload
             /\ f.vs[1] = Narrow(m.name) /\ f.vs[2] = Narrow(m.coords)
             /\ f.vs[3] = Narrow(m.flags) /\ f.vs[4] = Narrow(m.blind)
             /\ f.vs[5] = Narrow(m.hi)
             /\ Layout(Sent(m), f)
  BY SentShape
<1>4. /\ m.type \in {SUBSCRIBE, PUBLISH} /\ Countable(m.payload)
      /\ m.coords \in Seq(Cells) /\ Len(m.coords) = 4 /\ m.blind \in Optional
      /\ m.flags \in Optional /\ (m.flags # Absent => Len(m.flags) = 2)
      /\ m.name \in Optional /\ m.hi \in Optional
  BY CellAssumption DEF MessageType, Optional, ClientsBuild, Need, COORDINATES, FLAGS
<1>5. CellBase \in Nat /\ CellBase > 17
  BY CellAssumption DEF BLINDED_VALUE_HI
<1>6. Narrow(m.coords) = m.coords
  <2>1. Len(m.coords) < CellBase
    BY <1>4, <1>5
  <2> QED BY <1>4, <2>1, NarrowShort
<1>7. Narrow(m.flags) # Absent => Len(Narrow(m.flags)) = 2
  <2>1. CASE m.flags = Absent
    BY <2>1 DEF Narrow
  <2>2. CASE m.flags # Absent
    <3>1. m.flags \in Seq(Cells) /\ Len(m.flags) < CellBase
      <4>1. m.flags \in Seq(Cells) /\ Len(m.flags) = 2
        BY <1>4, <2>2, ValueLength
      <4> QED BY <1>5, <4>1
    <3>2. Narrow(m.flags) = m.flags
      BY <3>1, NarrowShort
    <3> QED BY <1>4, <2>2, <3>2
  <2> QED BY <2>1, <2>2
<1>8. \A n \in 1 .. 5 : f.vs[n] # Absent => Len(f.vs[n]) < CellBase
  <2>1. ASSUME NEW v \in Optional, Narrow(v) # Absent
        PROVE  Len(Narrow(v)) < CellBase
    BY <2>1, NarrowType
  <2>2. \A n \in 1 .. 5 : \E v \in Optional : f.vs[n] = Narrow(v)
    <3>1. m.coords \in Optional
      BY <1>4 DEF Optional
    <3>2. SUFFICES ASSUME NEW n \in 1 .. 5
                   PROVE  \E v \in Optional : f.vs[n] = Narrow(v)
      OBVIOUS
    <3>3. n = 1 \/ n = 2 \/ n = 3 \/ n = 4 \/ n = 5
      OBVIOUS
    <3> QED BY <1>3, <1>4, <3>1, <3>3, Zenon
  <2> QED BY <2>1, <2>2
<1>9. \A n \in 1 .. 5 :
         /\ f.ts[n] = SERVICE_NAME => f.vs[n] = Narrow(m.name)
         /\ f.ts[n] = COORDINATES => f.vs[n] = m.coords
         /\ f.ts[n] = BLINDED_VALUE => f.vs[n] = Narrow(m.blind)
         /\ f.ts[n] = FLAGS /\ f.vs[n] # Absent => Len(f.vs[n]) = 2
  <2>1. \A n \in 1 .. 5 : n = 1 \/ n = 2 \/ n = 3 \/ n = 4 \/ n = 5
    OBVIOUS
  <2> QED BY <1>3, <1>6, <1>7, <2>1, OrderIs, TypesDiffer
<1>10. Written(f)'
  BY <1>1, <1>2, <1>3, <1>4, <1>8, <1>9 DEF Written
<1>11. Layout(wire, f)'
  BY <1>1, <1>3 DEF Layout, HeaderAt, PayloadAt, FieldAt, TlvAt, Steps
<1>12. Cut' /\ Parsing(f)'
  BY <1>2 DEF Cut, Parsing
<1> QED BY <1>2, <1>10, <1>11, <1>12 DEF WireInv

\* The buffer takes what fits.
LEMMA ReceiveKeeps ==
    ASSUME TypeOK, WireInv, Receive
    PROVE  WireInv'
<1>1. /\ pc = "sent" /\ pc' = "header" /\ UNCHANGED <<wire, origin, hop, key>>
  BY DEF Receive
<1>2. CASE origin = Absent
  BY <1>1, <1>2 DEF WireInv
<1>3. CASE origin # Absent
  <2>1. PICK f \in Forms : Layout(wire, f) /\ Written(f) /\ Cut /\ Parsing(f)
    BY <1>3 DEF WireInv
  <2>2. PICK l \in Nat : /\ l <= Len(wire) /\ l <= BufferSize
                         /\ l < Len(wire) => l = BufferSize
                         /\ data' = SubSeq(wire, 1, l)
    <3>1. Len(wire) \in Nat /\ BufferSize \in Nat
      BY CellAssumption DEF TypeOK
    <3> DEFINE l == IF Len(wire) <= BufferSize THEN Len(wire) ELSE BufferSize
    <3>2. /\ l \in Nat /\ l <= Len(wire) /\ l <= BufferSize
          /\ l < Len(wire) => l = BufferSize
      BY <3>1
    <3>3. data' = SubSeq(wire, 1, l)
      BY DEF Receive
    <3> QED BY <3>2, <3>3
  <2>3. /\ Len(data') = l /\ \A k \in 1 .. l : data'[k] = wire[k]
    BY <2>2, SubSeqProperties DEF TypeOK
  <2>4. Cut'
    BY <1>1, <2>2, <2>3 DEF Cut
  <2>5. Parsing(f)'
    BY <1>1, <2>1 DEF Parsing
  <2> QED BY <1>1, <2>1, <2>4, <2>5, SameMessage
<1> QED BY <1>2, <1>3

\* A cell that the buffer holds is the builder's.
LEMMA CellWritten ==
    ASSUME TypeOK, Cut, pc \notin {"idle", "sent"}, NEW o \in Nat, o < Len(data)
    PROVE  Cell(o) = wire[o + 1]
<1>1. o + 1 \in 1 .. Len(data)
  BY DEF TypeOK
<1> QED BY <1>1 DEF Cut, Cell

\* The header's numbers are read as they were written.
LEMMA HeaderReads ==
    ASSUME TypeOK, WireInv, Header
    PROVE  WireInv'
<1>1. /\ pc = "header" /\ pc' \in {"refused", "tlvs"}
      /\ UNCHANGED <<wire, data, origin, hop, key>>
  BY DEF Header, Refuse
<1>2. CASE origin = Absent
  BY <1>1, <1>2 DEF WireInv
<1>3. CASE origin # Absent
  <2>1. PICK f \in Forms : Layout(wire, f) /\ Written(f) /\ Cut /\ Parsing(f)
    BY <1>3 DEF WireInv
  <2>2. /\ f.off[6] \in Nat /\ Len(f.payload) \in Nat /\ f.off[6] >= HeaderSize
        /\ Len(wire) = f.off[6] + Len(f.payload) /\ HeaderAt(wire, f)
        /\ f.off[1] = HeaderSize /\ f.cnt[1] = 0
    <3>1. Ahead(f, 1) /\ f.off[1] = HeaderSize /\ f.cnt[1] = 0 /\ Steps(f)
      BY <2>1, AheadOfAll, 1 \in 1 .. 6 DEF Layout, Steps
    <3>2. f.off[6] \in Nat /\ f.off[6] >= f.off[1]
      BY <3>1, FormTyped, 6 \in 1 .. 6, 1 \in 1 .. 6 DEF Ahead
    <3> QED BY <2>1, <3>1, <3>2, FormTyped DEF Layout
  <2>3. Cut'
    BY <1>1, <2>1 DEF Cut
  <2>4. CASE Len(data) < HeaderSize
    <3>1. pc' = "refused"
      BY <2>4 DEF Header, Refuse
    <3>2. Len(data) < Len(wire)
      BY <2>2, <2>4 DEF HeaderSize, TypeOK
    <3>3. Parsing(f)'
      BY <1>1, <2>1, <3>1, <3>2 DEF Parsing
    <3> QED BY <1>1, <2>1, <2>3, <3>3, SameMessage
  <2>5. CASE ~(Len(data) < HeaderSize)
    <3>1. /\ num_tlvs' = Cell(1) /\ payload_len' = Cell(2) * CellBase + Cell(3)
          /\ i' = 0 /\ cursor' = HeaderSize /\ pc' = "tlvs"
      BY <2>5 DEF Header
    <3>2. Len(data) >= 4 /\ Len(data) \in Nat
      BY <2>5 DEF TypeOK, HeaderSize
    <3>3. Cell(1) = wire[2] /\ Cell(2) = wire[3] /\ Cell(3) = wire[4]
      <4>1. /\ 1 \in Nat /\ 2 \in Nat /\ 3 \in Nat /\ 1 < Len(data) /\ 2 < Len(data)
            /\ 3 < Len(data) /\ 1 + 1 = 2 /\ 2 + 1 = 3 /\ 3 + 1 = 4
        BY <3>2
      <4>2. pc \notin {"idle", "sent"}
        BY <1>1
      <4>3. Cell(1) = wire[1 + 1] /\ Cell(2) = wire[2 + 1] /\ Cell(3) = wire[3 + 1]
        BY <2>1, <4>1, <4>2, CellWritten, Zenon
      <4> QED BY <4>1, <4>3, Zenon
    <3>4. num_tlvs' = f.cnt[6] /\ payload_len' = Len(f.payload)
      <4>1. payload_len' = Both(wire[3], wire[4])
        BY <3>1, <3>3 DEF Both
      <4> QED BY <2>2, <3>1, <3>3, <4>1 DEF HeaderAt
    <3>5. HeaderRead(f)' /\ Standing(f, 1)'
      BY <1>1, <2>2, <3>1, <3>2, <3>4 DEF HeaderRead, Standing, HeaderSize
    <3>6. Parsing(f)'
      BY <1>1, <2>1, <3>1, <3>5, 1 \in 1 .. 6 DEF Parsing
    <3> QED BY <1>1, <2>1, <2>3, <3>6, SameMessage
  <2> QED BY <2>4, <2>5
<1> QED BY <1>2, <1>3

\* What a parser in front of a field finds there.
AtField(f, q) ==
    /\ q \in 1 .. 5 /\ f.vs[q] # Absent
    /\ Len(f.vs[q]) \in Nat /\ f.off[q] \in Nat /\ f.cnt[q] \in Nat
    /\ f.off[q + 1] = f.off[q] + TlvHeaderSize + Len(f.vs[q])
    /\ f.cnt[q + 1] = f.cnt[q] + 1
    /\ f.off[q + 1] <= f.off[6]
    /\ TlvAt(wire, f.off[q], f.ts[q], f.vs[q])

LEMMA FieldReached ==
    ASSUME NEW f \in Forms, Layout(wire, f), NEW q \in 1 .. 5, f.vs[q] # Absent
    PROVE  AtField(f, q)
<1>1. Steps(f) /\ TlvAt(wire, f.off[q], f.ts[q], f.vs[q])
  BY DEF Layout, FieldAt
<1>2. q \in 1 .. 6 /\ q + 1 \in 1 .. 6
  OBVIOUS
<1>3. Len(f.vs[q]) \in Nat /\ f.off[q] \in Nat /\ f.cnt[q] \in Nat
  BY <1>2, FormTyped
<1>4. f.off[q + 1] <= f.off[6]
  BY <1>1, <1>2, AheadOfAll DEF Ahead
<1>5. /\ f.off[q + 1] = f.off[q] + TlvHeaderSize + Len(f.vs[q])
      /\ f.cnt[q + 1] = f.cnt[q] + 1
  BY <1>1 DEF Steps
<1> QED BY <1>1, <1>3, <1>4, <1>5 DEF AtField

\* The type and the length of a field are read as they were written.
LEMMA FieldRead ==
    ASSUME TypeOK, Cut, pc \notin {"idle", "sent"}, NEW f \in Forms, NEW q, AtField(f, q),
           f.off[q] + TlvHeaderSize <= Len(data)
    PROVE  Cell(f.off[q]) = f.ts[q] /\ Cell(f.off[q] + 1) = Len(f.vs[q])
<1>1. PICK o \in Nat : o = f.off[q]
  BY DEF AtField
<1>2. /\ o \in Nat /\ o + 1 \in Nat /\ o < Len(data) /\ o + 1 < Len(data)
      /\ (o + 1) + 1 = o + 2
  BY <1>1 DEF TlvHeaderSize, TypeOK
<1>3. Cell(o) = wire[o + 1] /\ Cell(o + 1) = wire[o + 2]
  BY <1>2, CellWritten
<1> QED BY <1>1, <1>3 DEF AtField, TlvAt

\* Behind a position with TLVs to come stands the next of them, behind any other
\* the payload.
LEMMA PositionAhead ==
    ASSUME NEW f \in Forms, Layout(wire, f), NEW p \in 1 .. 6, Standing(f, p)
    PROVE  /\ i <= f.cnt[6] /\ i \in Nat /\ f.cnt[6] \in Nat /\ f.off[6] \in Nat
           /\ i >= f.cnt[6] => /\ cursor = f.off[6]
                               /\ \A n \in 1 .. 5 : n >= p => f.vs[n] = Absent
           /\ i < f.cnt[6] =>
                \E q \in 1 .. 5 :
                  /\ p <= q /\ AtField(f, q) /\ Standing(f, q)
                  /\ \A n \in 1 .. 5 : p <= n /\ n < q => f.vs[n] = Absent
<1>1. Ahead(f, p)
  BY AheadOfAll DEF Layout
<1>2. /\ f.cnt[p] \in Nat /\ f.cnt[6] \in Nat /\ f.off[6] \in Nat
      /\ i = f.cnt[p] /\ cursor = f.off[p]
  BY FormTyped, 6 \in 1 .. 6 DEF Standing
<1>3. i <= f.cnt[6]
  BY <1>1, <1>2 DEF Ahead
<1>4. ASSUME i >= f.cnt[6]
      PROVE  cursor = f.off[6] /\ \A n \in 1 .. 5 : n >= p => f.vs[n] = Absent
  <2>1. f.cnt[p] = f.cnt[6]
    BY <1>2, <1>3, <1>4
  <2> QED BY <1>1, <1>2, <2>1 DEF Ahead
<1>5. ASSUME i < f.cnt[6]
      PROVE  \E q \in 1 .. 5 :
               /\ p <= q /\ AtField(f, q) /\ Standing(f, q)
               /\ \A n \in 1 .. 5 : p <= n /\ n < q => f.vs[n] = Absent
  <2>1. PICK q \in 1 .. 5 :
           /\ p <= q /\ f.vs[q] # Absent /\ f.off[q] = f.off[p] /\ f.cnt[q] = f.cnt[p]
           /\ \A n \in 1 .. 5 : p <= n /\ n < q => f.vs[n] = Absent
    BY <1>1, <1>2, <1>5 DEF Ahead
  <2>2. AtField(f, q)
    BY <2>1, FieldReached
  <2>3. Standing(f, q)
    BY <1>2, <2>1 DEF Standing
  <2> QED BY <2>1, <2>2, <2>3
<1> QED BY <1>2, <1>3, <1>4, <1>5

\* A TLV is refused only if the buffer cut it.
LEMMA ValidateReads ==
    ASSUME TypeOK, WireInv, ValidateTlv
    PROVE  WireInv'
<1>1. /\ pc = "tlvs" /\ i < num_tlvs /\ pc' \in {"refused", "tlvs"}
      /\ UNCHANGED <<wire, data, origin, hop, key, num_tlvs, payload_len>>
  BY DEF ValidateTlv, Refuse
<1>2. CASE origin = Absent
  BY <1>1, <1>2 DEF WireInv
<1>3. CASE origin # Absent
  <2>1. PICK f \in Forms : Layout(wire, f) /\ Written(f) /\ Cut /\ Parsing(f)
    BY <1>3 DEF WireInv
  <2>2. Cut'
    BY <1>1, <2>1 DEF Cut
  <2>3. PICK p \in 1 .. 6 : Standing(f, p)
    BY <1>1, <2>1 DEF Parsing
  <2>4. HeaderRead(f)
    BY <1>1, <2>1 DEF Parsing
  <2>5. i < f.cnt[6]
    BY <1>1, <2>4 DEF HeaderRead
  <2>6. PICK q \in 1 .. 5 : AtField(f, q) /\ Standing(f, q)
    BY <2>1, <2>3, <2>5, PositionAhead
  <2>7. PICK o, l, n \in Nat : o = f.off[q] /\ l = Len(f.vs[q]) /\ n = Len(data)
    BY <2>6 DEF AtField, TypeOK
  <2>8. PICK m \in Nat : m = Len(wire) /\ o + 2 + l <= m
    <3>1. f.off[6] \in Nat /\ Len(f.payload) \in Nat
      BY FormTyped, 6 \in 1 .. 6
    <3>2. o + 2 + l <= f.off[6]
      BY <2>6, <2>7 DEF AtField, TlvHeaderSize
    <3>3. Len(wire) = f.off[6] + Len(f.payload)
      BY <2>1 DEF Layout
    <3>4. PICK a, b \in Nat : a = f.off[6] /\ b = Len(f.payload)
      BY <3>1
    <3>5. a + b \in Nat /\ a + b = Len(wire) /\ o + 2 + l <= a + b
      BY <3>2, <3>3, <3>4
    <3> QED BY <3>5
  <2>9. cursor = o
    BY <2>6, <2>7 DEF Standing
  <2>10. CASE ~HeaderFits
    <3>1. pc' = "refused" /\ n < m
      <4>1. pc' = "refused"
        BY <2>10 DEF ValidateTlv, Refuse
      <4>2. ~(o + 2 <= n)
        BY <2>7, <2>9, <2>10 DEF HeaderFits, TlvHeaderSize
      <4>3. n < m
        BY <2>8, <4>2
      <4> QED BY <4>1, <4>3
    <3>2. Parsing(f)'
      BY <1>1, <2>1, <2>7, <2>8, <3>1 DEF Parsing
    <3> QED BY <1>1, <2>1, <2>2, <3>2, SameMessage
  <2>11. CASE HeaderFits
    <3>1. After = o + 2 + l
      <4>1. f.off[q] + TlvHeaderSize <= Len(data) /\ pc \notin {"idle", "sent"}
        BY <1>1, <2>7, <2>9, <2>11 DEF HeaderFits
      <4>2. Cell(f.off[q] + 1) = Len(f.vs[q])
        BY <2>1, <2>6, <4>1, FieldRead
      <4> QED BY <2>7, <2>9, <4>2 DEF After, TlvHeaderSize
    <3>2. CASE After > Len(data)
      <4>1. pc' = "refused" /\ n < m
        BY <2>7, <2>8, <2>11, <3>1, <3>2 DEF ValidateTlv, Refuse
      <4>2. Parsing(f)'
        BY <1>1, <2>1, <2>7, <2>8, <4>1 DEF Parsing
      <4> QED BY <1>1, <2>1, <2>2, <4>2, SameMessage
    <3>3. CASE ~(After > Len(data))
      <4>1. cursor' = After /\ i' = i + 1 /\ pc' = "tlvs"
        BY <1>1, <2>11, <3>3 DEF ValidateTlv
      <4>2. cursor' = f.off[q + 1] /\ i' = f.cnt[q + 1]
        BY <2>6, <2>7, <3>1, <4>1 DEF AtField, Standing, TlvHeaderSize
      <4>3. HeaderRead(f)'
        BY <1>1, <2>4 DEF HeaderRead
      <4>4. \E r \in 1 .. 6 : Standing(f, r)'
        <5>1. q + 1 \in 1 .. 6
          OBVIOUS
        <5>2. Standing(f, q + 1)'
          BY <4>2 DEF Standing
        <5> QED BY <5>1, <5>2
      <4>5. Parsing(f)'
        BY <1>1, <2>1, <4>1, <4>3, <4>4 DEF Parsing
      <4> QED BY <1>1, <2>1, <2>2, <4>5, SameMessage
    <3> QED BY <3>2, <3>3
  <2> QED BY <2>10, <2>11
<1> QED BY <1>2, <1>3

\* What subscriptions and publications look up.
LEMMA LookedUp ==
    ASSUME NEW type \in {SUBSCRIBE, PUBLISH}, NEW looked, looked = Lookups(type)
    PROVE  /\ \A t \in TlvTypes \ {REGION, BLINDED_VALUE_HI} :
                \E k \in 1 .. Len(looked) : looked[k] = t
           /\ \A k, l \in 1 .. Len(looked) : looked[k] = looked[l] => k = l
<1>1. CASE type = SUBSCRIBE
  <2>1. looked = <<SERVICE_NAME, COORDINATES, FLAGS, BLINDED_VALUE, BLINDED_VALUE_HI>>
    BY <1>1 DEF Lookups
  <2>2. Len(looked) = 5
    BY <2>1
  <2>3. /\ looked[1] = SERVICE_NAME /\ looked[2] = COORDINATES /\ looked[3] = FLAGS
        /\ looked[4] = BLINDED_VALUE /\ looked[5] = BLINDED_VALUE_HI
    BY <2>1
  <2>4. \A k \in 1 .. 5 : k = 1 \/ k = 2 \/ k = 3 \/ k = 4 \/ k = 5
    OBVIOUS
  <2>5. \A k, l \in 1 .. 5 : looked[k] = looked[l] => k = l
    BY <2>3, <2>4, TypesDiffer
  <2>6. \A t \in TlvTypes \ {REGION, BLINDED_VALUE_HI} :
           \E k \in 1 .. 5 : looked[k] = t
    BY <2>3 DEF TlvTypes
  <2> QED BY <2>2, <2>5, <2>6
<1>2. CASE type = PUBLISH
  <2>1. looked = <<SERVICE_NAME, COORDINATES, FLAGS, BLINDED_VALUE>>
    BY <1>2 DEF Lookups, SUBSCRIBE, PUBLISH
  <2>2. Len(looked) = 4
    BY <2>1
  <2>3. /\ looked[1] = SERVICE_NAME /\ looked[2] = COORDINATES /\ looked[3] = FLAGS
        /\ looked[4] = BLINDED_VALUE
    BY <2>1
  <2>4. \A k \in 1 .. 4 : k = 1 \/ k = 2 \/ k = 3 \/ k = 4
    OBVIOUS
  <2>5. \A k, l \in 1 .. 4 : looked[k] = looked[l] => k = l
    BY <2>3, <2>4, TypesDiffer
  <2>6. \A t \in TlvTypes \ {REGION, BLINDED_VALUE_HI} :
           \E k \in 1 .. 4 : looked[k] = t
    BY <2>3 DEF TlvTypes
  <2> QED BY <2>2, <2>5, <2>6
<1> QED BY <1>1, <1>2

\* The order names no region.
LEMMA FieldTypes ==
    ASSUME NEW f \in Forms, NEW n \in 1 .. 5, f.ts[n] # BLINDED_VALUE_HI
    PROVE  f.ts[n] \in TlvTypes \ {REGION, BLINDED_VALUE_HI}
<1>1. f.ts = ClientOrder \/ f.ts = BrokerOrder
  BY FormTyped
<1>2. n = 1 \/ n = 2 \/ n = 3 \/ n = 4 \/ n = 5
  OBVIOUS
<1>3. /\ SERVICE_NAME # REGION /\ COORDINATES # REGION /\ FLAGS # REGION
      /\ BLINDED_VALUE # REGION
  BY DEF SERVICE_NAME, COORDINATES, FLAGS, BLINDED_VALUE, REGION
<1>4. f.ts[n] \in {SERVICE_NAME, COORDINATES, FLAGS, BLINDED_VALUE, BLINDED_VALUE_HI}
  BY <1>1, <1>2, OrderIs
<1> QED BY <1>3, <1>4 DEF TlvTypes

\* The payload is missing only if the buffer cut it.
LEMMA PayloadReads ==
    ASSUME TypeOK, WireInv, ValidatePayload
    PROVE  WireInv'
<1>1. /\ pc = "tlvs" /\ i >= num_tlvs /\ payload_offset' = cursor
      /\ pc' \in {"refused", "find"}
      /\ UNCHANGED <<wire, data, origin, hop, key, num_tlvs, payload_len>>
  BY DEF ValidatePayload, Refuse
<1>2. CASE origin = Absent
  BY <1>1, <1>2 DEF WireInv
<1>3. CASE origin # Absent
  <2>1. PICK f \in Forms : Layout(wire, f) /\ Written(f) /\ Cut /\ Parsing(f)
    BY <1>3 DEF WireInv
  <2>2. Cut'
    BY <1>1, <2>1 DEF Cut
  <2>3. PICK p \in 1 .. 6 : Standing(f, p)
    BY <1>1, <2>1 DEF Parsing
  <2>4. HeaderRead(f)
    BY <1>1, <2>1 DEF Parsing
  <2>5. cursor = f.off[6]
    <3>1. i >= f.cnt[6]
      BY <1>1, <2>4 DEF HeaderRead
    <3> QED BY <2>1, <2>3, <3>1, PositionAhead
  <2>6. Len(wire) = cursor + payload_len
    BY <2>1, <2>4, <2>5 DEF Layout, HeaderRead
  <2>7. Len(wire) \in Nat /\ Len(data) \in Nat /\ Len(data) <= Len(wire)
    BY <1>1, <2>1 DEF TypeOK, Cut
  <2>8. CASE PayloadFits
    <3>1. /\ pc' = "find" /\ wanted' = Lookups(Cell(0)) /\ got' = Nothing
          /\ i' = 0 /\ cursor' = HeaderSize
      BY <2>8 DEF ValidatePayload
    <3>2. Len(data) = Len(wire)
      BY <2>6, <2>7, <2>8 DEF PayloadFits
    <3>3. Cell(0) = f.type
      <4>1. 0 \in Nat /\ 0 < Len(data) /\ pc \notin {"idle", "sent"} /\ 0 + 1 = 1
        BY <1>1, <2>4, <2>7 DEF HeaderRead, HeaderSize
      <4>2. Cell(0) = wire[0 + 1]
        BY <2>1, <4>1, CellWritten
      <4> QED BY <2>1, <4>1, <4>2 DEF Layout, HeaderAt
    <3>4. f.type \in {SUBSCRIBE, PUBLISH}
      BY <2>1 DEF Written
    <3>5. /\ \A t \in TlvTypes \ {REGION, BLINDED_VALUE_HI} : Wanted(t)'
          /\ NoneTwice'
      BY <3>1, <3>3, <3>4, LookedUp DEF Wanted, NoneTwice
    <3>6. Found(f)'
      <4>1. SUFFICES ASSUME NEW n \in 1 .. 5, f.ts[n] # BLINDED_VALUE_HI
                     PROVE  got'[f.ts[n]] = Absent /\ Wanted(f.ts[n])'
        BY DEF Found
      <4>2. PICK t \in TlvTypes \ {REGION, BLINDED_VALUE_HI} : t = f.ts[n]
        BY <4>1, FieldTypes
      <4>3. got'[t] = Absent
        BY <3>1 DEF Nothing
      <4>4. Wanted(t)'
        BY <3>5
      <4> QED BY <4>2, <4>3, <4>4
    <3>7. HeaderRead(f)' /\ payload_offset' = f.off[6]
      BY <1>1, <2>4, <2>5 DEF HeaderRead
    <3>8. Standing(f, 1)' /\ NotBefore(f, 1)'
      <4>1. f.off[1] = HeaderSize /\ f.cnt[1] = 0
        BY <2>1 DEF Layout, Steps
      <4>2. \A n \in 1 .. 5 : ~(n < 1)
        OBVIOUS
      <4> QED BY <3>1, <4>1, <4>2 DEF Standing, NotBefore
    <3>9. Parsing(f)'
      BY <1>1, <2>1, <3>1, <3>2, <3>5, <3>6, <3>7, <3>8, 1 \in 1 .. 6 DEF Parsing
    <3> QED BY <1>1, <2>1, <2>2, <3>9, SameMessage
  <2>9. CASE ~PayloadFits
    <3>1. pc' = "refused"
      BY <2>9 DEF ValidatePayload, Refuse
    <3>2. Len(data) < Len(wire)
      BY <2>6, <2>7, <2>9 DEF PayloadFits, TypeOK
    <3>3. Parsing(f)'
      BY <1>1, <2>1, <3>1, <3>2 DEF Parsing
    <3> QED BY <1>1, <2>1, <2>2, <3>3, SameMessage
  <2> QED BY <2>8, <2>9
<1> QED BY <1>2, <1>3

\* A piece of v whose cells are all there.
Piece(v, a, b) ==
    /\ SubSeq(v, a, b) \in Seq(Cells)
    /\ Len(SubSeq(v, a, b)) = IF a <= b THEN b - a + 1 ELSE 0
    /\ \A k \in 1 .. b - a + 1 : SubSeq(v, a, b)[k] = v[a + k - 1]
OfCells(v, a, b) == \A k \in a .. b : v[k] \in Cells

LEMMA PieceCells ==
    ASSUME NEW v, NEW a \in Int, NEW b \in Int, OfCells(v, a, b)
    PROVE  Piece(v, a, b)
BY SubSeqProperties DEF OfCells, Piece

\* A piece of v that is the value x.
LEMMA PieceIs ==
    ASSUME NEW v \in Seq(Cells), NEW o \in Nat, NEW x \in Seq(Cells),
           o + Len(x) <= Len(v), \A k \in 1 .. Len(x) : v[o + k] = x[k]
    PROVE  SubSeq(v, o + 1, o + Len(x)) = x
<1>1. PICK l \in Nat : l = Len(x)
  OBVIOUS
<1>2. PICK a, b \in Int : a = o + 1 /\ b = o + l
  OBVIOUS
<1>3. OfCells(v, a, b)
  <2>1. \A k \in a .. b : k \in 1 .. Len(v)
    BY <1>1, <1>2
  <2> QED BY <2>1 DEF OfCells
<1>4. /\ SubSeq(v, a, b) \in Seq(Cells)
      /\ Len(SubSeq(v, a, b)) = IF a <= b THEN b - a + 1 ELSE 0
      /\ \A k \in 1 .. b - a + 1 : SubSeq(v, a, b)[k] = v[a + k - 1]
  <2>1. Piece(v, a, b)
    BY <1>3, PieceCells, Zenon
  <2> QED BY <2>1, Zenon DEF Piece
<1>5. PICK y \in Seq(Cells) : y = SubSeq(v, a, b)
  BY <1>4
<1>6. Len(y) = l
  BY <1>2, <1>4, <1>5
<1>7. ASSUME NEW k \in 1 .. l
      PROVE  y[k] = x[k]
  <2>1. k \in 1 .. b - a + 1 /\ a + k - 1 = o + k
    BY <1>1, <1>2
  <2>2. y[k] = v[o + k]
    BY <1>4, <1>5, <2>1
  <2> QED BY <1>1, <2>2
<1>8. y = x
  BY <1>1, <1>6, <1>7, SeqEqual
<1> QED BY <1>1, <1>2, <1>5, <1>8

\* Where a field's value lies, in a message of m cells.
Room(o, l, a, b, m) == o + 2 + l <= a /\ m = a + b
Inside(o, l, m) == /\ m \in Nat /\ o + 2 \in Nat /\ (o + 2) + l <= m
                   /\ \A k \in 1 .. l : (o + 2) + k \in 1 .. m

LEMMA ValueInside ==
    ASSUME NEW o \in Nat, NEW l \in Nat, NEW a \in Nat, NEW b \in Nat, NEW m,
           Room(o, l, a, b, m)
    PROVE  Inside(o, l, m)
<1>1. o + 2 + l <= a /\ m = a + b
  BY DEF Room
<1>2. /\ m \in Nat /\ o + 2 \in Nat /\ (o + 2) + l <= m
      /\ \A k \in 1 .. l : (o + 2) + k \in 1 .. m
  BY <1>1
<1> QED BY <1>2 DEF Inside

\* What the getter of a type returns is the field's value.
LEMMA ValueRead ==
    ASSUME TypeOK, Cut, pc = "find", NEW f \in Forms, Layout(wire, f), Written(f),
           NEW q \in 1 .. 5, AtField(f, q), Len(data) = Len(wire),
           NEW len \in Nat, len = Len(f.vs[q])
    PROVE  /\ f.ts[q] # BLINDED_VALUE_HI => ~(len < Need(f.ts[q])) /\ Size(f.ts[q], len) = len
           /\ SubSeq(data, f.off[q] + TlvHeaderSize + 1, f.off[q] + TlvHeaderSize + len)
                = f.vs[q]
<1>1. PICK v \in Seq(Cells) : v = f.vs[q] /\ len = Len(v) /\ len \in Nat
  BY FormTyped DEF AtField
<1>2. PICK o \in Nat : o = f.off[q]
  BY DEF AtField
<1>3. ASSUME f.ts[q] # BLINDED_VALUE_HI
      PROVE  ~(len < Need(f.ts[q])) /\ Size(f.ts[q], len) = len
  <2>1. f.ts[q] = COORDINATES => len = 4
    BY <1>1 DEF Written
  <2>2. f.ts[q] = FLAGS => len = 2
    BY <1>1 DEF Written, AtField
  <2>3. f.ts[q] # REGION
    BY <1>3, FieldTypes
  <2>4. CASE f.ts[q] = COORDINATES
    <3>1. Need(f.ts[q]) = 4 /\ len = 4
      BY <2>1, <2>4 DEF Need
    <3> QED BY <3>1 DEF Size
  <2>5. CASE f.ts[q] = FLAGS
    <3>1. Need(f.ts[q]) = 2 /\ len = 2
      BY <2>2, <2>5, TypesDiffer DEF Need
    <3> QED BY <3>1 DEF Size
  <2>6. CASE f.ts[q] # COORDINATES /\ f.ts[q] # FLAGS
    <3>1. Need(f.ts[q]) = 0
      BY <2>3, <2>6 DEF Need
    <3> QED BY <1>1, <3>1 DEF Size
  <2> QED BY <2>4, <2>5, <2>6
<1>4. PICK x, y \in Nat : x = f.off[6] /\ y = Len(f.payload)
  BY FormTyped, 6 \in 1 .. 6
<1>5. PICK m, e \in Nat : /\ m = Len(data) /\ e = o + 2 /\ e + len <= m
                          /\ \A k \in 1 .. len : e + k \in 1 .. m
  <2>1. Len(data) = x + y
    BY <1>4 DEF Layout
  <2>2. o + 2 + len <= x
    BY <1>1, <1>2, <1>4 DEF AtField, TlvHeaderSize
  <2>3. Room(o, len, x, y, Len(data))
    BY <2>1, <2>2, Zenon DEF Room
  <2>4. Inside(o, len, Len(data))
    BY <2>3, ValueInside, Zenon
  <2> QED BY <2>4, Zenon DEF Inside
<1>6. ASSUME NEW k \in 1 .. len
      PROVE  data[e + k] = v[k]
  <2>1. e + k \in 1 .. m
    BY <1>5
  <2>2. data[e + k] = wire[e + k]
    BY <1>5, <2>1 DEF Cut
  <2>3. wire[e + k] = v[k]
    BY <1>1, <1>2, <1>5 DEF AtField, TlvAt, TlvHeaderSize
  <2> QED BY <2>2, <2>3
<1>7. SubSeq(data, e + 1, e + len) = v
  <2>1. data \in Seq(Cells)
    BY DEF TypeOK
  <2>2. e + Len(v) <= Len(data)
    BY <1>1, <1>5, Zenon
  <2>3. \A k \in 1 .. Len(v) : data[e + k] = v[k]
    BY <1>1, <1>6, Zenon
  <2>4. SubSeq(data, e + 1, e + Len(v)) = v
    BY <2>1, <2>2, <2>3, PieceIs, Zenon
  <2> QED BY <1>1, <2>4, Zenon
<1>8. f.off[q] + TlvHeaderSize = e
  BY <1>2, <1>5 DEF TlvHeaderSize
<1> QED BY <1>1, <1>3, <1>7, <1>8

\* The next lookup, for what remains of the types wanted.
LEMMA NextWanted ==
    ASSUME wanted \in Seq(TlvTypes), wanted # << >>, NoneTwice, wanted' = Tail(wanted),
           NEW CONSTANT h, h = Head(wanted)
    PROVE  /\ NoneTwice' /\ ~Wanted(h)' /\ Wanted(h)
           /\ \A t : t # h => (Wanted(t)' <=> Wanted(t))
<1>1. PICK l \in Nat : l = Len(wanted) /\ l >= 1
  BY EmptySeq
<1>2. Len(wanted') = l - 1 /\ \A k \in 1 .. l - 1 : wanted'[k] = wanted[k + 1]
  BY <1>1, HeadTailProperties
<1>3. h = wanted[1]
  BY HeadTailProperties
<1>4. \A k \in 1 .. l - 1 : k + 1 \in 1 .. l /\ k + 1 # 1
  BY <1>1
<1>5. \A k, m \in 1 .. l : wanted[k] = wanted[m] => k = m
  BY <1>1 DEF NoneTwice
<1>6. NoneTwice'
  <2>1. SUFFICES ASSUME NEW k \in 1 .. l - 1, NEW m \in 1 .. l - 1,
                        wanted'[k] = wanted'[m]
                 PROVE  k = m
    <3>1. NoneTwice' <=> \A k, m \in 1 .. l - 1 : wanted'[k] = wanted'[m] => k = m
      BY <1>2 DEF NoneTwice
    <3> QED BY <3>1
  <2>2. wanted[k + 1] = wanted[m + 1] /\ k + 1 \in 1 .. l /\ m + 1 \in 1 .. l
    BY <1>2, <1>4, <2>1
  <2>3. k + 1 = m + 1
    BY <1>5, <2>2
  <2> QED BY <2>3
<1>7. ~Wanted(h)'
  <2>1. SUFFICES ASSUME NEW k \in 1 .. l - 1, wanted'[k] = h
                 PROVE  FALSE
    BY <1>2, <1>3 DEF Wanted
  <2>2. wanted[k + 1] = h /\ wanted[1] = h /\ k + 1 \in 1 .. l /\ 1 \in 1 .. l /\ k + 1 # 1
    BY <1>1, <1>2, <1>3, <1>4, <2>1
  <2> QED BY <1>5, <2>2
<1>8. ASSUME NEW t, t # h
      PROVE  Wanted(t)' <=> Wanted(t)
  <2>1. ASSUME NEW k \in 1 .. l, wanted[k] = t
        PROVE  \E m \in 1 .. l - 1 : wanted'[m] = t
    <3>1. k # 1
      BY <1>3, <1>8, <2>1
    <3>2. k - 1 \in 1 .. l - 1 /\ (k - 1) + 1 = k
      BY <1>1, <3>1
    <3>3. wanted'[k - 1] = wanted[k]
      BY <1>2, <3>2
    <3> QED BY <2>1, <3>2, <3>3
  <2>2. ASSUME NEW k \in 1 .. l - 1, wanted'[k] = t
        PROVE  \E m \in 1 .. l : wanted[m] = t
    BY <1>2, <1>4, <2>2
  <2> QED BY <1>1, <1>2, <2>1, <2>2 DEF Wanted
<1>9. Wanted(h)
  BY <1>1, <1>3 DEF Wanted
<1> QED BY <1>6, <1>7, <1>8, <1>9

\* A TLV's header lies inside the data.
LEMMA FieldInside ==
    ASSUME NEW f \in Forms, Layout(wire, f), NEW q \in 1 .. 5, AtField(f, q),
           Len(data) = Len(wire)
    PROVE  f.off[q] + TlvHeaderSize <= Len(data)
<1>1. PICK o, l \in Nat : o = f.off[q] /\ l = Len(f.vs[q])
  BY DEF AtField
<1>2. PICK x, y \in Nat : x = f.off[6] /\ y = Len(f.payload)
  BY FormTyped, 6 \in 1 .. 6
<1>3. Len(data) = x + y
  BY <1>2 DEF Layout
<1>4. o + 2 + l <= x
  BY <1>1, <1>2 DEF AtField, TlvHeaderSize
<1>5. o + 2 <= x + y
  BY <1>4
<1> QED BY <1>1, <1>3, <1>5 DEF TlvHeaderSize

\* A search starts in front of the first field.
LEMMA SearchStarts ==
    ASSUME NEW f \in Forms, Steps(f), i' = 0, cursor' = HeaderSize
    PROVE  Standing(f, 1)' /\ NotBefore(f, 1)'
<1>1. \A n \in 1 .. 5 : ~(n < 1)
  OBVIOUS
<1> QED BY <1>1 DEF Steps, Standing, NotBefore

\* A lookup that returned the field of its type, or nothing where there is none,
\* leaves what was found right.
LEMMA LookupAnswered ==
    ASSUME TypeOK, NEW f \in Forms, Found(f), NoneTwice, wanted # << >>,
           wanted' = Tail(wanted), NEW CONSTANT h \in TlvTypes, h = Head(wanted),
           h # BLINDED_VALUE_HI =>
             \A n \in 1 .. 5 : f.ts[n] = h => got'[h] = f.vs[n],
           \A t \in TlvTypes : t # h => got'[t] = got[t]
    PROVE  NoneTwice' /\ Found(f)'
<1>1. /\ NoneTwice' /\ ~Wanted(h)'
      /\ \A t : t # h => (Wanted(t)' <=> Wanted(t))
  BY NextWanted DEF TypeOK
<1>2. ASSUME NEW n \in 1 .. 5, f.ts[n] # BLINDED_VALUE_HI
      PROVE  got'[f.ts[n]] = IF Wanted(f.ts[n])' THEN Absent ELSE f.vs[n]
  <2>1. PICK t \in TlvTypes : t = f.ts[n]
    BY FormTyped
  <2>2. CASE t = h
    <3>1. got'[h] = f.vs[n]
      BY <1>2, <2>1, <2>2
    <3> QED BY <1>1, <2>1, <2>2, <3>1
  <2>3. CASE t # h
    <3>1. got[t] = IF Wanted(t) THEN Absent ELSE f.vs[n]
      BY <1>2, <2>1 DEF Found
    <3> QED BY <1>1, <2>1, <2>3, <3>1
  <2> QED BY <2>2, <2>3
<1>3. Found(f)'
  BY <1>2 DEF Found
<1> QED BY <1>1, <1>3

\* findTlv finds the first TLV of a type, and no other has it.
LEMMA FindReads ==
    ASSUME TypeOK, WireInv, FindStep
    PROVE  WireInv'
<1>1. /\ pc = "find" /\ pc' = "find" /\ wanted # << >>
      /\ UNCHANGED <<wire, data, num_tlvs, payload_len, payload_offset, origin, hop, key>>
  BY DEF FindStep
<1>2. CASE origin = Absent
  BY <1>1, <1>2 DEF WireInv
<1>3. CASE origin # Absent
  <2>1. PICK f \in Forms : Layout(wire, f) /\ Written(f) /\ Cut /\ Parsing(f)
    BY <1>3 DEF WireInv
  <2>2. /\ HeaderRead(f) /\ NoneTwice /\ Found(f) /\ payload_offset = f.off[6]
        /\ Len(data) = Len(wire) /\ (hop >= 2 => Len(wire) <= BufferSize) /\ Steps(f)
    BY <1>1, <2>1 DEF Parsing, Layout
  <2>3. PICK p \in 1 .. 6 : Standing(f, p) /\ NotBefore(f, p)
    BY <1>1, <2>1 DEF Parsing
  <2>4. SUFFICES /\ NoneTwice' /\ Found(f)'
                 /\ \E r \in 1 .. 6 : Standing(f, r)' /\ NotBefore(f, r)'
    <3>1. Cut' /\ HeaderRead(f)'
      BY <1>1, <2>1, <2>2 DEF Cut, HeaderRead
    <3>2. Parsing(f)'
      BY <1>1, <2>2, <2>4, <3>1 DEF Parsing
    <3> QED BY <1>1, <2>1, <3>1, <3>2, SameMessage
  <2>5. PICK h \in TlvTypes : h = Head(wanted)
    BY <1>1, HeadTailProperties DEF TypeOK
  <2>6. CASE i >= num_tlvs
    <3>1. wanted' = Tail(wanted) /\ i' = 0 /\ cursor' = HeaderSize /\ got' = got
      BY <2>6 DEF FindStep, NextLookup
    <3>2. \A n \in 1 .. 5 : n >= p => f.vs[n] = Absent
      <4>1. i >= f.cnt[6]
        BY <2>2, <2>6 DEF HeaderRead
      <4> QED BY <2>1, <2>3, <4>1, PositionAhead
    <3>3. ASSUME NEW n \in 1 .. 5, f.ts[n] = h, h # BLINDED_VALUE_HI
          PROVE  got'[h] = f.vs[n]
      <4>1. f.vs[n] = Absent
        <5>1. n < p \/ n >= p
          OBVIOUS
        <5> QED BY <1>1, <2>3, <2>5, <3>2, <3>3, <5>1 DEF NotBefore
      <4>2. Wanted(h)
        BY <1>1, <2>2, <2>5, <3>1, NextWanted DEF TypeOK
      <4>3. got[h] = Absent
        BY <2>2, <3>3, <4>2 DEF Found
      <4> QED BY <3>1, <4>1, <4>3
    <3>4. NoneTwice' /\ Found(f)'
      BY <1>1, <2>2, <2>5, <3>1, <3>3, LookupAnswered
    <3> QED BY <2>2, <3>1, <3>4, SearchStarts, 1 \in 1 .. 6
  <2>7. CASE ~(i >= num_tlvs)
    <3>1. PICK q \in 1 .. 5 :
             /\ p <= q /\ AtField(f, q) /\ Standing(f, q)
             /\ \A n \in 1 .. 5 : p <= n /\ n < q => f.vs[n] = Absent
      <4>1. i < f.cnt[6]
        BY <2>2, <2>7, FormTyped, 6 \in 1 .. 6 DEF HeaderRead, TypeOK
      <4> QED BY <2>1, <2>3, <4>1, PositionAhead
    <3>2. PICK len \in Nat : len = Len(f.vs[q])
      BY <3>1 DEF AtField
    <3>3. Cell(cursor) = f.ts[q] /\ Cell(cursor + 1) = len /\ cursor = f.off[q]
      <4>1. f.off[q] + TlvHeaderSize <= Len(data) /\ pc \notin {"idle", "sent"}
        BY <1>1, <2>1, <2>2, <3>1, FieldInside
      <4> QED BY <2>1, <3>1, <3>2, <4>1, FieldRead DEF Standing
    <3>4. CASE f.ts[q] # h
      <4>1. /\ cursor' = cursor + TlvHeaderSize + len /\ i' = i + 1
            /\ wanted' = wanted /\ got' = got
        BY <2>5, <2>7, <3>3, <3>4 DEF FindStep
      <4>2. Standing(f, q + 1)' /\ q + 1 \in 1 .. 6
        BY <3>1, <3>2, <4>1 DEF AtField, Standing
      <4>3. NotBefore(f, q + 1)'
        <5>1. ASSUME NEW n \in 1 .. 5, n < q + 1, f.vs[n] # Absent
              PROVE  f.ts[n] # h
          <6>1. n < p \/ (p <= n /\ n < q) \/ n = q
            BY <5>1
          <6> QED BY <1>1, <2>3, <2>5, <3>1, <3>4, <5>1, <6>1 DEF NotBefore
        <5> QED BY <2>5, <4>1, <5>1 DEF NotBefore
      <4>4. NoneTwice' /\ Found(f)'
        BY <2>2, <4>1 DEF NoneTwice, Found, Wanted
      <4> QED BY <4>2, <4>3, <4>4
    <3>5. CASE f.ts[q] = h
      <4>1. /\ h # BLINDED_VALUE_HI => ~(len < Need(h)) /\ Size(h, len) = len
            /\ SubSeq(data, f.off[q] + TlvHeaderSize + 1, f.off[q] + TlvHeaderSize + len)
                 = f.vs[q]
        BY <1>1, <2>1, <2>2, <3>1, <3>2, <3>5, ValueRead
      <4>2. /\ wanted' = Tail(wanted) /\ i' = 0 /\ cursor' = HeaderSize
            /\ IF len < Need(h) THEN got' = got
               ELSE got' = [got EXCEPT ![h] =
                      SubSeq(data, f.off[q] + TlvHeaderSize + 1,
                                   f.off[q] + TlvHeaderSize + Size(h, len))]
        BY <2>5, <2>7, <3>3, <3>5 DEF FindStep, NextLookup
      <4>3. got \in [TlvTypes -> Optional]
        BY DEF TypeOK
      <4>4. \A t \in TlvTypes : t # h => got'[t] = got[t]
        BY <4>2, <4>3
      <4>5. ASSUME NEW n \in 1 .. 5, f.ts[n] = h, h # BLINDED_VALUE_HI
            PROVE  got'[h] = f.vs[n]
        <5>1. n = q
          BY <3>5, <4>5, FormTyped, OrdersTyped
        <5>2. got'[h] = f.vs[q]
          BY <4>1, <4>2, <4>3, <4>5
        <5> QED BY <5>1, <5>2
      <4>6. NoneTwice' /\ Found(f)'
        BY <1>1, <2>2, <2>5, <4>2, <4>4, <4>5, LookupAnswered
      <4> QED BY <2>2, <4>2, <4>6, SearchStarts, 1 \in 1 .. 6
    <3> QED BY <3>4, <3>5
  <2> QED BY <2>6, <2>7
<1> QED BY <1>2, <1>3

-----------------------------------------------------------------------------
\* A handler's view of the message, and the message it builds.

\* What the getters returned to the handler.
LEMMA HandlerReads ==
    ASSUME TypeOK, pc = "handle", NEW f \in Forms, Layout(wire, f), Written(f), Cut,
           Parsing(f)
    PROVE  /\ got[SERVICE_NAME] = f.vs[1]
           /\ f.vs[1] = IF hop = 0 THEN Narrow(origin.name) ELSE key
           /\ got[COORDINATES] = origin.coords
           /\ got[BLINDED_VALUE] = Narrow(origin.blind)
           /\ hop >= 1 => got[FLAGS] = f.vs[4]
           /\ Payload = origin.payload
           /\ Len(data) = Len(wire)
           /\ Cell(0) = f.type
<1>1. /\ HeaderRead(f) /\ Found(f) /\ wanted = << >> /\ payload_offset = f.off[6]
      /\ Len(data) = Len(wire)
  BY DEF Parsing
<1>2. \A t : ~Wanted(t)
  BY <1>1 DEF Wanted
<1>3. \A n \in 1 .. 5 : f.ts[n] # BLINDED_VALUE_HI => got[f.ts[n]] = f.vs[n]
  BY <1>1, <1>2 DEF Found
<1>4. f.ts = ClientOrder \/ f.ts = BrokerOrder
  BY FormTyped
<1>5. /\ 1 \in 1 .. 5 /\ 2 \in 1 .. 5 /\ 3 \in 1 .. 5 /\ 4 \in 1 .. 5
  OBVIOUS
<1>6. /\ got[SERVICE_NAME] = f.vs[1]
      /\ f.vs[1] = IF hop = 0 THEN Narrow(origin.name) ELSE key
  <2>1. f.ts[1] = SERVICE_NAME
    BY <1>4, OrderIs
  <2> QED BY <1>3, <1>5, <2>1, TypesDiffer DEF Written
<1>7. got[COORDINATES] = origin.coords
  <2>1. f.ts[2] = COORDINATES
    BY <1>4, OrderIs
  <2> QED BY <1>3, <1>5, <2>1, TypesDiffer DEF Written
<1>8. got[BLINDED_VALUE] = Narrow(origin.blind)
  <2>1. f.ts[3] = BLINDED_VALUE \/ f.ts[4] = BLINDED_VALUE
    BY <1>4, OrderIs
  <2> QED BY <1>3, <1>5, <2>1, TypesDiffer DEF Written
<1>9. ASSUME hop >= 1
      PROVE  got[FLAGS] = f.vs[4]
  <2>1. f.ts[4] = FLAGS
    BY <1>9, OrderIs DEF Written
  <2> QED BY <1>3, <1>5, <2>1, TypesDiffer
<1>10. PICK x, y \in Nat : x = f.off[6] /\ y = Len(f.payload) /\ Len(wire) = x + y
  BY FormTyped, 6 \in 1 .. 6 DEF Layout
<1>11. Payload = origin.payload
  <2>1. f.payload \in Seq(Cells) /\ f.payload = origin.payload
    BY FormTyped DEF Written
  <2>2. \A k \in 1 .. y : data[x + k] = f.payload[k]
    <3>1. \A k \in 1 .. y : x + k \in 1 .. Len(wire)
      BY <1>10
    <3>2. \A k \in 1 .. Len(wire) : data[k] = wire[k]
      BY <1>1 DEF Cut
    <3>3. \A k \in 1 .. y : wire[x + k] = f.payload[k]
      BY <1>10 DEF Layout, PayloadAt
    <3> QED BY <3>1, <3>2, <3>3
  <2>3. SubSeq(data, x + 1, x + y) = f.payload
    <3>1. x + Len(f.payload) <= Len(data) /\ data \in Seq(Cells)
      BY <1>1, <1>10 DEF TypeOK
    <3> QED BY <1>10, <2>1, <2>2, <3>1, PieceIs
  <2> QED BY <1>1, <1>10, <2>1, <2>3 DEF Payload, HeaderRead
<1>12. Cell(0) = f.type
  <2>1. 0 \in Nat /\ 0 < Len(data) /\ 0 + 1 = 1
    BY <1>1 DEF HeaderRead, HeaderSize, TypeOK
  <2>2. Cell(0) = wire[0 + 1]
    BY <2>1, CellWritten
  <2> QED BY <2>1, <2>2 DEF Layout, HeaderAt
<1> QED BY <1>1, <1>6, <1>7, <1>8, <1>9, <1>11, <1>12

\* Messages with fields of the same lengths are equally long.
SameLengths(f, g) ==
    /\ Len(f.payload) = Len(g.payload)
    /\ \A n \in 1 .. 5 : /\ f.vs[n] = Absent <=> g.vs[n] = Absent
                         /\ f.vs[n] # Absent => Len(f.vs[n]) = Len(g.vs[n])

LEMMA EquallyLong ==
    ASSUME NEW v, NEW w, NEW f \in Forms, NEW g \in Forms, Layout(v, f), Layout(w, g),
           SameLengths(f, g)
    PROVE  Len(v) = Len(w)
<1>1. Steps(f) /\ Steps(g) /\ Len(v) = f.off[6] + Len(f.payload)
      /\ Len(w) = g.off[6] + Len(g.payload)
  BY DEF Layout
<1>2. f.off[1] = g.off[1]
  BY <1>1 DEF Steps
<1>3. \A n \in 1 .. 5 : f.off[n] = g.off[n] => f.off[n + 1] = g.off[n + 1]
  BY <1>1 DEF Steps, SameLengths
<1>4. f.off[2] = g.off[2]
  BY <1>2, <1>3, 1 \in 1 .. 5, 1 + 1 = 2
<1>5. f.off[3] = g.off[3]
  BY <1>3, <1>4, 2 \in 1 .. 5, 2 + 1 = 3
<1>6. f.off[4] = g.off[4]
  BY <1>3, <1>5, 3 \in 1 .. 5, 3 + 1 = 4
<1>7. f.off[5] = g.off[5]
  BY <1>3, <1>6, 4 \in 1 .. 5, 4 + 1 = 5
<1>8. f.off[6] = g.off[6]
  BY <1>3, <1>7, 5 \in 1 .. 5, 5 + 1 = 6
<1> QED BY <1>1, <1>8 DEF SameLengths

\* What the handler gives the builder: the client's position, payload and blinded
\* value, and a short name, which stays the same after the first hop.
LEMMA ForwardGives ==
    ASSUME TypeOK, ClientsBuild, NEW he \in BOOLEAN,
           NEW flags \in {FROM_CHILD, FROM_PARENT}, Forward(he, flags),
           NEW f \in Forms, Layout(wire, f), Written(f), Cut, Parsing(f)
    PROVE  /\ PubKey(he) \in Seq(Cells) /\ Len(PubKey(he)) < CellBase
           /\ hop >= 1 => PubKey(he) = key /\ key = f.vs[1]
           /\ PubCoords = origin.coords /\ Payload = origin.payload
           /\ got[BLINDED_VALUE] = Narrow(origin.blind)
           /\ origin.type = PUBLISH /\ Len(data) = Len(wire)
<1>1. pc = "handle" /\ Cell(0) = PUBLISH /\ got[SERVICE_NAME] # Absent /\ hop \in Nat
  BY DEF Forward, TypeOK
<1>2. /\ got[SERVICE_NAME] = f.vs[1]
      /\ f.vs[1] = IF hop = 0 THEN Narrow(origin.name) ELSE key
      /\ got[COORDINATES] = origin.coords
      /\ got[BLINDED_VALUE] = Narrow(origin.blind)
      /\ hop >= 1 => got[FLAGS] = f.vs[4]
      /\ Payload = origin.payload
      /\ Len(data) = Len(wire)
      /\ Cell(0) = f.type
  BY <1>1, HandlerReads
<1>3. f.vs[1] \in Seq(Cells) /\ Len(f.vs[1]) < CellBase
  BY <1>1, <1>2, FormTyped, 1 \in 1 .. 5 DEF Written
<1>4. PubKey(he) \in Seq(Cells) /\ Len(PubKey(he)) < CellBase
  <2>1. HashName \in Seq(Cells) /\ Len(HashName) < CellBase
    BY CellAssumption DEF ClientsBuild
  <2>2. PubKey(he) = HashName \/ PubKey(he) = f.vs[1]
    BY <1>2 DEF PubKey
  <2> QED BY <1>3, <2>1, <2>2
<1>5. ASSUME hop >= 1
      PROVE  PubKey(he) = key /\ key = f.vs[1]
  <2>1. got[FLAGS] \in {FROM_CHILD, FROM_PARENT}
    BY <1>2, <1>5 DEF Written
  <2>2. FROM_CHILD # Absent /\ FROM_PARENT # Absent
    <3>1. 0 \in Cells /\ 2 \in Cells /\ 4 \in Cells
      BY CellAssumption DEF Cells, BLINDED_VALUE_HI
    <3>2. <<0, 2>> \in Seq(Cells) /\ <<0, 4>> \in Seq(Cells)
      BY <3>1
    <3> QED BY <3>2, CellAssumption DEF FROM_CHILD, FROM_PARENT
  <2>3. FROM_CHILD[2] = 2 /\ FROM_PARENT[2] = 4
    BY DEF FROM_CHILD, FROM_PARENT
  <2>4. (2 \div 2) % 4 # 0 /\ (4 \div 2) % 4 # 0
    OBVIOUS
  <2>5. FromBroker
    BY <2>1, <2>2, <2>3, <2>4 DEF FromBroker
  <2>6. PubKey(he) = f.vs[1]
    BY <1>2, <2>5 DEF PubKey
  <2> QED BY <1>2, <1>5, <2>6
<1>6. PubCoords = origin.coords
  <2>1. origin.coords # Absent
    BY CellAssumption DEF Written
  <2> QED BY <1>2, <2>1 DEF PubCoords
<1>7. origin.type = PUBLISH
  BY <1>1, <1>2 DEF Written
<1> QED BY <1>2, <1>4, <1>5, <1>6, <1>7

LEMMA FlagsTyped ==
    ASSUME NEW flags \in {FROM_CHILD, FROM_PARENT}
    PROVE  /\ flags \in Seq(Cells) /\ flags \in Optional /\ flags # Absent
           /\ Len(flags) = 2 /\ Narrow(flags) = flags
<1>1. 0 \in Cells /\ 2 \in Cells /\ 4 \in Cells /\ 2 < CellBase
  BY CellAssumption DEF Cells, BLINDED_VALUE_HI
<1>2. <<0, 2>> \in Seq(Cells) /\ <<0, 4>> \in Seq(Cells)
  BY <1>1
<1>3. flags \in Seq(Cells) /\ Len(flags) = 2
  BY <1>2 DEF FROM_CHILD, FROM_PARENT
<1> QED BY <1>1, <1>3, NarrowShort, CellAssumption DEF Optional

\* The next datagram is the same message in the broker's order.
LEMMA ForwardWell ==
    ASSUME TypeOK, ClientsBuild, WireInv, NEW he \in BOOLEAN,
           NEW flags \in {FROM_CHILD, FROM_PARENT}, Forward(he, flags)
    PROVE  WireInv' /\ (hop >= 1 /\ origin # Absent => key' = key)
<1>1. /\ pc = "handle" /\ pc' = "sent" /\ hop' = hop + 1 /\ hop \in Nat
      /\ key' = PubKey(he) /\ UNCHANGED <<origin, data>>
      /\ wire' = Relayed(PubKey(he), PubCoords, Payload, got[BLINDED_VALUE], flags)
  BY DEF Forward, TypeOK
<1>2. CASE origin = Absent
  BY <1>1, <1>2 DEF WireInv
<1>3. CASE origin # Absent
  <2>1. PICK f \in Forms : Layout(wire, f) /\ Written(f) /\ Cut /\ Parsing(f)
    BY <1>3 DEF WireInv
  <2>2. /\ PubKey(he) \in Seq(Cells) /\ Len(PubKey(he)) < CellBase
        /\ hop >= 1 => PubKey(he) = key /\ key = f.vs[1]
        /\ PubCoords = origin.coords /\ Payload = origin.payload
        /\ got[BLINDED_VALUE] = Narrow(origin.blind)
        /\ origin.type = PUBLISH /\ Len(data) = Len(wire)
    BY <2>1, ForwardGives
  <2>3. PICK name \in Seq(Cells), coords \in Seq(Cells), payload \in Seq(Cells),
             blind \in Optional :
           /\ name = PubKey(he) /\ coords = origin.coords /\ payload = origin.payload
           /\ blind = Narrow(origin.blind)
    <3>1. /\ origin.coords \in Seq(Cells) /\ origin.payload \in Seq(Cells)
          /\ Narrow(origin.blind) \in Optional
      BY <2>1, FormTyped, NarrowType DEF Written
    <3> QED BY <2>2, <3>1
  <2>4. /\ name \in Optional /\ coords \in Optional /\ Len(coords) = 4
        /\ Countable(payload) /\ Len(name) < CellBase /\ Len(coords) < CellBase
    <3>1. Len(origin.coords) = 4 /\ Countable(origin.payload)
      BY <2>1 DEF Written
    <3>2. CellBase \in Nat /\ CellBase > 4
      BY CellAssumption DEF BLINDED_VALUE_HI
    <3>3. Len(coords) = 4 /\ Len(coords) < CellBase
      BY <2>3, <3>1, <3>2
    <3> QED BY <2>2, <2>3, <3>1, <3>3 DEF Optional
  <2>5. /\ Narrow(name) = name /\ Narrow(coords) = coords /\ Narrow(blind) = blind
        /\ flags \in Optional /\ Narrow(flags) = flags /\ flags # Absent
        /\ Len(flags) = 2
    <3>1. Narrow(blind) = blind
      BY <2>1, <2>3, NarrowTwice DEF Written
    <3> QED BY <2>4, <3>1, NarrowShort, FlagsTyped
  <2>6. PICK g \in Forms :
           /\ g.type = PUBLISH /\ g.ts = BrokerOrder /\ g.payload = payload
           /\ g.vs[1] = name /\ g.vs[2] = coords /\ g.vs[3] = blind /\ g.vs[4] = flags
           /\ g.vs[5] = Absent
           /\ Layout(Relayed(name, coords, payload, blind, flags), g)
    <3>1. PICK g \in Forms :
             /\ g.type = PUBLISH /\ g.ts = BrokerOrder /\ g.payload = payload
             /\ g.vs[1] = Narrow(name) /\ g.vs[2] = Narrow(coords)
             /\ g.vs[3] = Narrow(blind) /\ g.vs[4] = Narrow(flags) /\ g.vs[5] = Absent
             /\ Layout(Relayed(name, coords, payload, blind, flags), g)
      BY <2>4, <2>5, RelayedShape, Zenon
    <3> QED BY <2>5, <3>1, Zenon
  <2>7. Layout(wire, g)'
    <3>1. PICK w : w = Relayed(name, coords, payload, blind, flags)
      OBVIOUS
    <3>2. wire' = w
      BY <1>1, <2>2, <2>3, <3>1, Zenon
    <3>3. Layout(w, g)
      BY <2>6, <3>1, Zenon
    <3> QED BY <3>2, <3>3 DEF Layout, HeaderAt, PayloadAt, FieldAt, TlvAt, Steps
  <2>8. \A n \in 1 .. 5 : n = 1 \/ n = 2 \/ n = 3 \/ n = 4 \/ n = 5
    OBVIOUS
  <2>9. \A n \in 1 .. 5 : g.vs[n] # Absent => Len(g.vs[n]) < CellBase
    <3>1. Len(flags) < CellBase
      BY <2>5, CellAssumption DEF BLINDED_VALUE_HI
    <3>2. blind # Absent => Len(blind) < CellBase
      BY <2>1, <2>3, NarrowType DEF Written
    <3> QED BY <2>4, <2>6, <2>8, <3>1, <3>2
  <2>10. \A n \in 1 .. 5 :
           /\ g.ts[n] = SERVICE_NAME => g.vs[n] = name
           /\ g.ts[n] = COORDINATES => g.vs[n] = coords
           /\ g.ts[n] = BLINDED_VALUE => g.vs[n] = blind
           /\ g.ts[n] = FLAGS => Len(g.vs[n]) = 2
    BY <2>5, <2>6, <2>8, OrderIs, TypesDiffer
  <2>11. Written(g)'
    <3>1. /\ g.type = origin'.type /\ g.type \in {SUBSCRIBE, PUBLISH}
          /\ g.payload = origin'.payload /\ Countable(g.payload)
          /\ origin'.coords \in Seq(Cells) /\ Len(origin'.coords) = 4
          /\ origin'.blind \in Optional
      BY <1>1, <2>1, <2>2, <2>3, <2>4, <2>6 DEF Written
    <3>2. hop' # 0
      BY <1>1
    <3>3. \A n \in 1 .. 5 :
            /\ g.ts[n] = SERVICE_NAME =>
                 g.vs[n] = IF hop' = 0 THEN Narrow(origin'.name) ELSE key'
            /\ g.ts[n] = COORDINATES => g.vs[n] = origin'.coords
            /\ g.ts[n] = BLINDED_VALUE => g.vs[n] = Narrow(origin'.blind)
            /\ g.ts[n] = FLAGS /\ g.vs[n] # Absent => Len(g.vs[n]) = 2
      BY <1>1, <2>3, <2>10, <3>2
    <3>4. g.ts = BrokerOrder /\ g.vs[5] = Absent /\ g.vs[4] \in {FROM_CHILD, FROM_PARENT}
      BY <2>6
    <3> QED BY <2>9, <3>1, <3>3, <3>4 DEF Written
  <2>12. ASSUME hop' >= 2
         PROVE  Len(wire') <= BufferSize
    <3>1. hop >= 1
      BY <1>1, <2>12
    <3>2. /\ f.ts = BrokerOrder /\ f.vs[5] = Absent
          /\ f.vs[4] \in {FROM_CHILD, FROM_PARENT}
          /\ f.vs[1] = name /\ f.vs[2] = coords /\ f.vs[3] = blind
          /\ f.payload = payload
      BY <2>1, <2>2, <2>3, <3>1, OrderIs, 1 \in 1 .. 5, 2 \in 1 .. 5, 3 \in 1 .. 5
      DEF Written
    <3>3. f.vs[4] # Absent /\ Len(f.vs[4]) = 2
      BY <3>2, FlagsTyped
    <3>4. SameLengths(f, g)
      BY <2>5, <2>6, <2>8, <3>2, <3>3 DEF SameLengths
    <3>5. Layout(wire', g)
      BY <2>7 DEF Layout, HeaderAt, PayloadAt, FieldAt, TlvAt, Steps
    <3>6. Len(wire) = Len(wire')
      BY <2>1, <3>4, <3>5, EquallyLong
    <3>7. Len(data) <= BufferSize
      BY <1>1, <2>1 DEF Cut
    <3> QED BY <2>2, <3>6, <3>7
  <2>13. Cut' /\ Parsing(g)'
    BY <1>1, <2>12 DEF Cut, Parsing
  <2> QED BY <1>1, <2>2, <2>7, <2>11, <2>13 DEF WireInv
<1> QED BY <1>2, <1>3

-----------------------------------------------------------------------------
LEMMA WireInvStep ==
    ASSUME ClientsBuild, TypeOK, WireInv, [Next]_vars
    PROVE  WireInv' /\ (hop >= 1 /\ hop' > hop /\ origin # Absent => key' = key)
<1>1. CASE ClientSends \/ GarbageArrives
  <2>1. WireInv'
    <3>1. CASE GarbageArrives
      BY <3>1 DEF GarbageArrives, WireInv
    <3> QED BY <1>1, <3>1, SendKeeps
  <2>2. hop' = hop
    BY <1>1 DEF ClientSends, GarbageArrives
  <2> QED BY <2>1, <2>2 DEF TypeOK
<1>2. CASE Receive \/ Header \/ ValidateTlv \/ ValidatePayload \/ FindStep
  <2>1. WireInv'
    BY <1>2, ReceiveKeeps, HeaderReads, ValidateReads, PayloadReads, FindReads
  <2>2. hop' = hop
    BY <1>2 DEF Receive, Header, ValidateTlv, ValidatePayload, FindStep
  <2> QED BY <2>1, <2>2 DEF TypeOK
<1>3. CASE FindDone \/ Finish \/ UNCHANGED vars
  <2>1. /\ UNCHANGED <<wire, data, num_tlvs, payload_len, payload_offset, i, cursor,
                       wanted, got, origin, hop, key>>
        /\ \/ pc = "find" /\ wanted = << >> /\ pc' = "handle"
           \/ pc = "handle" /\ pc' = "done"
           \/ pc' = pc
    BY <1>3 DEF FindDone, Finish, vars, parserVars
  <2>2. CASE origin = Absent
    BY <2>1, <2>2 DEF WireInv, TypeOK
  <2>3. CASE origin # Absent
    <3>1. PICK f \in Forms : Layout(wire, f) /\ Written(f) /\ Cut /\ Parsing(f)
      BY <2>3 DEF WireInv
    <3>2. pc # "idle" /\ pc' # "idle"
      BY <2>1, <3>1 DEF Parsing
    <3>3. Cut'
      BY <2>1, <3>1 DEF Cut
    <3>4. Parsing(f)'
      BY <2>1, <3>1, <3>2
      DEF Parsing, HeaderRead, Standing, NotBefore, NoneTwice, Found, Wanted
    <3>5. WireInv'
      BY <2>1, <3>1, <3>3, <3>4, SameMessage
    <3> QED BY <2>1, <3>5 DEF TypeOK
  <2> QED BY <2>2, <2>3
<1>4. CASE \E he \in BOOLEAN : \E flags \in {FROM_CHILD, FROM_PARENT} : Forward(he, flags)
  BY <1>4, ForwardWell
<1> QED BY <1>1, <1>2, <1>3, <1>4 DEF Next

\* What the clients build stays on the wire as they built it, however many brokers
\* parse it and build it anew.
THEOREM MessageInvariant ==
    ASSUME ClientsBuild
    PROVE  Spec => [](TypeOK /\ WireInv)
<1>1. Init => WireInv
  BY DEF Init, WireInv
<1>2. TypeOK /\ TypeOK' /\ WireInv /\ [Next]_vars => WireInv'
  BY WireInvStep
<1> QED BY <1>1, <1>2, ParserTypes, PTL DEF Spec

\* No handler sees half a message: what the buffer cut is refused by the
\* constructor (start, src/broker/broker.cpp).
THEOREM CutIsRefused ==
    ASSUME ClientsBuild
    PROVE  Spec => []TruncatedRefused
<1>1. TypeOK /\ WireInv => TruncatedRefused
  <2>1. SUFFICES ASSUME TypeOK, WireInv, Len(data) < Len(wire), origin # Absent
                 PROVE  pc \notin {"find", "handle", "done"}
    BY DEF TruncatedRefused
  <2>2. PICK f \in Forms : Parsing(f)
    BY <2>1 DEF WireInv
  <2>3. Len(data) \in Nat /\ Len(wire) \in Nat
    BY <2>1 DEF TypeOK
  <2> QED BY <2>1, <2>2, <2>3 DEF Parsing
<1> QED BY <1>1, MessageInvariant, PTL

\* The parser accepts whatever the builder makes, as long as it fits the buffer
\* (TlvMessageBuilder::build and TlvMessage's constructor).
THEOREM WholeIsAccepted ==
    ASSUME ClientsBuild
    PROVE  Spec => []BuiltIsValid
<1>1. TypeOK /\ WireInv => BuiltIsValid
  BY DEF WireInv, Parsing, BuiltIsValid
<1> QED BY <1>1, MessageInvariant, PTL

\* A handler reads what the client wrote, after any number of relays
\* (findTlv, the getters, and handlePublish's builder calls).
THEOREM HandlersReadTheClient ==
    ASSUME ClientsBuild
    PROVE  Spec => []ReadAsWritten
<1>1. TypeOK /\ WireInv => ReadAsWritten
  <2>1. SUFFICES ASSUME TypeOK, WireInv, pc = "handle", origin # Absent
                 PROVE  /\ got[COORDINATES] = origin.coords
                        /\ got[BLINDED_VALUE] = Narrow(origin.blind)
                        /\ got[SERVICE_NAME] =
                             IF hop = 0 THEN Narrow(origin.name) ELSE key
                        /\ Payload = origin.payload
    BY DEF ReadAsWritten
  <2>2. PICK f \in Forms : Layout(wire, f) /\ Written(f) /\ Cut /\ Parsing(f)
    BY <2>1 DEF WireInv
  <2> QED BY <2>1, <2>2, HandlerReads
<1> QED BY <1>1, MessageInvariant, PTL

\* Only the first relay lengthens a publication, so a broker behind the second
\* one never refuses it for its size (handlePublish).
THEOREM LaterHopsFit ==
    ASSUME ClientsBuild
    PROVE  Spec => []GrowsOnce
<1>1. TypeOK /\ WireInv => GrowsOnce
  <2>1. SUFFICES ASSUME TypeOK, WireInv, pc = "refused", origin # Absent
                 PROVE  hop <= 1
    BY DEF GrowsOnce
  <2>2. PICK f \in Forms : Cut /\ Parsing(f)
    BY <2>1 DEF WireInv
  <2>3. /\ Len(data) < Len(wire) /\ Len(data) = BufferSize
        /\ hop >= 2 => Len(wire) <= BufferSize
    BY <2>1, <2>2 DEF Parsing, Cut
  <2>4. Len(data) \in Nat /\ Len(wire) \in Nat /\ hop \in Nat
    BY <2>1 DEF TypeOK
  <2> QED BY <2>3, <2>4
<1> QED BY <1>1, MessageInvariant, PTL

\* From the second broker on, nobody hashes the name again (handlePublish).
THEOREM NameChosenOnce ==
    ASSUME ClientsBuild
    PROVE  Spec => OneName
<1>1. TypeOK /\ WireInv /\ [Next]_vars =>
        [hop >= 1 /\ hop' > hop /\ origin # Absent => key' = key]_vars
  BY WireInvStep
<1> QED BY <1>1, MessageInvariant, PTL DEF Spec, OneName
=============================================================================
