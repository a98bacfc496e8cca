------------------------------- MODULE MCTlv -------------------------------
(***************************************************************************)
(* Short messages around the size of the buffer, and every short sequence  *)
(* of a few cells.                                                         *)
(***************************************************************************)
EXTENDS TlvMessage

Zeros(n) == [c \in 1 .. n |-> 0]
Client(type, name, coords, flags, blind, hi, payload) ==
    [type |-> type, name |-> name, coords |-> coords, flags |-> flags,
     blind |-> blind, hi |-> hi, payload |-> payload]
Here == <<7, 8, 9, 10>>

\* Publications of every size around the buffer's, in plaintext and blinded,
\* one with a name too long for its length, and subscriptions.
ClientMessages ==
    {Client(PUBLISH, <<1>>, Here, Absent, blind, Absent, Zeros(n)) :
        blind \in {Absent, <<3, 4, 5>>}, n \in 0 .. 12}
    \cup {Client(PUBLISH, Zeros(CellBase + 1), Here, Absent, Absent, Absent, <<6>>),
          Client(PUBLISH, <<1>>, Here, <<0, 1>>, <<3>>, Absent, <<6>>),
          Client(SUBSCRIBE, <<2>>, Here, <<0, 1>>, <<3>>, <<4>>, << >>),
          Client(SUBSCRIBE, << >>, Here, Absent, Absent, Absent, << >>)}

Hash == <<11, 12, 13>>

\* Short and shapeless: a header with any counts, and cells that look like types
\* and lengths; and messages of known shape cut or with a wrong count.
ShortCells == UNION {[1 .. n -> {0, 1, 2, 3}] : n \in 0 .. 6}
Headers == {<<PUBLISH, n, 0, l>> : n \in 0 .. 2, l \in 0 .. 1}
Damaged ==
    {SubSeq([Sent(m) EXCEPT ![2] = n], 1, l) :
        m \in {x \in ClientMessages : x.type = SUBSCRIBE}, n \in 1 .. 6, l \in 2 .. 12}
AnyCells ==
    {h \o c : h \in Headers, c \in ShortCells} \cup ShortCells \cup Damaged
    \cup {<<PUBLISH, 1, 1, 0, SERVICE_NAME, 1, 0>>,
          <<REGION_UPDATE, 2, 0, 0, REGION, 8, 0, 0, 0, 0, 0, 0, 0, 0, SERVICE_NAME, 0>>,
          <<HELLO, 1, 0, 0, COORDINATES, 3, 0, 0, 0>>,
          <<HEARTBEAT, 2, 0, 0, SERVICE_NAME, 1, 5, SERVICE_NAME, 1, 6>>}

\* The clients of this run are those the theorems are about.
ASSUME RunClients == ClientsBuild
=============================================================================
