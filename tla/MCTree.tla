------------------------------- MODULE MCTree -------------------------------
(***************************************************************************)
(* Trees of brokers: a root with two leaves, and a chain of three.         *)
(***************************************************************************)
EXTENDS BrokerProperties

CONSTANTS root, mid, leaf, s1, s2, ann, bob

\* Both children of the root; and the chain root - middle - leaf.
FanParent == [x \in Brokers |-> IF x = root THEN NoBroker ELSE root]
ChainParent ==
    [x \in Brokers |-> IF x = root THEN NoBroker ELSE IF x = mid THEN root ELSE mid]

Point(lat, lon) == [lat |-> lat, lon |-> lon]
TreeHome ==
    [x \in Brokers |-> IF x = root THEN Point(0, 0)
                       ELSE IF x = mid THEN Point(8, 8) ELSE Point(-8, -8)]

Sub(x, c, s, p, enc) ==
    [broker |-> x, client |-> c, svc |-> s, pos |-> p, enc |-> enc,
     query |-> FALSE]
Pub(x, s, p, enc) == [broker |-> x, svc |-> s, pos |-> p, enc |-> enc]

\* Clients at both children, publishers at both children, in plaintext.
PlainSubscriptions ==
    {Sub(mid, ann, s1, Point(12, 16), FALSE), Sub(leaf, bob, s1, Point(-8, -16), FALSE),
     Sub(leaf, ann, s1, Point(-8, 12), FALSE)}
PlainPublications ==
    {Pub(mid, s1, Point(8, 12), FALSE), Pub(leaf, s1, Point(-8, -12), FALSE)}

\* The same with blinded values.
BlindSubscriptions == {[x EXCEPT !.enc = TRUE] : x \in PlainSubscriptions}
BlindPublications == {[x EXCEPT !.enc = TRUE] : x \in PlainPublications}

PlainPublicationsAtL == {x \in PlainPublications : x.broker = leaf}

\* Two services published at the root, subscribed to at one leaf.
LeafSubscriptions == {Sub(leaf, bob, s, Point(-8, -16), FALSE) : s \in {s1, s2}}
RootPublications ==
    {Pub(root, s1, Point(-8, -12), FALSE), Pub(root, s2, Point(-4, -4), FALSE)}

\* A leaf with a client, publications on two sides of the equator.
BrakeSubscriptions == {Sub(leaf, bob, s1, Point(-8, -16), FALSE)}
BrakePublications ==
    {Pub(leaf, s1, Point(-8, -12), FALSE), Pub(leaf, s1, Point(4, -4), FALSE)}

\* Blinded subscriptions at the leaf, publishers at the root and at the leaf.
FaultSubscriptions == {x \in BlindSubscriptions : x.broker = leaf /\ x.client = bob}
FaultPublications ==
    {Pub(leaf, s1, Point(-8, -12), TRUE), Pub(root, s1, Point(-8, -8), TRUE)}

\* Clients of the middle broker of a chain and of its leaf; one at the leaf itself.
MiddleSubscriptions ==
    {Sub(mid, ann, s1, Point(12, 16), FALSE), Sub(leaf, bob, s1, Point(-8, -16), FALSE)}
=============================================================================
