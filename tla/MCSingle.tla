------------------------------ MODULE MCSingle ------------------------------
(***************************************************************************)
(* One root broker without children, with its clients: subscription tables,*)
(* delivery, brake, heartbeat and cleanup.                                 *)
(***************************************************************************)
EXTENDS BrokerProperties

CONSTANTS root, s1, s2, ann, bob

NoParent == [x \in Brokers |-> NoBroker]
HomeAt == [x \in Brokers |-> [lat |-> 0, lon |-> 0]]

Near == [lat |-> 4, lon |-> 4]
Far == [lat |-> 8, lon |-> 20]
West == [lat |-> 4, lon |-> -8]

Sub(c, s, p, enc, query) ==
    [broker |-> root, client |-> c, svc |-> s, pos |-> p, enc |-> enc,
     query |-> query]
Pub(s, p, enc) == [broker |-> root, svc |-> s, pos |-> p, enc |-> enc]

\* A client pushed to and a client querying, in plaintext, and one that queries
\* with blinded values for another service.
MixedSubscriptions ==
    {Sub(ann, s1, Near, FALSE, FALSE), Sub(bob, s1, Far, FALSE, TRUE),
     Sub(bob, s2, Far, TRUE, TRUE)}
MixedPublications ==
    {Pub(s1, Near, FALSE), Pub(s1, Far, FALSE), Pub(s2, Far, TRUE)}

\* One publication, and heartbeats for its service.
OnePublication == {Pub(s1, Near, FALSE)}
Beat == {[broker |-> root, svc |-> s1]}

\* A client that subscribes with blinded values and never queries.
BlindSubscriptions == {Sub(ann, s1, Near, TRUE, FALSE)}

\* One client, subscribing again after its subscription has expired or not.
OneSubscription == {Sub(ann, s1, Near, FALSE, FALSE)}
=============================================================================
