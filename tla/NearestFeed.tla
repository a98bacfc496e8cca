---------------------------- MODULE NearestFeed ----------------------------
(***************************************************************************)
(* What the proximity service promises its subscribers, whatever brokers,  *)
(* brakes, caches, encryption and networks lie in between.  A subscription *)
(* joins the feed with at most one answer already given (QUERY_MODE); from *)
(* then on an announcement extends the feeds of some subscriptions of one  *)
(* routing key, each of them only with something strictly nearer than the  *)
(* subscription was ever sent; nothing else happens to a feed.             *)
(***************************************************************************)
EXTENDS Integers, Sequences

CONSTANT Infinity   \* farther than anything a subscription can be sent

VARIABLE feed       \* the subscriptions, each with its key and what it got

Init == feed = << >>

\* The distance of the last thing in s, or Infinity if there is none.
LastDist(s) == IF s = << >> THEN Infinity ELSE s[Len(s)].dist

\* t is s and one strictly nearer thing, pushed.
Nearer(s, t) ==
    \E d \in {t[Len(t)]} : t = Append(s, d) /\ d.dist < LastDist(s)

Subscribe ==
    /\ Len(feed') = Len(feed) + 1
    /\ \A n \in DOMAIN feed : feed'[n] = feed[n]
    /\ Len(feed'[Len(feed')].got) <= 1

Announce ==
    /\ Len(feed') = Len(feed)
    /\ \E k \in {feed[n].key : n \in DOMAIN feed} : \A n \in DOMAIN feed :
         feed'[n] # feed[n] =>
           /\ feed[n].key = k
           /\ feed'[n] = [feed[n] EXCEPT !.got = feed'[n].got]
           /\ Nearer(feed[n].got, feed'[n].got)

Next == Subscribe \/ Announce

Spec == Init /\ [][Next]_feed
=============================================================================
