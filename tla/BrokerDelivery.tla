--------------------------- MODULE BrokerDelivery ---------------------------
(***************************************************************************)
(* Delivery, proved: a subscription only ever hears of something strictly  *)
(* nearer, for every tree of brokers and through every loss and restart,   *)
(* and so the brokers implement the feed of module NearestFeed.            *)
(*                                                                         *)
(* StrictlyNearer is not inductive: a push is compared with the cached     *)
(* distance of a GeoClient, not with what its client was sent.  The        *)
(* invariant below ties the two together: the cached distance is that of   *)
(* the last thing sent, and each GeoClient has a ledger entry of its own.  *)
(***************************************************************************)
EXTENDS BrokerRouting

\* Every live GeoClient has the ledger entry its sid names, filed under the
\* broker and the key of its group.
Enrolled ==
    \A b \in Brokers : \A k \in Keys : \A i \in DOMAIN subscribers[b][k] :
        LET sid == subscribers[b][k][i].sid
        IN  /\ sid \in DOMAIN ledger
            /\ ledger[sid].broker = b /\ ledger[sid].key = k

\* No two GeoClients of a group share a ledger entry.
OneEntryEach ==
    \A b \in Brokers : \A k \in Keys : \A i, j \in DOMAIN subscribers[b][k] :
        subscribers[b][k][i].sid = subscribers[b][k][j].sid => i = j

Booked == Enrolled /\ OneEntryEach /\ CachedIsLastSent /\ StrictlyNearer

\* The inductive invariant.
DeliveryInv == TypeOK /\ Booked

-----------------------------------------------------------------------------
\* What the helpers do to the ledger.

\* What the ledger remembers of a push of m to the GeoClient gc.
Push(m, gc) ==
    [id |-> m.id, dist |-> GeoDistance(m.pos, gc.pos), by |-> "push"]

\* The entry e with the delivery d added.
Longer(e, d) == [e EXCEPT !.got = Append(@, d)]

\* A query is answered with at most one publication.
LEMMA QueryReplyOnce ==
  ASSUME NEW b, NEW k, NEW s, QueryReply(b, k, s) # << >>
  PROVE  Len(QueryReply(b, k, s)) = 1
BY DEF QueryReply

\* The entry of a GeoClient that is served gains the push.
LEMMA ServedEntry ==
  ASSUME NEW group, NEW m, NEW served \in SUBSET DOMAIN group,
         \A i, j \in DOMAIN group : group[i].sid = group[j].sid => i = j,
         NEW i \in served, group[i].sid \in DOMAIN ledger
  PROVE  LedgerAfter(group, m, served)[group[i].sid]
           = Longer(ledger[group[i].sid], Push(m, group[i]))
<1>1. i = CHOOSE j \in served : group[j].sid = group[i].sid
  OBVIOUS
<1> QED
  BY <1>1 DEF LedgerAfter, Push, Longer

\* Every other entry stays as it is.
LEMMA OtherEntry ==
  ASSUME NEW group, NEW m, NEW served, NEW n \in DOMAIN ledger,
         \A i \in served : group[i].sid # n
  PROVE  LedgerAfter(group, m, served)[n] = ledger[n]
BY DEF LedgerAfter

\* A GeoClient after a publication: its distance is the push's, if it is served.
LEMMA ClientAfter ==
  ASSUME NEW group \in Seq(GeoClient), NEW m, NEW served, NEW i \in DOMAIN group
  PROVE  /\ GroupAfter(group, m, served)[i].sid = group[i].sid
         /\ GroupAfter(group, m, served)[i].cached_closest_dist =
              IF i \in served THEN GeoDistance(m.pos, group[i].pos)
              ELSE group[i].cached_closest_dist
<1>1. group[i] \in GeoClient
  OBVIOUS
<1> QED
  BY <1>1 DEF GroupAfter, GeoClient

\* The elements of a sequence with one more element.
LEMMA LongerSequence ==
  ASSUME NEW T, NEW s \in Seq(T), NEW d \in T
  PROVE  /\ Append(s, d) # << >>
         /\ Append(s, d)[Len(Append(s, d))] = d
         /\ DOMAIN Append(s, d) = 1 .. Len(s) + 1
         /\ Append(s, d)[Len(s) + 1] = d
         /\ \A i \in 1 .. Len(s) : Append(s, d)[i] = s[i]
BY AppendProperties

\* An entry with one more delivery.
LEMMA LongerEntry ==
  ASSUME NEW e \in LedgerEntry, NEW d \in Delivery
  PROVE  /\ Longer(e, d).key = e.key /\ Longer(e, d).broker = e.broker
         /\ Longer(e, d).got = Append(e.got, d)
         /\ e.got \in Seq(Delivery)
         /\ Longer(e, d) = [e EXCEPT !.got = Append(e.got, d)]
BY DEF LedgerEntry, Longer

\* What the client of a longer entry was sent last.
LEMMA LongerLast ==
  ASSUME NEW e \in LedgerEntry, NEW d \in Delivery
  PROVE  Feed!LastDist(Longer(e, d).got) = d.dist
<1>1. PICK s \in Seq(Delivery) : s = e.got /\ Longer(e, d).got = Append(s, d)
  BY LongerEntry
<1>2. Append(s, d) # << >> /\ Append(s, d)[Len(Append(s, d))] = d
  BY LongerSequence
<1> QED BY <1>1, <1>2 DEF Feed!LastDist

-----------------------------------------------------------------------------
\* Publications.

\* The entry f is e, or an entry of key k with one nearer delivery than e.
Extends(k, e, f) ==
    \/ f = e
    \/ \E d \in Delivery : /\ e.key = k
                           /\ f = Longer(e, d)
                           /\ d.dist < Feed!LastDist(e.got)

\* What an entry looks like after the publication m: untouched, or one push
\* nearer than the last thing in it.
LEMMA EntryAfter ==
  ASSUME DeliveryInv, NEW b \in Brokers, NEW k \in Keys, NEW m \in PublishMsg,
         NEW served \in SUBSET DOMAIN subscribers[b][k],
         \A i \in served : GeoDistance(m.pos, subscribers[b][k][i].pos)
                             < subscribers[b][k][i].cached_closest_dist,
         NEW n \in DOMAIN ledger
  PROVE  Extends(k, ledger[n], LedgerAfter(subscribers[b][k], m, served)[n])
<1> DEFINE group == subscribers[b][k]
           L == LedgerAfter(group, m, served)
<1>1. group \in Seq(GeoClient)
  BY DEF DeliveryInv, TypeOK, GroupTypes
<1>2. CASE \A i \in served : group[i].sid # n
  <2>1. L[n] = ledger[n]
    BY <1>2 DEF LedgerAfter
  <2> QED
    BY <2>1 DEF Extends
<1>3. CASE \E i \in served : group[i].sid = n
  <2>1. PICK i \in served : group[i].sid = n
    BY <1>3
  <2>2. \A x, y \in DOMAIN group : group[x].sid = group[y].sid => x = y
    BY DEF DeliveryInv, Booked, OneEntryEach
  <2>3. L[n] = Longer(ledger[n], Push(m, group[i]))
    <3> HIDE DEF group
    <3> QED
      BY <2>1, <2>2, ServedEntry DEF group
  <2>4. Push(m, group[i]) \in Delivery
    <3>1. group[i] \in GeoClient
      BY <1>1
    <3>2. group[i].pos \in Points /\ m.pos \in Points /\ m.id \in Nat
      BY <3>1 DEF GeoClient, PublishMsg
    <3>3. GeoDistance(m.pos, group[i].pos) \in Nat
      BY <3>2, GeoDistanceNat
    <3> QED
      BY <3>2, <3>3 DEF Push, Delivery
  <2>5. ledger[n].key = k
    BY <2>1 DEF DeliveryInv, Booked, Enrolled
  <2>6. Push(m, group[i]).dist < Feed!LastDist(ledger[n].got)
    <3>1. Push(m, group[i]).dist < group[i].cached_closest_dist
      BY DEF Push
    <3>2. group[i].cached_closest_dist = Feed!LastDist(ledger[n].got)
      BY <2>1 DEF DeliveryInv, Booked, CachedIsLastSent
    <3> QED
      BY <3>1, <3>2
  <2> QED
    BY <2>3, <2>4, <2>5, <2>6 DEF Extends
<1> QED
  BY <1>2, <1>3

\* Groups and ledger as a publication leaves them, but for what was sent.
SameSids ==
    \A c \in Brokers : \A l \in Keys :
        /\ DOMAIN subscribers'[c][l] = DOMAIN subscribers[c][l]
        /\ \A i \in DOMAIN subscribers[c][l] :
             subscribers'[c][l][i].sid = subscribers[c][l][i].sid
SameOwners ==
    \A n \in DOMAIN ledger : /\ ledger'[n].key = ledger[n].key
                             /\ ledger'[n].broker = ledger[n].broker

LEMMA EnrolledStays ==
  ASSUME Enrolled, SameSids, SameOwners, DOMAIN ledger' = DOMAIN ledger
  PROVE  Enrolled'
BY DEF Enrolled, SameSids, SameOwners

\* The whole of a publication's effect on groups and ledger.
LEMMA PublishBooked ==
  ASSUME DeliveryInv, NEW b \in Brokers, NEW k \in Keys, NEW m \in PublishMsg,
         NEW served \in SUBSET DOMAIN subscribers[b][k],
         \A i \in served : GeoDistance(m.pos, subscribers[b][k][i].pos)
                             < subscribers[b][k][i].cached_closest_dist,
         subscribers' = [subscribers EXCEPT
                           ![b][k] = GroupAfter(subscribers[b][k], m, served)],
         ledger' = LedgerAfter(subscribers[b][k], m, served)
  PROVE  Booked' /\ [Feed!Next]_ledger
<1> DEFINE group == subscribers[b][k]
<1>1. /\ group \in Seq(GeoClient)
      /\ subscribers \in [Brokers -> [Keys -> Seq(GeoClient)]]
      /\ ledger \in Seq(LedgerEntry)
  BY DEF DeliveryInv, TypeOK, GroupTypes, HistoryTypes
<1>2. DOMAIN ledger' = DOMAIN ledger /\ Len(ledger') = Len(ledger)
  BY <1>1, LedgerAfterType DEF DeliveryInv
<1>3. \A n \in DOMAIN ledger : Extends(k, ledger[n], ledger'[n])
  BY EntryAfter
<1>4. \A n \in DOMAIN ledger : /\ ledger'[n].key = ledger[n].key
                               /\ ledger'[n].broker = ledger[n].broker
  <2> TAKE n \in DOMAIN ledger
  <2>1. ledger[n] \in LedgerEntry /\ Extends(k, ledger[n], ledger'[n])
    BY <1>1, <1>3
  <2> QED
    BY <2>1, LongerEntry DEF Extends
<1>5. subscribers'[b][k] = GroupAfter(group, m, served)
      /\ DOMAIN subscribers'[b][k] = DOMAIN group
  BY <1>1, GroupAfterType
<1>6. ASSUME NEW c \in Brokers, NEW l \in Keys, c # b \/ l # k
      PROVE  subscribers'[c][l] = subscribers[c][l]
  BY <1>1, <1>6
<1>7. ASSUME NEW c \in Brokers, NEW l \in Keys
      PROVE  /\ DOMAIN subscribers'[c][l] = DOMAIN subscribers[c][l]
             /\ \A i \in DOMAIN subscribers[c][l] :
                  subscribers'[c][l][i].sid = subscribers[c][l][i].sid
  <2>1. CASE c = b /\ l = k
    <3>1. \A i \in DOMAIN group : GroupAfter(group, m, served)[i].sid = group[i].sid
      BY <1>1, ClientAfter
    <3>2. subscribers[c][l] = group /\ subscribers'[c][l] = GroupAfter(group, m, served)
      BY <1>5, <2>1, Zenon
    <3>3. DOMAIN subscribers'[c][l] = DOMAIN group
      BY <1>5, <2>1, Zenon
    <3> HIDE DEF group
    <3> QED BY <3>1, <3>2, <3>3, Zenon
  <2> QED
    BY <1>6, <2>1
<1>8. Enrolled'
  BY <1>2, <1>4, <1>7, EnrolledStays DEF DeliveryInv, Booked, SameSids, SameOwners
<1>9. OneEntryEach'
  BY <1>7 DEF DeliveryInv, Booked, OneEntryEach
<1>10. CachedIsLastSent'
  <2> SUFFICES ASSUME NEW c \in Brokers, NEW l \in Keys,
                      NEW i \in DOMAIN subscribers[c][l]
               PROVE  subscribers'[c][l][i].cached_closest_dist
                        = Feed!LastDist(ledger'[subscribers[c][l][i].sid].got)
    BY <1>7 DEF CachedIsLastSent
  <2> DEFINE n == subscribers[c][l][i].sid
  <2>1. /\ n \in DOMAIN ledger /\ ledger[n].broker = c /\ ledger[n].key = l
        /\ subscribers[c][l][i].cached_closest_dist = Feed!LastDist(ledger[n].got)
    BY DEF DeliveryInv, Booked, Enrolled, CachedIsLastSent
  <2>2. CASE c = b /\ l = k /\ i \in served
    <3>1. \A x, y \in DOMAIN group : group[x].sid = group[y].sid => x = y
      BY DEF DeliveryInv, Booked, OneEntryEach
    <3>2. ledger'[n] = Longer(ledger[n], Push(m, group[i]))
      BY <2>1, <2>2, <3>1, ServedEntry
    <3>3. Push(m, group[i]) \in Delivery
      <4>1. group[i] \in GeoClient
        BY <1>1, <2>2
      <4>2. group[i].pos \in Points /\ m.pos \in Points /\ m.id \in Nat
        BY <4>1 DEF GeoClient, PublishMsg
      <4>3. GeoDistance(m.pos, group[i].pos) \in Nat
        BY <4>2, GeoDistanceNat
      <4> QED
        BY <4>2, <4>3 DEF Push, Delivery
    <3>4. ledger[n] \in LedgerEntry
      BY <1>1, <2>1
    <3>5. Feed!LastDist(ledger'[n].got) = Push(m, group[i]).dist
      BY <3>2, <3>3, <3>4, LongerLast, Zenon
    <3>6. subscribers'[c][l][i].cached_closest_dist = Push(m, group[i]).dist
      BY <1>1, <1>5, <2>2, ClientAfter DEF Push
    <3> QED
      BY <3>5, <3>6, Zenon
  <2>3. CASE ~(c = b /\ l = k /\ i \in served)
    <3>1. \A j \in served : group[j].sid # n
      <4> SUFFICES ASSUME NEW j \in served, group[j].sid = n PROVE FALSE
        OBVIOUS
      <4>1. c = b /\ l = k
        BY <2>1 DEF DeliveryInv, Booked, Enrolled
      <4> QED
        BY <2>3, <4>1 DEF DeliveryInv, Booked, OneEntryEach
    <3>2. ledger'[n] = ledger[n]
      BY <2>1, <3>1, OtherEntry
    <3>3. subscribers'[c][l][i].cached_closest_dist
            = subscribers[c][l][i].cached_closest_dist
      BY <1>1, <1>5, <1>6, <2>3, ClientAfter
    <3> QED
      BY <2>1, <3>2, <3>3
  <2> QED
    BY <2>2, <2>3
<1>11. StrictlyNearer'
  <2> SUFFICES ASSUME NEW n \in DOMAIN ledger,
                      NEW i \in DOMAIN ledger'[n].got,
                      NEW j \in DOMAIN ledger'[n].got, i < j
               PROVE  ledger'[n].got[j].dist < ledger'[n].got[i].dist
    BY <1>2 DEF StrictlyNearer
  <2> DEFINE got == ledger[n].got
  <2>1. ledger[n] \in LedgerEntry /\ got \in Seq(Delivery)
    <3>1. ledger[n] \in LedgerEntry
      BY <1>1
    <3> QED
      BY <3>1 DEF LedgerEntry
  <2>2. \A x, y \in DOMAIN got : x < y => got[y].dist < got[x].dist
    BY DEF DeliveryInv, Booked, StrictlyNearer
  <2>3. CASE ledger'[n] = ledger[n]
    BY <2>2, <2>3
  <2>4. ASSUME NEW d \in Delivery, ledger'[n] = Longer(ledger[n], d),
               d.dist < Feed!LastDist(got)
        PROVE  ledger'[n].got[j].dist < ledger'[n].got[i].dist
    <3>1. ledger'[n].got = Append(got, d)
      BY <2>1, <2>4, LongerEntry
    <3>2. /\ i \in 1 .. Len(got) /\ j \in 1 .. Len(got) + 1
          /\ ledger'[n].got[i] = got[i]
      BY <2>1, <3>1, LongerSequence
    <3>3. CASE j \in 1 .. Len(got)
      BY <2>1, <2>2, <3>1, <3>2, <3>3, LongerSequence
    <3>4. CASE j = Len(got) + 1
      <4>1. ledger'[n].got[j] = d
        BY <2>1, <3>1, <3>4, LongerSequence
      <4>2. got # << >> /\ Len(got) \in DOMAIN got /\ i \in DOMAIN got
        BY <2>1, <3>2
      <4>3. d.dist < got[Len(got)].dist
        BY <2>4, <4>2 DEF Feed!LastDist
      <4>4. got[i].dist \in Nat /\ got[Len(got)].dist \in Nat /\ d.dist \in Nat
        <5>1. got[i] \in Delivery /\ got[Len(got)] \in Delivery
          BY <2>1, <4>2
        <5> QED
          BY <5>1 DEF Delivery
      <4>5. i = Len(got) \/ got[Len(got)].dist < got[i].dist
        BY <2>1, <2>2, <4>2
      <4> QED
        BY <3>2, <4>1, <4>3, <4>4, <4>5
    <3> QED
      BY <2>1, <3>2, <3>3, <3>4
  <2> QED
    BY <1>3, <2>3, <2>4 DEF Extends
<1>12. [Feed!Next]_ledger
  <2>1. CASE \A n \in DOMAIN ledger : ledger'[n] = ledger[n]
    <3>1. ledger' = ledger
      BY <1>1, <2>1 DEF LedgerAfter
    <3> QED
      BY <3>1
  <2>2. CASE \E n \in DOMAIN ledger : ledger'[n] # ledger[n]
    <3>1. PICK n \in DOMAIN ledger : ledger'[n] # ledger[n]
      BY <2>2
    <3>2. k \in {ledger[x].key : x \in DOMAIN ledger}
      BY <1>3, <3>1 DEF Extends
    <3>3. ASSUME NEW x \in DOMAIN ledger, ledger'[x] # ledger[x]
          PROVE  /\ ledger[x].key = k
                 /\ ledger'[x] = [ledger[x] EXCEPT !.got = ledger'[x].got]
                 /\ Feed!Nearer(ledger[x].got, ledger'[x].got)
      <4>1. ledger[x] \in LedgerEntry
        BY <1>1
      <4>2. PICK d \in Delivery : /\ ledger[x].key = k
                                  /\ ledger'[x] = Longer(ledger[x], d)
                                  /\ d.dist < Feed!LastDist(ledger[x].got)
        BY <1>3, <3>3 DEF Extends
      <4>3. /\ ledger'[x].got = Append(ledger[x].got, d)
            /\ ledger[x].got \in Seq(Delivery)
            /\ ledger'[x] = [ledger[x] EXCEPT !.got = Append(ledger[x].got, d)]
        BY <4>1, <4>2, LongerEntry
      <4>4. d = ledger'[x].got[Len(ledger'[x].got)]
        BY <4>3, LongerSequence
      <4>5. Feed!Nearer(ledger[x].got, ledger'[x].got)
        BY <4>2, <4>3, <4>4 DEF Feed!Nearer
      <4> QED
        BY <4>2, <4>3, <4>5
    <3>4. Feed!Announce
      BY <1>2, <3>2, <3>3 DEF Feed!Announce
    <3> QED
      BY <3>4 DEF Feed!Next
  <2> QED
    BY <2>1, <2>2
<1> QED
  BY <1>8, <1>9, <1>10, <1>11, <1>12 DEF Booked

\* handlePublish, wherever the publication came from.
LEMMA HandlePublishBooked ==
  ASSUME DeliveryInv, NEW b \in Brokers, NEW m \in PublishMsg, NEW from,
         NEW upIn, NEW downIn, HandlePublish(b, m, from, upIn, downIn)
  PROVE  Booked' /\ [Feed!Next]_ledger
<1> DEFINE k == PubKey(b, m, from)
<1>1. k \in Keys
  BY PubKeyType
<1>2. PICK hit \in Outcomes(b, k, m) :
        /\ subscribers' = [subscribers EXCEPT
             ![b][k] = GroupAfter(subscribers[b][k], m, Served(b, k, m, hit))]
        /\ ledger' = LedgerAfter(subscribers[b][k], m, Served(b, k, m, hit))
  BY DEF HandlePublish
<1> HIDE DEF k
<1> DEFINE served == Served(b, k, m, hit)
<1>3. /\ served \in SUBSET DOMAIN subscribers[b][k]
      /\ \A i \in served : GeoDistance(m.pos, subscribers[b][k][i].pos)
                             < subscribers[b][k][i].cached_closest_dist
  BY DEF Served
<1> HIDE DEF served
<1> QED
  BY <1>1, <1>2, <1>3, PublishBooked DEF served

\* A publisher's own publication.
LEMMA ClientPublishBooked ==
  ASSUME DeliveryInv, NEW p \in Publications, ClientPublish(p)
  PROVE  Booked' /\ [Feed!Next]_ledger
<1>1. TypeOK
  BY DEF DeliveryInv
<1>2. p.broker \in Brokers
  BY <1>1, ByClient
<1>3. PICK m \in PublishMsg : HandlePublish(p.broker, m, NoBroker, up, down)
  BY <1>1, ByClient
<1> QED
  BY <1>2, <1>3, HandlePublishBooked

\* A publication that climbs from a child.
LEMMA ChildPublishBooked ==
  ASSUME DeliveryInv, NEW c \in Brokers, ChildPublish(c)
  PROVE  Booked' /\ [Feed!Next]_ledger
<1>1. Parent[c] \in Brokers
  BY BrokerAssumption DEF ChildPublish, Bound
<1>2. Head(up[c]) \in PublishMsg
  <2>1. Head(up[c]) \in UpMsg
    BY TakenType DEF ChildPublish, DeliveryInv, TypeOK, NetworkTypes
  <2> QED
    BY <2>1, UpMsgTypes DEF ChildPublish
<1>3. HandlePublish(Parent[c], Head(up[c]), c, [up EXCEPT ![c] = Tail(@)], down)
  BY DEF ChildPublish
<1> QED
  BY <1>1, <1>2, <1>3, HandlePublishBooked

\* A publication that comes down from the parent.
LEMMA ParentPublishBooked ==
  ASSUME DeliveryInv, NEW b \in Brokers, ParentPublish(b)
  PROVE  Booked' /\ [Feed!Next]_ledger
<1>1. Head(down[b]) \in PublishMsg
  <2>1. Head(down[b]) \in DownMsg
    BY TakenType DEF ParentPublish, DeliveryInv, TypeOK, NetworkTypes
  <2> QED
    BY <2>1, DownMsgTypes DEF ParentPublish
<1>2. HandlePublish(b, Head(down[b]), Parent[b],
                    up, [down EXCEPT ![b] = Tail(@)])
  BY DEF ParentPublish
<1> QED
  BY <1>1, <1>2, HandlePublishBooked

-----------------------------------------------------------------------------
\* Subscriptions: a new GeoClient with a new entry.

\* handleSubscribe from a client: the new GeoClient starts at the distance of the
\* query's answer, or at infinity without one, and gets a fresh entry.
LEMMA ClientSubscribeBooked ==
  ASSUME DeliveryInv, NEW s \in Subscriptions, ClientSubscribe(s)
  PROVE  Booked' /\ [Feed!Next]_ledger
<1> DEFINE b == s.broker
           k == SubKey(b, s)
           e == [client |-> s.client, broker |-> b, key |-> k, at |-> now,
                 got |-> QueryReply(b, k, s)]
           sid == Len(ledger) + 1
<1>0. PICK bm \in Blind(s.enc, s.svc) :
        subscribers' = [subscribers EXCEPT ![b][k] = Append(@, NewClient(b, k, s, bm))]
  BY DEF ClientSubscribe
<1> DEFINE gc == NewClient(b, k, s, bm)
<1>1. s \in SubscriptionType /\ b \in Brokers
  BY BrokerAssumption DEF SubscriptionType
<1>2. k \in Keys
  BY <1>1, SubKeyType
<1>3. /\ subscribers \in [Brokers -> [Keys -> Seq(GeoClient)]]
      /\ ledger \in Seq(LedgerEntry)
  BY DEF DeliveryInv, TypeOK, GroupTypes, HistoryTypes
<1>4. /\ subscribers' = [subscribers EXCEPT ![b][k] = Append(@, gc)]
      /\ ledger' = Append(ledger, e)
  BY <1>0 DEF ClientSubscribe
<1>5. /\ e.broker = b /\ e.key = k /\ gc.sid = sid
      /\ gc.cached_closest_dist = Feed!LastDist(e.got)
      /\ \A i, j \in DOMAIN e.got : ~(i < j)
      /\ Len(e.got) <= 1
  <2>1. gc.sid = sid
    BY DEF NewClient
  <2>2. CASE QueryReply(b, k, s) = << >>
    <3>1. gc.cached_closest_dist = DoubleMax
      BY <2>2 DEF NewClient
    <3> HIDE DEF gc
    <3> QED
      BY <2>1, <2>2, <3>1 DEF Feed!LastDist
  <2>3. CASE QueryReply(b, k, s) # << >>
    <3>1. /\ Len(QueryReply(b, k, s)) = 1
          /\ QueryReply(b, k, s) \in Seq(Delivery)
      BY <1>1, <1>2, <2>3, QueryReplyOnce, QueryReplyType DEF DeliveryInv
    <3>2. gc.cached_closest_dist = QueryReply(b, k, s)[1].dist
      BY <2>3 DEF NewClient
    <3>3. e.broker = b /\ e.key = k /\ e.got = QueryReply(b, k, s)
      OBVIOUS
    <3> HIDE DEF gc, e
    <3>4. \A i, j \in DOMAIN e.got : ~(i < j)
      BY <3>1, <3>3
    <3> QED
      BY <2>1, <2>3, <3>1, <3>2, <3>3, <3>4 DEF Feed!LastDist
  <2> QED
    BY <2>2, <2>3
<1>6. gc \in GeoClient /\ e \in LedgerEntry
  <2>1. gc \in GeoClient
    <3>1. bm \in Blinded \cup {NoBlind}
      BY <1>1, BlindType DEF DeliveryInv, TypeOK, SubscriptionType
    <3> HIDE DEF b, k
    <3> QED
      BY <1>1, <1>2, <3>1, NewClientType DEF DeliveryInv
  <2>2. /\ QueryReply(b, k, s) \in Seq(Delivery) /\ now \in Nat /\ s.client \in Clients
    BY <1>1, <1>2, QueryReplyType
       DEF DeliveryInv, TypeOK, ProcessTypes, SubscriptionType
  <2> QED
    BY <1>1, <1>2, <2>1, <2>2 DEF LedgerEntry
<1> HIDE DEF b, k, gc, e
<1>7. /\ DOMAIN ledger' = 1 .. sid /\ DOMAIN ledger = 1 .. Len(ledger)
      /\ Len(ledger) \in Nat /\ sid \notin DOMAIN ledger
      /\ ledger'[sid] = e /\ Len(ledger') = sid
      /\ \A n \in DOMAIN ledger : ledger'[n] = ledger[n]
  BY <1>3, <1>4, <1>6, AppendProperties
<1>8. ASSUME NEW c \in Brokers, NEW l \in Keys,
             NEW i \in DOMAIN subscribers'[c][l]
      PROVE  \/ /\ i \in DOMAIN subscribers[c][l]
                /\ subscribers'[c][l][i] = subscribers[c][l][i]
             \/ /\ c = b /\ l = k /\ i = Len(subscribers[b][k]) + 1
                /\ subscribers'[c][l][i] = gc
  <2>1. CASE c = b /\ l = k
    <3>1. subscribers'[c][l] = Append(subscribers[b][k], gc)
      BY <1>1, <1>2, <1>3, <1>4, <2>1
    <3>2. subscribers[b][k] \in Seq(GeoClient)
      BY <1>1, <1>2, <1>3
    <3> QED
      BY <1>6, <2>1, <3>1, <3>2, AppendProperties
  <2>2. CASE ~(c = b /\ l = k)
    BY <1>1, <1>2, <1>3, <1>4, <2>2
  <2> QED
    BY <2>1, <2>2
<1>9. ASSUME NEW c \in Brokers, NEW l \in Keys,
             NEW i \in DOMAIN subscribers[c][l]
      PROVE  /\ subscribers[c][l][i].sid \in DOMAIN ledger
             /\ ledger[subscribers[c][l][i].sid].broker = c
             /\ ledger[subscribers[c][l][i].sid].key = l
             /\ subscribers[c][l][i].cached_closest_dist
                  = Feed!LastDist(ledger[subscribers[c][l][i].sid].got)
  BY DEF DeliveryInv, Booked, Enrolled, CachedIsLastSent
<1>10. /\ \A n \in DOMAIN ledger : n \in DOMAIN ledger' /\ ledger'[n] = ledger[n]
       /\ sid \in DOMAIN ledger' /\ sid \notin DOMAIN ledger /\ ledger'[sid] = e
  BY <1>7
<1> HIDE DEF sid
<1>11. Enrolled'
  <2> SUFFICES ASSUME NEW c \in Brokers, NEW l \in Keys,
                      NEW i \in DOMAIN subscribers'[c][l],
                      NEW n, n = subscribers'[c][l][i].sid
               PROVE  n \in DOMAIN ledger' /\ ledger'[n].broker = c /\ ledger'[n].key = l
    BY DEF Enrolled
  <2>1. CASE subscribers'[c][l][i] = gc /\ c = b /\ l = k
    BY <1>5, <1>10, <2>1
  <2>2. CASE i \in DOMAIN subscribers[c][l] /\ subscribers'[c][l][i] = subscribers[c][l][i]
    BY <1>10, <1>9, <2>2
  <2> QED BY <1>8, <2>1, <2>2
<1>12. OneEntryEach'
  <2> SUFFICES ASSUME NEW c \in Brokers, NEW l \in Keys,
                      NEW i \in DOMAIN subscribers'[c][l],
                      NEW j \in DOMAIN subscribers'[c][l],
                      subscribers'[c][l][i].sid = subscribers'[c][l][j].sid
               PROVE  i = j
    BY DEF OneEntryEach
  <2>1. \A x, y \in DOMAIN subscribers[c][l] :
          subscribers[c][l][x].sid = subscribers[c][l][y].sid => x = y
    BY DEF DeliveryInv, Booked, OneEntryEach
  <2> QED
    BY <1>5, <1>10, <1>8, <1>9, <2>1
<1>13. CachedIsLastSent'
  <2> SUFFICES ASSUME NEW c \in Brokers, NEW l \in Keys,
                      NEW i \in DOMAIN subscribers'[c][l]
               PROVE  subscribers'[c][l][i].cached_closest_dist
                        = Feed!LastDist(ledger'[subscribers'[c][l][i].sid].got)
    BY DEF CachedIsLastSent
  <2> QED
    BY <1>5, <1>10, <1>8, <1>9
<1> USE DEF sid
<1>14. StrictlyNearer'
  <2> SUFFICES ASSUME NEW n \in DOMAIN ledger',
                      NEW i \in DOMAIN ledger'[n].got,
                      NEW j \in DOMAIN ledger'[n].got, i < j
               PROVE  ledger'[n].got[j].dist < ledger'[n].got[i].dist
    BY DEF StrictlyNearer
  <2>1. n \in DOMAIN ledger \/ n = sid
    BY <1>7
  <2> QED
    BY <1>5, <1>7, <2>1 DEF DeliveryInv, Booked, StrictlyNearer
<1>15. Feed!Subscribe
  BY <1>5, <1>7 DEF Feed!Subscribe
<1> QED
  BY <1>11, <1>12, <1>13, <1>14, <1>15 DEF Booked, Feed!Next

-----------------------------------------------------------------------------
\* All other steps: groups stay or go as a whole, the ledger stays.

\* Losing whole groups disturbs nothing: the entries of the others stay theirs.
LEMMA GroupsKeptOrGone ==
  ASSUME Booked, ledger' = ledger,
         \A b \in Brokers : \A k \in Keys :
           \/ subscribers'[b][k] = subscribers[b][k]
           \/ subscribers'[b][k] = << >>
  PROVE  Booked' /\ [Feed!Next]_ledger
<1>1. \A b \in Brokers : \A k \in Keys : \A i \in DOMAIN subscribers'[b][k] :
        subscribers'[b][k] = subscribers[b][k]
  OBVIOUS
<1>2. Enrolled'
  BY <1>1 DEF Booked, Enrolled
<1>3. OneEntryEach'
  BY <1>1 DEF Booked, OneEntryEach
<1>4. CachedIsLastSent'
  BY <1>1 DEF Booked, CachedIsLastSent
<1>5. StrictlyNearer'
  BY DEF Booked, StrictlyNearer
<1> QED
  BY <1>2, <1>3, <1>4, <1>5 DEF Booked

\* Steps that touch neither groups nor ledger.
LEMMA UnchangedBooked ==
  ASSUME Booked, UNCHANGED <<subscribers, ledger>>
  PROVE  Booked' /\ [Feed!Next]_ledger
BY GroupsKeptOrGone

\* The cleanup erases whole groups.
LEMMA SweepBooked ==
  ASSUME DeliveryInv, NEW b \in Brokers, Sweep(b)
  PROVE  Booked' /\ [Feed!Next]_ledger
<1>1. ledger' = ledger
  BY DEF Sweep, historyVars
<1>2. CASE CleanupDue(b)
  <2>1. subscribers' = Without(subscribers, b, Expired(b), << >>)
    BY <1>2 DEF Sweep, cleanupExpired
  <2>2. subscribers \in [Brokers -> [Keys -> Seq(GeoClient)]]
    BY DEF DeliveryInv, TypeOK, GroupTypes
  <2>3. \A c \in Brokers : \A k \in Keys :
          subscribers'[c][k] = subscribers[c][k] \/ subscribers'[c][k] = << >>
    BY <2>1, <2>2 DEF Without
  <2> QED
    BY <1>1, <2>3, GroupsKeptOrGone DEF DeliveryInv
<1>3. CASE ~CleanupDue(b)
  BY <1>1, <1>3, UnchangedBooked DEF Sweep, DeliveryInv
<1> QED
  BY <1>2, <1>3

\* A kill erases all groups of one broker; what its clients were sent stays sent.
LEMMA CrashBooked ==
  ASSUME DeliveryInv, NEW b \in Brokers, Crash(b)
  PROVE  Booked' /\ [Feed!Next]_ledger
<1>1. /\ ledger' = ledger
      /\ subscribers' = [subscribers EXCEPT ![b] = EmptyKeyed]
  BY DEF Crash, historyVars
<1>2. subscribers \in [Brokers -> [Keys -> Seq(GeoClient)]]
  BY DEF DeliveryInv, TypeOK, GroupTypes
<1>3. \A c \in Brokers : \A k \in Keys :
        subscribers'[c][k] = subscribers[c][k] \/ subscribers'[c][k] = << >>
  BY <1>1, <1>2 DEF EmptyKeyed
<1> QED
  BY <1>1, <1>3, GroupsKeptOrGone DEF DeliveryInv

\* The steps that touch neither a group nor the ledger.
LEMMA QuietSteps ==
  ASSUME NEW b \in Brokers,
         \/ Starts(b) \/ Hello(b) \/ ChildSubscribe(b) \/ ChildRegion(b)
         \/ HelloAck(b) \/ EpollTimeout(b) \/ StatsRequest(b)
         \/ LoseUp(b) \/ LoseDown(b)
  PROVE  UNCHANGED <<subscribers, ledger>>
<1>1. Starts(b) => UNCHANGED <<subscribers, ledger>>
  BY DEF Starts, Bind, GenerateKey, WriteKeyFile, UnlinkFullKeyFile,
    WriteFullKeyFile, LoadKey, FailFast,
         tableVars, groupVars, historyVars
<1>2. Hello(b) => UNCHANGED <<subscribers, ledger>>
  BY DEF Hello, groupVars, historyVars
<1>3. ChildSubscribe(b) => UNCHANGED <<subscribers, ledger>>
  BY DEF ChildSubscribe, groupVars, historyVars
<1>4. ChildRegion(b) => UNCHANGED <<subscribers, ledger>>
  BY DEF ChildRegion, groupVars, historyVars
<1>5. HelloAck(b) \/ EpollTimeout(b) \/ StatsRequest(b)
        => UNCHANGED <<subscribers, ledger>>
  BY DEF HelloAck, EpollTimeout, StatsRequest, groupVars, historyVars
<1>6. LoseUp(b) \/ LoseDown(b) => UNCHANGED <<subscribers, ledger>>
  BY DEF LoseUp, LoseDown, tableVars, groupVars, historyVars
<1> QED
  BY <1>1, <1>2, <1>3, <1>4, <1>5, <1>6

-----------------------------------------------------------------------------
\* The invariant and the theorems.

\* Without subscriptions there is nothing to book.
LEMMA InitBooked == Init => Booked /\ Feed!Init
<1> SUFFICES ASSUME Init PROVE Booked /\ Feed!Init
  OBVIOUS
<1>1. /\ ledger = << >>
      /\ \A b \in Brokers : \A k \in Keys : subscribers[b][k] = << >>
  BY DEF Init, EmptyKeyed
<1> QED
  BY <1>1 DEF Booked, Enrolled, OneEntryEach, CachedIsLastSent, StrictlyNearer,
              Feed!Init

\* Every step, by the disjuncts of Next.
LEMMA NextBooked == DeliveryInv /\ [Next]_vars => Booked' /\ [Feed!Next]_ledger
<1> SUFFICES ASSUME DeliveryInv, [Next]_vars PROVE Booked' /\ [Feed!Next]_ledger
  OBVIOUS
<1> DEFINE Goal == Booked' /\ [Feed!Next]_ledger
<1>1. Booked
  BY DEF DeliveryInv
<1>2. CASE FromClients
  <2>1. ASSUME NEW h \in Beats, Heartbeat(h) PROVE Goal
    BY <1>1, <2>1, UnchangedBooked DEF Heartbeat
  <2> QED
    BY <1>2, <2>1, ClientSubscribeBooked, ClientPublishBooked DEF FromClients
<1>3. ASSUME NEW b \in Brokers,
             Starts(b) \/ EpollTimeout(b) \/ StatsRequest(b) \/ LoseUp(b) \/ LoseDown(b)
      PROVE  Goal
  BY <1>1, <1>3, QuietSteps, UnchangedBooked
<1>4. ASSUME NEW b \in Brokers, FromChild(b) PROVE Goal
  BY <1>1, <1>4, ChildPublishBooked, QuietSteps, UnchangedBooked DEF FromChild
<1>5. ASSUME NEW b \in Brokers, FromParent(b) PROVE Goal
  BY <1>1, <1>5, ParentPublishBooked, QuietSteps, UnchangedBooked DEF FromParent
<1>6. ASSUME NEW b \in Brokers, Sweep(b) \/ Crash(b) PROVE Goal
  BY <1>6, SweepBooked, CrashBooked
<1>7. CASE Tick
  BY <1>1, <1>7, UnchangedBooked DEF Tick, tableVars, groupVars, historyVars
<1>8. CASE UNCHANGED vars
  BY <1>1, <1>8, UnchangedBooked DEF vars, tableVars, groupVars, historyVars
<1> HIDE DEF Goal
<1> QED
  BY <1>2, <1>3, <1>4, <1>5, <1>6, <1>7, <1>8 DEF Next, Goal

\* The inductive invariant: every GeoClient has a ledger entry of its own and
\* remembers the distance of the last thing that was sent on its behalf.
THEOREM DeliveryInvariant == Spec => []DeliveryInv
<1>1. Init => DeliveryInv
  BY InitTypes, InitBooked DEF DeliveryInv
<1>2. DeliveryInv /\ [Next]_vars => DeliveryInv'
  BY NextTypes, NextBooked DEF DeliveryInv
<1> QED
  BY <1>1, <1>2, PTL DEF Spec

\* A subscription is only ever told of something strictly nearer than all it was
\* told before: query replies, pushes, re-subscriptions, expiry, brakes, losses
\* and restarts included.
THEOREM OnlyNearer == Spec => []StrictlyNearer
<1>1. DeliveryInv => StrictlyNearer
  BY DEF DeliveryInv, Booked
<1> QED
  BY <1>1, DeliveryInvariant, PTL

\* cached_closest_dist never runs ahead of, or behind, what was really sent.
THEOREM CachedMatchesSent == Spec => []CachedIsLastSent
<1>1. DeliveryInv => CachedIsLastSent
  BY DEF DeliveryInv, Booked
<1> QED
  BY <1>1, DeliveryInvariant, PTL

\* The brokers implement the feed: whatever they do, seen from the subscribers
\* it is a subscription with at most one answer, or an announcement of one key
\* that adds something strictly nearer to some feeds, or nothing.
THEOREM BrokersImplementFeed == Spec => FeedSpec
<1>1. Init => Feed!Init
  BY InitBooked
<1>2. DeliveryInv /\ [Next]_vars => [Feed!Next]_ledger
  BY NextBooked
<1> QED
  BY <1>1, <1>2, DeliveryInvariant, PTL DEF Spec, FeedSpec, Feed!Spec

-----------------------------------------------------------------------------
\* What reaches the clients of a group.

\* v is blinded under one of the first made keys, and as the service svc.
Sealed(v, svc, made) == v # NoBlind => v.key \in 1 .. made /\ v.svc = svc

\* Whoever is filed under a hashed name sent a blinded value of that service.
SealedGroup(group, k, made) ==
    \A i \in DOMAIN group :
        Sealed(group[i].bm, k.svc, made) /\ (k.h # 0 => group[i].bm # NoBlind)

SealedCopies(copies, made) == \A m \in copies : Sealed(m.bn, m.key.svc, made)

\* The inductive invariant: every blinded value is of a key that was made and of
\* the service its name says.
SealInv ==
    /\ MadeKeys
    /\ \A b \in Brokers : \A k \in Keys : SealedGroup(subscribers[b][k], k, keys_made)
    /\ \A c \in Brokers : SealedCopies(Copies(up[c]) \cup Copies(down[c]), keys_made)

\* Keys are only ever added.
LEMMA MadeNext ==
  ASSUME TypeOK, MadeKeys, [Next]_vars
  PROVE  /\ MadeKeys' /\ keys_made \in Nat /\ keys_made' \in Nat
         /\ keys_made <= keys_made'
<1>1. /\ he_key \in [Brokers -> Nat] /\ key_file \in Nat /\ full_key_file \in Nat
      /\ keys_made \in Nat /\ client_keys \in SUBSET Nat
  BY DEF TypeOK, ProcessTypes
<1>2. CASE UNCHANGED <<phase, he_key, fileVars>>
  BY <1>1, <1>2 DEF MadeKeys, fileVars
<1>3. ASSUME NEW b \in Brokers, Bind(b) \/ FailFast(b)
      PROVE  MadeKeys' /\ UNCHANGED keys_made
  <2>1. UNCHANGED <<he_key, key_file, full_key_file, client_keys, keys_made>>
    BY <1>3 DEF Bind, FailFast, tableVars, worldVars, fileVars
  <2> QED BY <2>1 DEF MadeKeys
<1>4. ASSUME NEW b \in Brokers, GenerateKey(b)
      PROVE  MadeKeys' /\ keys_made' = keys_made + 1
  BY <1>1, <1>4 DEF GenerateKey, MadeKeys, NoKey
<1>5. ASSUME NEW b \in Brokers,
             \/ WriteKeyFile(b) \/ UnlinkFullKeyFile(b) \/ WriteFullKeyFile(b)
             \/ LoadKey(b)
      PROVE  MadeKeys' /\ UNCHANGED keys_made
  <2>1. WriteKeyFile(b) => MadeKeys' /\ UNCHANGED keys_made
    <3>1. WriteKeyFile(b) =>
            /\ key_file' = he_key[b]
            /\ UNCHANGED <<he_key, full_key_file, client_keys, keys_made>>
      BY DEF WriteKeyFile, tableVars
    <3> QED BY <1>1, <3>1 DEF MadeKeys
  <2>4. ASSUME UnlinkFullKeyFile(b) PROVE MadeKeys' /\ UNCHANGED keys_made
    <3>1. /\ full_key_file' = 0
          /\ UNCHANGED <<he_key, key_file, client_keys, keys_made>>
      BY <2>4 DEF UnlinkFullKeyFile, tableVars, NoKey
    <3>2. full_key_file' <= keys_made' /\ key_file' <= keys_made'
      BY <1>1, <3>1 DEF MadeKeys
    <3> QED BY <3>1, <3>2 DEF MadeKeys
  <2>2. WriteFullKeyFile(b) => MadeKeys' /\ UNCHANGED keys_made
    BY <1>1 DEF WriteFullKeyFile, Started, tableVars, MadeKeys
  <2>3. LoadKey(b) => MadeKeys' /\ UNCHANGED keys_made
    BY <1>1 DEF LoadKey, Started, fileVars, MadeKeys
  <2> QED BY <1>5, <2>1, <2>2, <2>3, <2>4
<1>6. ASSUME NEW b \in Brokers, Crash(b)
      PROVE  MadeKeys' /\ UNCHANGED keys_made
  <2>1. /\ he_key' = [he_key EXCEPT ![b] = 0]
        /\ UNCHANGED <<key_file, full_key_file, client_keys, keys_made>>
    BY <1>6 DEF Crash, fileVars, NoKey
  <2> QED BY <1>1, <2>1 DEF MadeKeys
<1>7. keys_made' = keys_made \/ keys_made' = keys_made + 1
  <2>1. CASE UNCHANGED <<phase, he_key, fileVars>>
    BY <2>1 DEF fileVars
  <2> QED BY <1>3, <1>4, <1>5, <1>6, <2>1, OnlyStartsAndKills DEF Starts
<1>8. MadeKeys'
  BY <1>2, <1>3, <1>4, <1>5, <1>6, OnlyStartsAndKills DEF Starts
<1> QED BY <1>1, <1>7, <1>8

\* What was sealed stays sealed when more keys are made.
LEMMA SealedLonger ==
  ASSUME NEW made \in Nat, NEW more \in Nat, made <= more, NEW v, NEW svc,
         Sealed(v, svc, made)
  PROVE  Sealed(v, svc, more)
BY DEF Sealed

\* A client blinds the service it means, with a key it loaded.
LEMMA BlindSealed ==
  ASSUME TypeOK, MadeKeys, NEW enc \in BOOLEAN, NEW svc \in Services,
         NEW v \in Blind(enc, svc)
  PROVE  Sealed(v, svc, keys_made) /\ (enc => v # NoBlind)
<1>1. client_keys \in SUBSET Nat /\ keys_made \in Nat
  BY DEF TypeOK, ProcessTypes
<1>2. CASE enc
  <2>1. v.key \in client_keys \ {NoKey} /\ v.svc = svc /\ v \in Blinded
    BY <1>1, <1>2 DEF Blind, Blinded, NoKey
  <2>2. v.key \in 1 .. keys_made
    <3>1. PICK key \in client_keys : key = v.key /\ key # 0
      BY <2>1 DEF NoKey
    <3>2. key \in Nat /\ key <= keys_made
      BY <1>1, <3>1 DEF MadeKeys
    <3> QED BY <1>1, <3>1, <3>2
  <2> QED BY <2>1, <2>2, BrokerAssumption DEF Sealed
<1>3. CASE ~enc
  BY <1>3 DEF Blind, Sealed
<1> QED BY <1>2, <1>3

\* A group keeps what its clients sent, or goes as a whole.
KeepsClients(new, old) ==
    \/ new = << >>
    \/ DOMAIN new = DOMAIN old /\ \A i \in DOMAIN old : new[i].bm = old[i].bm

LEMMA PublishKeepsClients ==
  ASSUME TypeOK, NEW b \in Brokers, NEW m \in PublishMsg, NEW from, NEW upIn,
         NEW downIn, HandlePublish(b, m, from, upIn, downIn),
         NEW a \in Brokers, NEW l \in Keys
  PROVE  KeepsClients(subscribers'[a][l], subscribers[a][l])
<1>1. PICK k \in Keys : k = PubKey(b, m, from)
  BY PubKeyType
<1>2. PICK hit \in Outcomes(b, k, m) :
        subscribers' = [subscribers EXCEPT
          ![b][k] = GroupAfter(subscribers[b][k], m, Served(b, k, m, hit))]
  BY <1>1 DEF HandlePublish
<1>3. subscribers \in [Brokers -> [Keys -> Seq(GeoClient)]]
  BY DEF TypeOK, GroupTypes
<1>4. KeepsClients(GroupAfter(subscribers[b][k], m, Served(b, k, m, hit)), subscribers[b][k])
  <2>1. \A i \in DOMAIN subscribers[b][k] : subscribers[b][k][i] \in GeoClient
    BY <1>3
  <2> QED BY <2>1 DEF KeepsClients, GroupAfter, GeoClient
<1>5. CASE a = b /\ l = k
  <2>1. subscribers'[a][l] = GroupAfter(subscribers[b][k], m, Served(b, k, m, hit))
    BY <1>2, <1>3, <1>5
  <2> QED BY <1>4, <1>5, <2>1
<1>6. CASE ~(a = b /\ l = k)
  BY <1>2, <1>3, <1>6 DEF KeepsClients
<1> QED BY <1>5, <1>6

\* A new client under a hashed name has sent a blinded value.
LEMMA SubscribeSealed ==
  ASSUME TypeOK, SealInv, NEW s \in Subscriptions, ClientSubscribe(s),
         NEW a \in Brokers, NEW l \in Keys
  PROVE  SealedGroup(subscribers'[a][l], l, keys_made)
<1>1. /\ s \in SubscriptionType /\ s.broker \in Brokers /\ s.svc \in Services
      /\ s.enc \in BOOLEAN
  BY BrokerAssumption DEF SubscriptionType
<1>2. PICK k \in Keys : k = SubKey(s.broker, s)
  BY <1>1, SubKeyType
<1>3. PICK bm \in Blind(s.enc, s.svc) :
        subscribers' = [subscribers EXCEPT
          ![s.broker][k] = Append(@, NewClient(s.broker, k, s, bm))]
  BY <1>2 DEF ClientSubscribe
<1>4. Sealed(bm, s.svc, keys_made) /\ (s.enc => bm # NoBlind)
  BY <1>1, <1>3, BlindSealed DEF SealInv
<1>5. k.svc = s.svc /\ (k.h # 0 => s.enc)
  BY <1>2 DEF SubKey, Name, hashServiceName
<1>6. /\ subscribers \in [Brokers -> [Keys -> Seq(GeoClient)]]
      /\ SealedGroup(subscribers[a][l], l, keys_made)
  BY DEF TypeOK, GroupTypes, SealInv
<1>7. CASE a = s.broker /\ l = k
  <2>1. PICK gc : gc = NewClient(s.broker, k, s, bm)
    OBVIOUS
  <2>2. gc.bm = bm
    BY <2>1 DEF NewClient
  <2>3. subscribers'[a][l] = Append(subscribers[a][l], gc)
    BY <1>3, <1>6, <1>7, <2>1
  <2>4. \A i \in DOMAIN subscribers'[a][l] :
          \/ subscribers'[a][l][i] = gc
          \/ i \in DOMAIN subscribers[a][l]
               /\ subscribers'[a][l][i] = subscribers[a][l][i]
    BY <1>6, <2>3
  <2>5. Sealed(gc.bm, l.svc, keys_made) /\ (l.h # 0 => gc.bm # NoBlind)
    BY <1>4, <1>5, <1>7, <2>2
  <2> QED BY <1>6, <2>4, <2>5, Zenon DEF SealedGroup
<1>8. CASE ~(a = s.broker /\ l = k)
  <2>1. subscribers'[a][l] = subscribers[a][l]
    BY <1>3, <1>6, <1>8
  <2> QED BY <1>6, <2>1
<1> QED BY <1>7, <1>8

\* What is handled is sealed, and so is what else is on its way.
LEMMA HandledSealed ==
  ASSUME TypeOK, SealInv, Publishing
  PROVE  \E b \in Brokers, m \in PublishMsg : \E from :
         \E upIn \in [Brokers -> Seq(UpMsg)], downIn \in [Brokers -> Seq(DownMsg)] :
            /\ HandlePublish(b, m, from, upIn, downIn)
            /\ Sealed(m.bn, m.key.svc, keys_made)
            /\ \A c \in Brokers : /\ Copies(upIn[c]) \subseteq Copies(up[c])
                                  /\ Copies(downIn[c]) \subseteq Copies(down[c])
<1> DEFINE Goal(b, m, from, upIn, downIn) ==
             /\ b \in Brokers /\ m \in PublishMsg
             /\ upIn \in [Brokers -> Seq(UpMsg)] /\ downIn \in [Brokers -> Seq(DownMsg)]
             /\ HandlePublish(b, m, from, upIn, downIn)
             /\ Sealed(m.bn, m.key.svc, keys_made)
             /\ \A c \in Brokers : /\ Copies(upIn[c]) \subseteq Copies(up[c])
                                   /\ Copies(downIn[c]) \subseteq Copies(down[c])
<1>1. /\ up \in [Brokers -> Seq(UpMsg)] /\ down \in [Brokers -> Seq(DownMsg)]
      /\ \A c \in Brokers : SealedCopies(Copies(up[c]) \cup Copies(down[c]), keys_made)
  BY DEF TypeOK, NetworkTypes, SealInv
<1>2. ASSUME NEW p \in Publications, ClientPublish(p)
      PROVE  \E m : Goal(p.broker, m, NoBroker, up, down)
  <2>1. /\ p.broker \in Brokers /\ p.svc \in Services /\ p.enc \in BOOLEAN
    BY BrokerAssumption DEF PublicationType
  <2>2. PICK m \in PublishMsg :
          FromPublisher(p, m) /\ HandlePublish(p.broker, m, NoBroker, up, down)
    BY <1>2, Published
  <2>3. m.bn \in Blind(p.enc, p.svc) /\ m.key.svc = p.svc
    BY <2>2 DEF FromPublisher, Name
  <2>4. Sealed(m.bn, m.key.svc, keys_made)
    BY <2>1, <2>3, BlindSealed DEF SealInv
  <2>5. Goal(p.broker, m, NoBroker, up, down)
    BY <1>1, <2>1, <2>2, <2>4
  <2> QED BY <2>5
<1>3. ASSUME NEW c \in Brokers, ChildPublish(c)
      PROVE  Goal(Parent[c], Head(up[c]), c, [up EXCEPT ![c] = Tail(@)], down)
  <2>1. /\ Parent[c] \in Brokers /\ Head(up[c]) \in PublishMsg
        /\ up[c] # << >> /\ Head(up[c]).type = "PUBLISH"
        /\ HandlePublish(Parent[c], Head(up[c]), c, [up EXCEPT ![c] = Tail(@)], down)
    BY <1>3, Published DEF ChildPublish
  <2>2. /\ [up EXCEPT ![c] = Tail(@)] \in [Brokers -> Seq(UpMsg)]
        /\ Head(up[c]) \in Copies(up[c])
        /\ \A x \in Brokers : Copies([up EXCEPT ![c] = Tail(@)][x]) \subseteq Copies(up[x])
    BY <1>1, <2>1, TakenType, TakenCopies
  <2>3. Sealed(Head(up[c]).bn, Head(up[c]).key.svc, keys_made)
    BY <1>1, <2>2 DEF SealedCopies
  <2> QED BY <1>1, <2>1, <2>2, <2>3
<1>4. ASSUME NEW b \in Brokers, ParentPublish(b)
      PROVE  Goal(b, Head(down[b]), Parent[b], up, [down EXCEPT ![b] = Tail(@)])
  <2>1. /\ Head(down[b]) \in PublishMsg
        /\ down[b] # << >> /\ Head(down[b]).type = "PUBLISH"
        /\ HandlePublish(b, Head(down[b]), Parent[b], up, [down EXCEPT ![b] = Tail(@)])
    BY <1>4, Published DEF ParentPublish
  <2>2. /\ [down EXCEPT ![b] = Tail(@)] \in [Brokers -> Seq(DownMsg)]
        /\ Head(down[b]) \in Copies(down[b])
        /\ \A x \in Brokers :
             Copies([down EXCEPT ![b] = Tail(@)][x]) \subseteq Copies(down[x])
    BY <1>1, <2>1, TakenType, TakenCopies
  <2>3. Sealed(Head(down[b]).bn, Head(down[b]).key.svc, keys_made)
    BY <1>1, <2>2 DEF SealedCopies
  <2> QED BY <1>1, <2>1, <2>2, <2>3
<1>5. ASSUME NEW b, NEW m, NEW from, NEW upIn, NEW downIn, Goal(b, m, from, upIn, downIn)
      PROVE  \E b1 \in Brokers, m1 \in PublishMsg : \E from1 :
             \E up1 \in [Brokers -> Seq(UpMsg)], down1 \in [Brokers -> Seq(DownMsg)] :
                /\ HandlePublish(b1, m1, from1, up1, down1)
                /\ Sealed(m1.bn, m1.key.svc, keys_made)
                /\ \A c \in Brokers : /\ Copies(up1[c]) \subseteq Copies(up[c])
                                      /\ Copies(down1[c]) \subseteq Copies(down[c])
  BY <1>5
<1>6. \E b, m, from, upIn, downIn : Goal(b, m, from, upIn, downIn)
  <2> HIDE DEF Goal
  <2> QED BY <1>2, <1>3, <1>4 DEF Publishing
<1> HIDE DEF Goal
<1> QED BY <1>5, <1>6

\* The handler of a publication files nothing else and sends it on as it came.
LEMMA PublishSealed ==
  ASSUME TypeOK, NEW b \in Brokers, NEW m \in PublishMsg, NEW from,
         NEW upIn \in [Brokers -> Seq(UpMsg)], NEW downIn \in [Brokers -> Seq(DownMsg)],
         HandlePublish(b, m, from, upIn, downIn),
         NEW made, Sealed(m.bn, m.key.svc, made),
         NEW c \in Brokers, SealedCopies(Copies(upIn[c]) \cup Copies(downIn[c]), made)
  PROVE  SealedCopies(Copies(up'[c]) \cup Copies(down'[c]), made)
<1>1. PICK k \in Keys : k = PubKey(b, m, from)
  BY PubKeyType
<1>2. PICK fwd : fwd = Forward(k, m)
  OBVIOUS
<1>3. fwd \in UpMsg /\ fwd \in DownMsg /\ Spreads(b, k, m, from, upIn, downIn)
  BY <1>1, <1>2, PublishSpreads
<1>4. /\ up'[c] = upIn[c] \/ up'[c] = Append(upIn[c], fwd)
      /\ down'[c] = downIn[c] \/ down'[c] = Append(downIn[c], fwd)
  BY <1>2, <1>3 DEF Spreads
<1>5. fwd.type = "PUBLISH" /\ fwd.bn = m.bn /\ fwd.key.svc = m.key.svc
  BY <1>1, <1>2 DEF Forward, PubKey, hashServiceName, PublishMsg, Keys
<1>6. /\ Copies(Append(upIn[c], fwd)) = Copies(upIn[c]) \cup {fwd}
      /\ Copies(Append(downIn[c], fwd)) = Copies(downIn[c]) \cup {fwd}
  BY <1>3, <1>5, CopyAppended
<1>7. \A x \in Copies(up'[c]) \cup Copies(down'[c]) :
        x \in Copies(upIn[c]) \cup Copies(downIn[c]) \/ x = fwd
  <2>1. Copies(up'[c]) \subseteq Copies(upIn[c]) \cup {fwd}
    BY <1>4, <1>6
  <2>2. Copies(down'[c]) \subseteq Copies(downIn[c]) \cup {fwd}
    BY <1>4, <1>6
  <2> QED BY <2>1, <2>2
<1>8. Sealed(fwd.bn, fwd.key.svc, made)
  BY <1>5
<1> QED BY <1>7, <1>8 DEF SealedCopies

\* The groups after a step that files no client.
LEMMA OthersKeepClients ==
  ASSUME TypeOK, [Next]_vars, ~Publishing,
         ~ \E s \in Subscriptions : ClientSubscribe(s)
  PROVE  \A a \in Brokers : \A l \in Keys :
            subscribers'[a][l] = subscribers[a][l] \/ subscribers'[a][l] = << >>
<1>1. subscribers \in [Brokers -> [Keys -> Seq(GeoClient)]]
  BY DEF TypeOK, GroupTypes
<1>2. ASSUME NEW b \in Brokers, Sweep(b)
      PROVE  \A a \in Brokers : \A l \in Keys :
               subscribers'[a][l] = subscribers[a][l] \/ subscribers'[a][l] = << >>
  <2>1. CASE subscribers' = Without(subscribers, b, Expired(b), << >>)
    BY <1>1, <2>1 DEF Without
  <2>2. UNCHANGED subscribers \/ subscribers' = Without(subscribers, b, Expired(b), << >>)
    BY <1>2 DEF Sweep, cleanupExpired
  <2> QED BY <2>1, <2>2
<1>3. ASSUME NEW b \in Brokers, Crash(b)
      PROVE  \A a \in Brokers : \A l \in Keys :
               subscribers'[a][l] = subscribers[a][l] \/ subscribers'[a][l] = << >>
  BY <1>1, <1>3 DEF Crash, EmptyKeyed
<1>4. ASSUME NEW b \in Brokers,
             \/ Starts(b) \/ Hello(b) \/ ChildSubscribe(b) \/ ChildRegion(b)
             \/ HelloAck(b) \/ EpollTimeout(b) \/ StatsRequest(b)
             \/ LoseUp(b) \/ LoseDown(b)
      PROVE  UNCHANGED subscribers
  BY <1>4, QuietSteps
<1>5. \A h : Heartbeat(h) => UNCHANGED subscribers
  BY DEF Heartbeat
<1>6. Tick \/ UNCHANGED vars => UNCHANGED subscribers
  BY DEF Tick, vars, tableVars, groupVars
<1> QED
  BY <1>2, <1>3, <1>4, <1>5, <1>6
  DEF Next, FromClients, FromChild, FromParent, Publishing

LEMMA SealInvNext == ASSUME TypeOK, SealInv, [Next]_vars PROVE SealInv'
<1>1. /\ MadeKeys' /\ keys_made \in Nat /\ keys_made' \in Nat
      /\ keys_made <= keys_made'
  BY MadeNext DEF SealInv
<1>2. \A a \in Brokers : \A l \in Keys : SealedGroup(subscribers'[a][l], l, keys_made)
  <2> SUFFICES ASSUME NEW a \in Brokers, NEW l \in Keys
               PROVE  SealedGroup(subscribers'[a][l], l, keys_made)
    OBVIOUS
  <2>1. SealedGroup(subscribers[a][l], l, keys_made) /\ SealedGroup(<< >>, l, keys_made)
    BY DEF SealInv, SealedGroup
  <2>2. CASE \E s \in Subscriptions : ClientSubscribe(s)
    BY <2>2, SubscribeSealed
  <2>3. CASE Publishing
    <3>1. KeepsClients(subscribers'[a][l], subscribers[a][l])
      BY <2>3, HandledSealed, PublishKeepsClients
    <3> QED BY <2>1, <3>1 DEF KeepsClients, SealedGroup
  <2>4. CASE ~Publishing /\ ~ \E s \in Subscriptions : ClientSubscribe(s)
    BY <2>1, <2>4, OthersKeepClients
  <2> QED BY <2>2, <2>3, <2>4
<1>3. \A c \in Brokers : SealedCopies(Copies(up'[c]) \cup Copies(down'[c]), keys_made)
  <2> SUFFICES ASSUME NEW c \in Brokers
               PROVE  SealedCopies(Copies(up'[c]) \cup Copies(down'[c]), keys_made)
    OBVIOUS
  <2>1. SealedCopies(Copies(up[c]) \cup Copies(down[c]), keys_made)
    BY DEF SealInv
  <2>2. CASE Publishing
    <3>1. PICK b \in Brokers, m \in PublishMsg : \E from :
          \E upIn \in [Brokers -> Seq(UpMsg)], downIn \in [Brokers -> Seq(DownMsg)] :
            /\ HandlePublish(b, m, from, upIn, downIn)
            /\ Sealed(m.bn, m.key.svc, keys_made)
            /\ \A x \in Brokers : /\ Copies(upIn[x]) \subseteq Copies(up[x])
                                  /\ Copies(downIn[x]) \subseteq Copies(down[x])
      BY <2>2, HandledSealed
    <3>2. PICK from :
          \E upIn \in [Brokers -> Seq(UpMsg)], downIn \in [Brokers -> Seq(DownMsg)] :
            /\ HandlePublish(b, m, from, upIn, downIn)
            /\ Sealed(m.bn, m.key.svc, keys_made)
            /\ \A x \in Brokers : /\ Copies(upIn[x]) \subseteq Copies(up[x])
                                  /\ Copies(downIn[x]) \subseteq Copies(down[x])
      BY <3>1
    <3>3. PICK upIn \in [Brokers -> Seq(UpMsg)], downIn \in [Brokers -> Seq(DownMsg)] :
            /\ HandlePublish(b, m, from, upIn, downIn)
            /\ Sealed(m.bn, m.key.svc, keys_made)
            /\ Copies(upIn[c]) \subseteq Copies(up[c])
            /\ Copies(downIn[c]) \subseteq Copies(down[c])
      BY <3>2
    <3>4. SealedCopies(Copies(upIn[c]) \cup Copies(downIn[c]), keys_made)
      BY <2>1, <3>3 DEF SealedCopies
    <3> QED BY <3>3, <3>4, PublishSealed
  <2>3. CASE ~Publishing
    <3>1. Copies(up'[c]) \subseteq Copies(up[c]) /\ Copies(down'[c]) \subseteq Copies(down[c])
      BY <2>3, OnlyPublicationsSpread DEF Quietly, Thinner
    <3> QED BY <2>1, <3>1 DEF SealedCopies
  <2> QED BY <2>2, <2>3
<1>4. \A a \in Brokers : \A l \in Keys : SealedGroup(subscribers'[a][l], l, keys_made')
  BY <1>1, <1>2, SealedLonger DEF SealedGroup
<1>5. \A c \in Brokers : SealedCopies(Copies(up'[c]) \cup Copies(down'[c]), keys_made')
  BY <1>1, <1>3, SealedLonger DEF SealedCopies
<1> QED BY <1>1, <1>4, <1>5 DEF SealInv, SealedGroup, Sealed, SealedCopies, Copies, InFlight

\* With one key in the world, the outcome of the one Match is right for the whole
\* group: the publication is of the group's service.
LEMMA OneKeyMatches ==
  ASSUME TypeOK, SealInv, NEW b \in Brokers, NEW m \in PublishMsg, NEW from,
         NEW k \in Keys, k = PubKey(b, m, from), NEW hit \in Outcomes(b, k, m),
         Sealed(m.bn, m.key.svc, keys_made), keys_made <= 1,
         m.bn # NoBlind => k.h = 1, PassesLocal(b, k, m), Matching(b, m)
  PROVE  hit
<1>1. he_key[b] \in Nat /\ he_key[b] <= keys_made /\ he_key[b] # 0 /\ keys_made \in Nat
  BY DEF TypeOK, ProcessTypes, SealInv, MadeKeys, Matching, he_enabled, NoKey
<1>2. he_key[b] = 1 /\ keys_made = 1
  BY <1>1
<1>3. m.bn # NoBlind /\ m.bn.key = 1 /\ m.bn.svc = k.svc /\ k.h = 1
  <2>1. m.bn # NoBlind /\ k.h = 1 /\ m.bn.key \in 1 .. keys_made /\ m.bn.svc = m.key.svc
    BY DEF Matching, Sealed
  <2>2. k.svc = m.key.svc
    BY DEF PubKey, hashServiceName, PublishMsg, Keys
  <2> QED BY <1>2, <2>1, <2>2
<1>4. /\ subscribers[b][k] # << >> /\ subscribers[b][k] \in Seq(GeoClient)
      /\ SealedGroup(subscribers[b][k], k, keys_made)
  BY DEF PassesLocal, TypeOK, GroupTypes, SealInv
<1>5. PICK first : first = subscribers[b][k][1].bm
  OBVIOUS
<1>6. first # NoBlind /\ first.key = 1 /\ first.svc = k.svc
  <2>1. 1 \in DOMAIN subscribers[b][k]
    BY <1>4
  <2>2. Sealed(first, k.svc, keys_made) /\ first # NoBlind
    BY <1>3, <1>4, <1>5, <2>1 DEF SealedGroup
  <2> QED BY <1>2, <2>2 DEF Sealed
<1>7. Outcomes(b, k, m) = MatchOutcomes(b, m.bn, first)
  BY <1>5, <1>6 DEF Outcomes, Matches
<1>8. MatchOutcomes(b, m.bn, first) = {TRUE}
  BY <1>2, <1>3, <1>6 DEF MatchOutcomes
<1> QED BY <1>7, <1>8

\* After an unbraked publication no client of its group is waiting for anything
\* nearer than it was sent.
LEMMA PublishDelivers ==
  ASSUME TypeOK, SealInv, NEW b \in Brokers, NEW m \in PublishMsg, NEW from,
         NEW upIn, NEW downIn, HandlePublish(b, m, from, upIn, downIn),
         Sealed(m.bn, m.key.svc, keys_made), keys_made <= 1,
         NEW k \in Keys, k = PubKey(b, m, from), m.bn # NoBlind => k.h = 1,
         stat'[b].braked_local = stat[b].braked_local
  PROVE  \A i \in DOMAIN subscribers'[b][k] :
            subscribers'[b][k][i].cached_closest_dist
              <= GeoDistance(m.pos, subscribers'[b][k][i].pos)
<1>1. PICK group \in Seq(GeoClient) : group = subscribers[b][k]
  BY DEF TypeOK, GroupTypes
<1>2. PICK hit \in Outcomes(b, k, m) :
        /\ subscribers' = [subscribers EXCEPT
             ![b][k] = GroupAfter(subscribers[b][k], m, Served(b, k, m, hit))]
        /\ stat' = [stat EXCEPT ![b] = StatAfter(b, k, m, from, hit)]
  BY DEF HandlePublish
<1>3. subscribers'[b][k] = GroupAfter(group, m, Served(b, k, m, hit))
  BY <1>1, <1>2 DEF TypeOK, GroupTypes
<1>4. group = << >> \/ PassesLocal(b, k, m)
  <2>1. stat \in [Brokers -> [Counters -> Nat]]
    BY DEF TypeOK, Stats
  <2>2. stat'[b].braked_local = stat[b].braked_local
                                 + Bit(group # << >> /\ ~PassesLocal(b, k, m))
    BY <1>1, <1>2, <2>1 DEF StatAfter, CountUp, Counters
  <2>3. stat[b].braked_local \in Nat
    BY <2>1 DEF Counters
  <2> QED BY <2>2, <2>3 DEF Bit
<1> SUFFICES ASSUME NEW i \in DOMAIN subscribers'[b][k]
             PROVE  subscribers'[b][k][i].cached_closest_dist
                      <= GeoDistance(m.pos, subscribers'[b][k][i].pos)
  OBVIOUS
<1>5. i \in DOMAIN group /\ group[i] \in GeoClient
  BY <1>1, <1>3 DEF GroupAfter
<1>6. PassesLocal(b, k, m) /\ (Matching(b, m) => hit)
  <2>1. PassesLocal(b, k, m)
    BY <1>1, <1>4, <1>5
  <2> QED BY <1>2, <2>1, OneKeyMatches
<1>7. i \in Served(b, k, m, hit) <=>
        GeoDistance(m.pos, group[i].pos) < group[i].cached_closest_dist
  BY <1>1, <1>5, <1>6 DEF Served
<1>8. GeoDistance(m.pos, group[i].pos) \in Nat /\ group[i].cached_closest_dist \in Nat
  BY <1>5, GeoDistanceNat DEF GeoClient, PublishMsg
<1>9. /\ subscribers'[b][k][i].pos = group[i].pos
      /\ subscribers'[b][k][i].cached_closest_dist =
           IF i \in Served(b, k, m, hit) THEN GeoDistance(m.pos, group[i].pos)
           ELSE group[i].cached_closest_dist
  BY <1>3, <1>5 DEF GroupAfter, GeoClient
<1> QED BY <1>7, <1>8, <1>9

\* A publication that is filed is the one that is handled.
LEMMA FiledIsHandled ==
  ASSUME TypeOK, NEW b \in Brokers, NEW m \in PublishMsg, NEW from,
         NEW upIn \in [Brokers -> Seq(UpMsg)], NEW downIn \in [Brokers -> Seq(DownMsg)],
         HandlePublish(b, m, from, upIn, downIn),
         NEW a \in Brokers, NEW l \in Keys, Filed(a, l)
  PROVE  /\ a = b /\ l = PubKey(b, m, from)
         /\ Newest(a, l) = [pos |-> m.pos, id |-> m.id, bn |-> m.bn]
<1>1. PICK k \in Keys : k = PubKey(b, m, from)
  BY PubKeyType
<1>2. PICK entry \in CachedPub : entry = [pos |-> m.pos, id |-> m.id, bn |-> m.bn]
  BY DEF CachedPub, PublishMsg
<1>3. \A x \in Brokers : \A y \in Keys :
        IF x = b /\ y = k THEN pub_cache'[x][y] = Cached(pub_cache[x][y], entry)
        ELSE pub_cache'[x][y] = pub_cache[x][y]
  <2>1. Spreads(b, k, m, from, upIn, downIn)
    BY <1>1, PublishSpreads
  <2> QED BY <1>2, <2>1 DEF Spreads
<1>4. a = b /\ l = k
  BY <1>3 DEF Filed
<1>5. pub_cache[b][k] \in Seq(CachedPub)
  BY DEF TypeOK, GroupTypes
<1>6. pub_cache'[b][k][Len(pub_cache'[b][k])] = entry
  BY <1>2, <1>3, <1>5, CachedLast
<1> QED BY <1>1, <1>2, <1>4, <1>6 DEF Newest

\* A publication that a broker files and does not brake reaches every client of
\* its group it is nearer to than all that client was sent before, through
\* expiry, losses, kills and restarts, as long as one key has been made and
\* blinded publications are filed under the hashed name (handlePublish, one
\* executeMatch per group).
THEOREM NothingNearerIsWithheld == Spec => NearerIsDelivered
<1>1. Init => SealInv
  <2> SUFFICES ASSUME Init PROVE SealInv
    OBVIOUS
  <2>1. MadeKeys
    BY DEF Init, MadeKeys, NoKey
  <2>2. \A b \in Brokers : \A k \in Keys : SealedGroup(subscribers[b][k], k, keys_made)
    BY DEF Init, EmptyKeyed, SealedGroup
  <2>3. \A c \in Brokers : SealedCopies(Copies(up[c]) \cup Copies(down[c]), keys_made)
    BY DEF Init, SealedCopies, Copies, InFlight
  <2> QED BY <2>1, <2>2, <2>3 DEF SealInv
<1>2. TypeOK /\ SealInv /\ [Next]_vars => SealInv'
  BY SealInvNext
<1>3. TypeOK /\ SealInv /\ [Next]_vars =>
        [\A b \in Brokers : \A k \in Keys :
           /\ Filed(b, k) /\ keys_made <= 1
           /\ Newest(b, k).bn # NoBlind => k.h = 1
           /\ stat'[b].braked_local = stat[b].braked_local
           => \A i \in DOMAIN subscribers'[b][k] :
                subscribers'[b][k][i].cached_closest_dist
                  <= GeoDistance(Newest(b, k).pos, subscribers'[b][k][i].pos)]_pub_cache
  <2> SUFFICES ASSUME TypeOK, SealInv, [Next]_vars, NEW b \in Brokers, NEW k \in Keys,
                      Filed(b, k), keys_made <= 1,
                      Newest(b, k).bn # NoBlind => k.h = 1,
                      stat'[b].braked_local = stat[b].braked_local
               PROVE  \A i \in DOMAIN subscribers'[b][k] :
                        subscribers'[b][k][i].cached_closest_dist
                          <= GeoDistance(Newest(b, k).pos, subscribers'[b][k][i].pos)
    OBVIOUS
  <2>1. Publishing
    BY OnlyPublicationsSpread DEF Quietly, Filed
  <2>2. PICK a \in Brokers, m \in PublishMsg : \E from :
        \E upIn \in [Brokers -> Seq(UpMsg)], downIn \in [Brokers -> Seq(DownMsg)] :
          HandlePublish(a, m, from, upIn, downIn) /\ Sealed(m.bn, m.key.svc, keys_made)
    BY <2>1, HandledSealed
  <2>3. PICK from :
        \E upIn \in [Brokers -> Seq(UpMsg)], downIn \in [Brokers -> Seq(DownMsg)] :
          HandlePublish(a, m, from, upIn, downIn) /\ Sealed(m.bn, m.key.svc, keys_made)
    BY <2>2
  <2>4. PICK upIn \in [Brokers -> Seq(UpMsg)], downIn \in [Brokers -> Seq(DownMsg)] :
          HandlePublish(a, m, from, upIn, downIn) /\ Sealed(m.bn, m.key.svc, keys_made)
    BY <2>3
  <2>5. /\ b = a /\ k = PubKey(a, m, from)
        /\ Newest(b, k) = [pos |-> m.pos, id |-> m.id, bn |-> m.bn]
    BY <2>4, FiledIsHandled
  <2>6. Newest(b, k).pos = m.pos /\ Newest(b, k).bn = m.bn
    BY <2>5
  <2>7. \A i \in DOMAIN subscribers'[b][k] :
          subscribers'[b][k][i].cached_closest_dist
            <= GeoDistance(m.pos, subscribers'[b][k][i].pos)
    BY <2>4, <2>5, <2>6, PublishDelivers
  <2> QED BY <2>6, <2>7
<1> QED BY <1>1, <1>2, <1>3, TypeCorrect, PTL DEF Spec, NearerIsDelivered
=============================================================================
