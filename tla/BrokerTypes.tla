---------------------------- MODULE BrokerTypes ----------------------------
(***************************************************************************)
(* The type invariant of module Broker, for every tree of brokers, every   *)
(* configuration and every behaviour of clients, clock and network.        *)
(***************************************************************************)
EXTENDS Broker, OperatorTheorems, FiniteSetTheorems, FunctionTheorems

-----------------------------------------------------------------------------
\* Lemmas about the helpers of the handlers.

\* Every set of integers with a lower bound has a least element.
LEMMA LeastInteger ==
  ASSUME NEW lo \in Int, NEW T, T # {}, \A x \in T : x \in Int /\ lo <= x
  PROVE  \E v \in T : \A x \in T : v <= x
<1> DEFINE S == {x - lo : x \in T}
<1>1. S \in SUBSET Nat /\ S # {}
  <2>1. \A x \in T : x - lo \in Nat
    OBVIOUS
  <2> QED
    BY <2>1
<1>2. PICK n \in S : \A k \in S : n <= k
  <2> HIDE DEF S
  <2> QED
    BY <1>1, LeastElement
<1>3. PICK v \in T : n = v - lo
  BY <1>2
<1>4. \A x \in T : v <= x
  <2> TAKE x \in T
  <2>1. x - lo \in S
    OBVIOUS
  <2> QED
    BY <1>2, <1>3, <2>1
<1> QED
  BY <1>4

\* Every set of integers with an upper bound has a greatest element.
LEMMA GreatestInteger ==
  ASSUME NEW hi \in Int, NEW T, T # {}, \A x \in T : x \in Int /\ x <= hi
  PROVE  \E v \in T : \A x \in T : v >= x
<1> DEFINE S == {hi - x : x \in T}
<1>1. S \in SUBSET Nat /\ S # {}
  <2>1. \A x \in T : hi - x \in Nat
    OBVIOUS
  <2> QED
    BY <2>1
<1>2. PICK n \in S : \A k \in S : n <= k
  <2> HIDE DEF S
  <2> QED
    BY <1>1, LeastElement
<1>3. PICK v \in T : n = hi - v
  BY <1>2
<1>4. \A x \in T : v >= x
  <2> TAKE x \in T
  <2>1. hi - x \in S
    OBVIOUS
  <2>2. n <= hi - x
    BY <1>2, <2>1
  <2>3. x \in Int /\ v \in Int
    OBVIOUS
  <2> HIDE DEF S
  <2> QED
    BY <1>3, <2>2, <2>3
<1> QED
  BY <1>4

\* updateMyRegion computes a region.
LEMMA MyRegionType ==
  ASSUME NEW b \in Brokers,
         NEW kids \in [Brokers -> ChildBroker \cup {NoChild}]
  PROVE  MyRegion(b, kids) \in RegionType
<1> DEFINE B == Boxes(b, kids)
<1>1. B \in SUBSET RegionType /\ B # {}
  <2>1. RegionOf(Home[b]) \in RegionType
    BY BrokerAssumption, RegionOfType
  <2>2. \A c \in {x \in Brokers : kids[x] # NoChild} : kids[c].region \in RegionType
    BY DEF ChildBroker
  <2> QED
    BY <2>1, <2>2 DEF Boxes
<1> HIDE DEF B
<1>2. \A r \in B : /\ r.min_lat \in Latitudes /\ r.max_lat \in Latitudes
                   /\ r.min_lon \in Longitudes /\ r.max_lon \in Longitudes
  BY <1>1 DEF RegionType
<1>3. (CHOOSE v \in {r.min_lat : r \in B} : \A r \in B : v <= r.min_lat) \in Latitudes
  <2> DEFINE T == {r.min_lat : r \in B}
  <2>1. T # {} /\ \A x \in T : x \in Int /\ -90 <= x
    BY <1>1, <1>2 DEF Latitudes
  <2>2. \E v \in T : \A x \in T : v <= x
    <3> HIDE DEF T
    <3> QED
      BY <2>1, LeastInteger
  <2> QED
    BY <1>2, <2>2
<1>4. (CHOOSE v \in {r.max_lat : r \in B} : \A r \in B : v >= r.max_lat) \in Latitudes
  <2> DEFINE T == {r.max_lat : r \in B}
  <2>1. T # {} /\ \A x \in T : x \in Int /\ x <= 90
    BY <1>1, <1>2 DEF Latitudes
  <2>2. \E v \in T : \A x \in T : v >= x
    <3> HIDE DEF T
    <3> QED
      BY <2>1, GreatestInteger
  <2> QED
    BY <1>2, <2>2
<1>5. (CHOOSE v \in {r.min_lon : r \in B} : \A r \in B : v <= r.min_lon) \in Longitudes
  <2> DEFINE T == {r.min_lon : r \in B}
  <2>1. T # {} /\ \A x \in T : x \in Int /\ -180 <= x
    BY <1>1, <1>2 DEF Longitudes
  <2>2. \E v \in T : \A x \in T : v <= x
    <3> HIDE DEF T
    <3> QED
      BY <2>1, LeastInteger
  <2> QED
    BY <1>2, <2>2
<1>6. (CHOOSE v \in {r.max_lon : r \in B} : \A r \in B : v >= r.max_lon) \in Longitudes
  <2> DEFINE T == {r.max_lon : r \in B}
  <2>1. T # {} /\ \A x \in T : x \in Int /\ x <= 180
    BY <1>1, <1>2 DEF Longitudes
  <2>2. \E v \in T : \A x \in T : v >= x
    <3> HIDE DEF T
    <3> QED
      BY <2>1, GreatestInteger
  <2> QED
    BY <1>2, <2>2
<1> QED
  BY <1>3, <1>4, <1>5, <1>6 DEF MyRegion, RegionType, B

\* A first hash and any further one stay among the keys.
LEMMA HashType ==
  ASSUME NEW k \in Keys PROVE hashServiceName(k) \in Keys
BY DEF Keys, hashServiceName, MaxHash

\* A plaintext name is a key.
LEMMA NameType ==
  ASSUME NEW s \in Services PROVE Name(s) \in Keys
BY DEF Keys, Name, MaxHash

\* Every subscription is filed under a key, hashed or not.
LEMMA SubKeyType ==
  ASSUME NEW b \in Brokers, NEW s \in SubscriptionType PROVE SubKey(b, s) \in Keys
<1>1. s.svc \in Services
  BY DEF SubscriptionType
<1> QED
  BY <1>1, HashType, NameType DEF SubKey

\* Every publication is filed under a key: hashing stays within the bound.
LEMMA PubKeyType ==
  ASSUME NEW b \in Brokers, NEW m \in PublishMsg, NEW from
  PROVE  PubKey(b, m, from) \in Keys
<1>1. m.key \in Keys
  BY DEF PublishMsg
<1> QED
  BY <1>1, HashType DEF PubKey

\* A client blinds with a key it loaded, or not at all.
LEMMA BlindType ==
  ASSUME ProcessTypes, NEW s \in Services, NEW enc \in BOOLEAN
  PROVE  Blind(enc, s) \subseteq Blinded \cup {NoBlind}
BY DEF Blind, Blinded, ProcessTypes, NoKey

\* The query's answer, the new client and its ledger entry.
LEMMA QueryReplyType ==
  ASSUME TypeOK, NEW b \in Brokers, NEW k \in Keys, NEW s \in SubscriptionType
  PROVE  QueryReply(b, k, s) \in Seq(Delivery)
<1> DEFINE best == pub_cache[b][k][CHOOSE i \in Nearest(b, k, s.pos) : TRUE]
<1>1. CASE ~s.query \/ Nearest(b, k, s.pos) = {}
  BY <1>1 DEF QueryReply
<1>2. CASE s.query /\ Nearest(b, k, s.pos) # {}
  <2>1. (CHOOSE i \in Nearest(b, k, s.pos) : TRUE) \in DOMAIN pub_cache[b][k]
    BY <1>2 DEF Nearest
  <2>2. pub_cache[b][k] \in Seq(CachedPub)
    BY DEF TypeOK, GroupTypes
  <2>3. best \in CachedPub
    BY <2>1, <2>2
  <2> HIDE DEF best
  <2>4. best.id \in Nat /\ best.pos \in Points /\ s.pos \in Points
    BY <2>3 DEF CachedPub, SubscriptionType
  <2>5. GeoDistance(s.pos, best.pos) \in Nat
    BY <2>4, GeoDistanceNat
  <2>6. [id |-> best.id, dist |-> GeoDistance(s.pos, best.pos), by |-> "query"]
          \in Delivery
    BY <2>4, <2>5 DEF Delivery
  <2> QED
    BY <1>2, <2>6 DEF QueryReply, best
<1> QED
  BY <1>1, <1>2

\* The new GeoClient has a distance, finite or not, and a fresh ledger number.
LEMMA NewClientType ==
  ASSUME TypeOK, NEW b \in Brokers, NEW k \in Keys, NEW s \in SubscriptionType,
         NEW bm \in Blinded \cup {NoBlind}
  PROVE  NewClient(b, k, s, bm) \in GeoClient
<1> DEFINE d == IF QueryReply(b, k, s) = << >> THEN DoubleMax
                ELSE QueryReply(b, k, s)[1].dist
<1>1. d \in Nat
  <2>1. QueryReply(b, k, s) \in Seq(Delivery)
    BY QueryReplyType
  <2>2. QueryReply(b, k, s) # << >> => QueryReply(b, k, s)[1] \in Delivery
    BY <2>1
  <2> QED
    BY <2>2 DEF Delivery, DoubleMax
<1> HIDE DEF d
<1>2. s.client \in Clients /\ s.pos \in Points
  BY DEF SubscriptionType
<1>3. Len(ledger) + 1 \in Nat
  BY DEF TypeOK, HistoryTypes
<1> QED
  BY <1>1, <1>2, <1>3 DEF NewClient, GeoClient, d

\* Datagrams: what each type carries, and what a channel holds after a send.
LEMMA UpMsgTypes ==
  ASSUME NEW m \in UpMsg
  PROVE  /\ m.type = "HELLO" => m \in HelloMsg
         /\ m.type = "SUBSCRIBE" => m \in SubscribeMsg
         /\ m.type = "REGION_UPDATE" => m \in RegionMsg
         /\ m.type = "PUBLISH" => m \in PublishMsg
BY DEF UpMsg, HelloMsg, SubscribeMsg, RegionMsg, PublishMsg

\* A datagram from the parent is what its type says.
LEMMA DownMsgTypes ==
  ASSUME NEW m \in DownMsg
  PROVE  m.type = "PUBLISH" => m \in PublishMsg
BY DEF DownMsg, HelloAckMsg, PublishMsg

\* Sending to the parent, bound or not, leaves typed channels.
LEMMA ToParentType ==
  ASSUME NEW channels \in [Brokers -> Seq(UpMsg)], NEW b \in Brokers,
         NEW msgs \in Seq(UpMsg)
  PROVE  ToParent(channels, b, msgs) \in [Brokers -> Seq(UpMsg)]
BY DEF ToParent

\* A REGION_UPDATE, or none.
LEMMA RegionUpdatesType ==
  ASSUME NEW b \in Brokers, NEW region \in RegionType
  PROVE  RegionUpdates(b, region) \in Seq(UpMsg)
<1>1. RegionUpdate(b, region) \in UpMsg
  BY DEF RegionUpdate, UpMsg, RegionMsg
<1> QED
  BY <1>1 DEF RegionUpdates

\* A relayed SUBSCRIBE, or none.
LEMMA RelayType ==
  ASSUME NEW b \in Brokers, NEW k \in Keys
  PROVE  Relay(b, k) \in Seq(UpMsg)
<1>1. [type |-> "SUBSCRIBE", key |-> k, pos |-> Home[b]] \in UpMsg
  BY BrokerAssumption DEF UpMsg, SubscribeMsg
<1> QED
  BY <1>1 DEF Relay

\* ot_parent_ after the relay.
LEMMA RelayedType ==
  ASSUME OverlayTypes, NEW b \in Brokers, NEW k \in Keys
  PROVE  Relayed(b, k) \in [Brokers -> SUBSET Keys]
BY DEF Relayed, OverlayTypes

\* Taking a datagram leaves a channel.
LEMMA TakenType ==
  ASSUME NEW M, NEW channels \in [Brokers -> Seq(M)], NEW c \in Brokers,
         channels[c] # << >>
  PROVE  /\ [channels EXCEPT ![c] = Tail(@)] \in [Brokers -> Seq(M)]
         /\ Head(channels[c]) \in M
BY HeadTailProperties

\* One iteration of the loop leaves a process state.
LEMMA LoopBodyTypes ==
  ASSUME ProcessTypes, NEW b \in Brokers, LoopBody(b)
  PROVE  ProcessTypes'
BY DEF ProcessTypes, LoopBody, fileVars

-----------------------------------------------------------------------------
\* One lemma per action: it preserves the types.

\* One more of a bound is used.
LEMMA SpentType ==
  ASSUME NEW n \in Budgets
  PROVE  /\ [n EXCEPT !.pubs = @ + 1] \in Budgets
         /\ [n EXCEPT !.beats = @ + 1] \in Budgets
         /\ [n EXCEPT !.crashes = @ + 1] \in Budgets
         /\ [n EXCEPT !.losses = @ + 1] \in Budgets
BY DEF Budgets

\* Counters stay natural numbers when they are counted up.
LEMMA SubReceivedType ==
  ASSUME NEW b \in Brokers, stat \in [Brokers -> Stats],
         stat' = [stat EXCEPT ![b].sub_received = @ + 1]
  PROVE  (stat \in [Brokers -> Stats])'
<1>1. [stat[b] EXCEPT !.sub_received = @ + 1] \in Stats
  <2>1. stat[b] \in Stats
    OBVIOUS
  <2> QED
    BY <2>1 DEF Stats, Counters
<1> QED
  BY <1>1

\* Tables that a step does not touch keep their types.
LEMMA KeptTypes ==
  ASSUME TypeOK
  PROVE  /\ UNCHANGED groupVars => GroupTypes'
         /\ UNCHANGED brakeVars => BrakeTypes'
         /\ UNCHANGED overlayVars => OverlayTypes'
         /\ UNCHANGED stat => (stat \in [Brokers -> Stats])'
         /\ UNCHANGED <<up, down, spent>> => NetworkTypes'
         /\ UNCHANGED historyVars => HistoryTypes'
BY DEF TypeOK, GroupTypes, BrakeTypes, OverlayTypes, NetworkTypes, HistoryTypes,
       groupVars, brakeVars, overlayVars, historyVars

\* A step that changes nothing.
LEMMA StutterTypes ==
  ASSUME TypeOK, UNCHANGED vars PROVE TypeOK'
<1>1. ProcessTypes'
  BY DEF TypeOK, ProcessTypes, vars, loopVars, tableVars, worldVars, fileVars
<1> QED
  BY <1>1, KeptTypes DEF TypeOK, vars, tableVars, worldVars

\* The HELLO of a starting broker.
LEMMA StartedTypes ==
  ASSUME TypeOK, NEW b \in Brokers, Started(b)
  PROVE  /\ phase' \in [Brokers -> Phases]
         /\ last_cleanup' \in [Brokers -> Nat]
         /\ idle' \in [Brokers -> Nat]
         /\ up' \in [Brokers -> Seq(UpMsg)]
<1>1. << [type |-> "HELLO", id |-> b, pos |-> Home[b]] >> \in Seq(UpMsg)
  <2>1. [type |-> "HELLO", id |-> b, pos |-> Home[b]] \in UpMsg
    BY BrokerAssumption DEF UpMsg, HelloMsg
  <2> QED
    BY <2>1
<1>2. up' \in [Brokers -> Seq(UpMsg)]
  BY <1>1, ToParentType DEF Started, TypeOK, NetworkTypes
<1> QED
  BY <1>2 DEF Started, TypeOK, ProcessTypes, Phases

\* The start-up steps, one by one.
LEMMA BindTypes ==
  ASSUME TypeOK, NEW b \in Brokers, Bind(b) PROVE TypeOK'
<1>1. ProcessTypes'
  BY DEF Bind, TypeOK, ProcessTypes, tableVars, worldVars, fileVars, Phases
<1> QED
  BY <1>1, KeptTypes DEF Bind, TypeOK, tableVars, worldVars

\* A root's new key, not yet in any file.
LEMMA GenerateKeyTypes ==
  ASSUME TypeOK, NEW b \in Brokers, GenerateKey(b) PROVE TypeOK'
<1>1. ProcessTypes'
  BY DEF GenerateKey, TypeOK, ProcessTypes, NoKey, Phases
<1> QED
  BY <1>1, KeptTypes DEF GenerateKey, TypeOK

\* The brokers' key file is complete.
LEMMA WriteKeyFileTypes ==
  ASSUME TypeOK, NEW b \in Brokers, WriteKeyFile(b) PROVE TypeOK'
<1>1. ProcessTypes'
  BY DEF WriteKeyFile, TypeOK, ProcessTypes, tableVars, Phases
<1> QED
  BY <1>1, KeptTypes DEF WriteKeyFile, TypeOK, tableVars

\* The clients' old key file is gone.
LEMMA UnlinkFullKeyFileTypes ==
  ASSUME TypeOK, NEW b \in Brokers, UnlinkFullKeyFile(b) PROVE TypeOK'
<1>1. ProcessTypes'
  BY DEF UnlinkFullKeyFile, TypeOK, ProcessTypes, NoKey, tableVars, Phases
<1> QED
  BY <1>1, KeptTypes DEF UnlinkFullKeyFile, TypeOK, tableVars

\* The clients' key file is complete.
LEMMA WriteFullKeyFileTypes ==
  ASSUME TypeOK, NEW b \in Brokers, WriteFullKeyFile(b) PROVE TypeOK'
<1>1. ProcessTypes'
  BY StartedTypes DEF WriteFullKeyFile, TypeOK, ProcessTypes, tableVars
<1>2. NetworkTypes'
  BY StartedTypes DEF WriteFullKeyFile, TypeOK, NetworkTypes
<1> QED
  BY <1>1, <1>2, KeptTypes DEF WriteFullKeyFile, TypeOK, tableVars

\* A non-root broker enters its loop, with or without a key.
LEMMA LoadKeyTypes ==
  ASSUME TypeOK, NEW b \in Brokers, LoadKey(b) PROVE TypeOK'
<1>1. ProcessTypes'
  BY StartedTypes DEF LoadKey, TypeOK, ProcessTypes, fileVars
<1>2. NetworkTypes'
  BY StartedTypes DEF LoadKey, TypeOK, NetworkTypes
<1> QED
  BY <1>1, <1>2, KeptTypes DEF LoadKey, TypeOK

\* What a process takes with it when it goes.
LEMMA VanishTypes ==
  ASSUME TypeOK, NEW b \in Brokers, Vanish(b)
  PROVE  /\ phase' \in [Brokers -> Phases]
         /\ up' \in [Brokers -> Seq(UpMsg)]
         /\ down' \in [Brokers -> Seq(DownMsg)]
BY DEF Vanish, TypeOK, ProcessTypes, NetworkTypes, Phases

\* Exit for want of a key.
LEMMA FailFastTypes ==
  ASSUME TypeOK, NEW b \in Brokers, FailFast(b) PROVE TypeOK'
<1>1. ProcessTypes'
  BY VanishTypes DEF FailFast, TypeOK, ProcessTypes, fileVars, tableVars
<1>2. NetworkTypes'
  BY VanishTypes DEF FailFast, TypeOK, NetworkTypes
<1> QED
  BY <1>1, <1>2, KeptTypes DEF FailFast, TypeOK, tableVars

\* The tables of a process that has just started.
LEMMA EmptyTypes ==
  /\ EmptyKeyed \in [Keys -> Seq(GeoClient)]
  /\ EmptyKeyed \in [Keys -> Seq(CachedPub)]
  /\ EmptyWindows \in Windows
  /\ ZeroStats \in Stats
  /\ \A b \in Brokers : RegionOf(Home[b]) \in RegionType
<1>1. \A b \in Brokers : RegionOf(Home[b]) \in RegionType
  BY BrokerAssumption, RegionOfType
<1> QED
  BY <1>1 DEF EmptyKeyed, EmptyWindows, Windows, ZeroStats, Stats

\* A kill resets every table of the broker to its initial value.
LEMMA CrashTypes ==
  ASSUME TypeOK, NEW b \in Brokers, Crash(b) PROVE TypeOK'
<1>1. ProcessTypes'
  BY VanishTypes DEF Crash, TypeOK, ProcessTypes, fileVars, NoKey
<1>2. GroupTypes'
  BY EmptyTypes DEF Crash, TypeOK, GroupTypes, NoTime
<1>3. BrakeTypes'
  BY EmptyTypes DEF Crash, TypeOK, BrakeTypes
<1>4. OverlayTypes'
  BY EmptyTypes DEF Crash, TypeOK, OverlayTypes
<1>5. (stat \in [Brokers -> Stats])'
  BY EmptyTypes DEF Crash, TypeOK
<1>6. NetworkTypes'
  <2>1. spent' \in Budgets
    BY SpentType DEF Crash, TypeOK, NetworkTypes
  <2>2. Vanish(b)
    BY DEF Crash
  <2> QED
    BY <2>1, <2>2, VanishTypes DEF NetworkTypes
<1>7. HistoryTypes'
  BY DEF Crash, TypeOK, HistoryTypes
<1> QED
  BY <1>1, <1>2, <1>3, <1>4, <1>5, <1>6, <1>7 DEF TypeOK

\* handleSubscribe from a client adds one GeoClient.
LEMMA NewGeoClient ==
  ASSUME TypeOK, NEW s \in Subscriptions, ClientSubscribe(s)
  PROVE  \E gc \in GeoClient : subscribers' =
           [subscribers EXCEPT ![s.broker][SubKey(s.broker, s)] = Append(@, gc)]
<1> DEFINE b == s.broker
           k == SubKey(b, s)
<1>1. s \in SubscriptionType /\ b \in Brokers
  BY BrokerAssumption DEF SubscriptionType
<1>2. k \in Keys
  BY <1>1, SubKeyType
<1>3. PICK bm \in Blind(s.enc, s.svc) :
        subscribers' = [subscribers EXCEPT ![b][k] = Append(@, NewClient(b, k, s, bm))]
  BY DEF ClientSubscribe
<1>4. bm \in Blinded \cup {NoBlind}
  BY <1>1, BlindType DEF TypeOK, SubscriptionType
<1> HIDE DEF b, k
<1>5. NewClient(b, k, s, bm) \in GeoClient
  BY <1>1, <1>2, <1>4, NewClientType
<1> USE DEF b, k
<1> QED
  BY <1>3, <1>5

\* handleSubscribe from a client.
LEMMA ClientSubscribeTypes ==
  ASSUME TypeOK, NEW s \in Subscriptions, ClientSubscribe(s) PROVE TypeOK'
<1> DEFINE b == s.broker
           k == SubKey(b, s)
           region == Merge(my_region[b], RegionOf(s.pos))
<1>1. /\ s \in SubscriptionType /\ b \in Brokers /\ s.pos \in Points
      /\ s.svc \in Services /\ s.client \in Clients
  BY BrokerAssumption DEF SubscriptionType
<1>2. k \in Keys
  BY <1>1, SubKeyType
<1>3. region \in RegionType
  BY <1>1, RegionOfType, MergeType DEF TypeOK, OverlayTypes
<1>4. \E gc \in GeoClient : subscribers' = [subscribers EXCEPT ![b][k] = Append(@, gc)]
  BY NewGeoClient
<1>5. QueryReply(b, k, s) \in Seq(Delivery)
  BY <1>1, <1>2, QueryReplyType
<1>6. RegionUpdates(b, region) \o Relay(b, k) \in Seq(UpMsg)
  BY <1>1, <1>2, <1>3, RegionUpdatesType, RelayType, ConcatProperties
<1>7. now \in Nat
  BY DEF TypeOK, ProcessTypes
<1>8. ProcessTypes'
  BY <1>1, LoopBodyTypes DEF ClientSubscribe, TypeOK
<1>9. GroupTypes'
  <2>1. /\ last_active' = [last_active EXCEPT ![b][k] = now]
        /\ pub_cache' = pub_cache
    BY DEF ClientSubscribe
  <2> HIDE DEF b, k
  <2>2. PICK gc \in GeoClient : subscribers' = [subscribers EXCEPT ![b][k] = Append(@, gc)]
    BY <1>4
  <2> QED
    BY <1>1, <1>2, <1>7, <2>1, <2>2 DEF TypeOK, GroupTypes
<1>10. BrakeTypes'
  BY KeptTypes DEF ClientSubscribe
<1>11. OverlayTypes'
  <2>1. /\ my_region' = [my_region EXCEPT ![b] = region]
        /\ ot_parent' = Relayed(b, k)
        /\ children' = children /\ child_active' = child_active
    BY DEF ClientSubscribe
  <2>2. ot_parent' \in [Brokers -> SUBSET Keys]
    BY <1>1, <1>2, <2>1, RelayedType DEF TypeOK
  <2> HIDE DEF b, k, region
  <2> QED
    BY <1>1, <1>3, <2>1, <2>2 DEF TypeOK, OverlayTypes
<1>12. (stat \in [Brokers -> Stats])'
  <2>1. stat' = [stat EXCEPT ![b].sub_received = @ + 1]
    BY DEF ClientSubscribe
  <2> HIDE DEF b
  <2> QED
    BY <1>1, <2>1, SubReceivedType DEF TypeOK
<1>13. NetworkTypes'
  <2>1. /\ up' = ToParent(up, b, RegionUpdates(b, region) \o Relay(b, k))
        /\ down' = down /\ spent' = spent
    BY DEF ClientSubscribe
  <2> HIDE DEF b, k, region
  <2> QED
    BY <1>1, <1>6, <2>1, ToParentType DEF TypeOK, NetworkTypes
<1>14. HistoryTypes'
  <2>1. [client |-> s.client, broker |-> b, key |-> k, at |-> now,
         got |-> QueryReply(b, k, s)] \in LedgerEntry
    BY <1>1, <1>2, <1>5, <1>7 DEF LedgerEntry
  <2>2. /\ ledger' = Append(ledger,
             [client |-> s.client, broker |-> b, key |-> k, at |-> now,
              got |-> QueryReply(b, k, s)])
        /\ touched' = [touched EXCEPT ![b][s.svc] = now]
        /\ offers' = offers /\ passed' = passed
    BY DEF ClientSubscribe
  <2> HIDE DEF b, k
  <2> QED
    BY <1>1, <1>7, <2>1, <2>2 DEF TypeOK, HistoryTypes
<1> QED
  BY <1>8, <1>9, <1>10, <1>11, <1>12, <1>13, <1>14 DEF TypeOK

\* handleSubscribe from a child, known or not.
LEMMA ChildSubscribeTypes ==
  ASSUME TypeOK, NEW c \in Brokers, ChildSubscribe(c) PROVE TypeOK'
<1> DEFINE b == Parent[c]
           k == Head(up[c]).key
           taken == [up EXCEPT ![c] = Tail(@)]
<1>1. b \in Brokers
  BY BrokerAssumption DEF ChildSubscribe, Bound
<1>2. taken \in [Brokers -> Seq(UpMsg)] /\ Head(up[c]) \in UpMsg
  BY TakenType DEF ChildSubscribe, TypeOK, NetworkTypes
<1>3. k \in Keys
  BY <1>2, UpMsgTypes DEF ChildSubscribe, SubscribeMsg
<1>4. ProcessTypes'
  BY <1>1, LoopBodyTypes DEF ChildSubscribe, TypeOK
<1>5. OverlayTypes'
  <2>1. /\ my_region' = my_region /\ children' = children
        /\ \/ child_active' = child_active
           \/ child_active' = [child_active EXCEPT ![b][k] = @ \cup {c}]
        /\ ot_parent' = ot_parent \/ ot_parent' = Relayed(b, k)
    BY DEF ChildSubscribe
  <2>2. ot_parent' \in [Brokers -> SUBSET Keys]
    BY <1>1, <1>3, <2>1, RelayedType DEF TypeOK, OverlayTypes
  <2>3. child_active' \in [Brokers -> [Keys -> SUBSET Brokers]]
    <3>1. child_active \in [Brokers -> [Keys -> SUBSET Brokers]]
      BY DEF TypeOK, OverlayTypes
    <3>2. [child_active EXCEPT ![b][k] = @ \cup {c}]
            \in [Brokers -> [Keys -> SUBSET Brokers]]
      <4> HIDE DEF b, k
      <4> QED
        BY <1>1, <1>3, <3>1
    <3> QED
      BY <2>1, <3>1, <3>2
  <2> QED
    BY <2>1, <2>2, <2>3 DEF TypeOK, OverlayTypes
<1>6. (stat \in [Brokers -> Stats])'
  <2>1. stat' = [stat EXCEPT ![b].sub_received = @ + 1]
    BY DEF ChildSubscribe
  <2> HIDE DEF b
  <2> QED
    BY <1>1, <2>1, SubReceivedType DEF TypeOK
<1>7. NetworkTypes'
  <2>1. /\ up' = taken \/ up' = ToParent(taken, b, Relay(b, k))
        /\ down' = down /\ spent' = spent
    BY DEF ChildSubscribe
  <2>2. Relay(b, k) \in Seq(UpMsg)
    BY <1>1, <1>3, RelayType
  <2>3. ToParent(taken, b, Relay(b, k)) \in [Brokers -> Seq(UpMsg)]
    <3> HIDE DEF b, k, taken
    <3> QED
      BY <1>1, <1>2, <2>2, ToParentType
  <2> QED
    BY <1>2, <2>1, <2>3 DEF TypeOK, NetworkTypes
<1> QED
  BY <1>4, <1>5, <1>6, <1>7, KeptTypes DEF ChildSubscribe, TypeOK

-----------------------------------------------------------------------------
\* handlePublish, table by table.

\* A child that is considered has a record, and with it a quadrant and a
\* distance for every publication.
LEMMA ConsideredTypes ==
  ASSUME TypeOK, NEW b \in Brokers, NEW k \in Keys, NEW m \in PublishMsg,
         NEW from, NEW c \in Interested(b, k, from)
  PROVE  /\ children[b][c] \in ChildBroker
         /\ QuadOf(b, c, m) \in Quadrants
         /\ QuadDist(b, c, m) \in Nat
<1>1. c \in Brokers /\ children[b][c] \in ChildBroker
  BY DEF Interested, Known, TypeOK, OverlayTypes
<1>2. children[b][c].region \in RegionType /\ m.pos \in Points
  BY <1>1 DEF ChildBroker, PublishMsg
<1>3. QuadOf(b, c, m) \in Quadrants
  BY <1>2, QuadrantOfType DEF QuadOf
<1>4. QuadDist(b, c, m) \in Nat
  BY <1>2, <1>3, QuadrantCenterType, GeoDistanceNat DEF QuadDist
<1> QED
  BY <1>1, <1>3, <1>4

\* The children's records after a publication: only known children are told.
LEMMA ChildrenAfterType ==
  ASSUME TypeOK, NEW b \in Brokers, NEW k \in Keys, NEW m \in PublishMsg,
         NEW from, NEW told \in SUBSET Interested(b, k, from)
  PROVE  ChildrenAfter(b, m, told) \in [Brokers -> ChildBroker \cup {NoChild}]
<1>1. \A c \in told : [children[b][c] EXCEPT
                         !.closest_quad[QuadOf(b, c, m)] = QuadDist(b, c, m)]
                       \in ChildBroker
  <2> TAKE c \in told
  <2>1. /\ children[b][c] \in ChildBroker
        /\ QuadOf(b, c, m) \in Quadrants
        /\ QuadDist(b, c, m) \in Nat
    BY ConsideredTypes
  <2> QED
    BY <2>1 DEF ChildBroker
<1>2. \A c \in Brokers : children[b][c] \in ChildBroker \cup {NoChild}
  BY DEF TypeOK, OverlayTypes
<1> QED
  BY <1>1, <1>2 DEF ChildrenAfter

\* The history of offers.
LEMMA OffersAfterType ==
  ASSUME TypeOK, NEW b \in Brokers, NEW k \in Keys, NEW m \in PublishMsg,
         NEW from, NEW told
  PROVE  OffersAfter(b, k, m, Interested(b, k, from), told) \in [Brokers -> Seq(Offer)]
<1>1. \A c \in Interested(b, k, from) :
        [key |-> k, quad |-> QuadOf(b, c, m), dist |-> QuadDist(b, c, m),
         sent |-> c \in told] \in Offer
  BY ConsideredTypes DEF Offer
<1>2. offers \in [Brokers -> Seq(Offer)]
  BY DEF TypeOK, HistoryTypes
<1> QED
  BY <1>1, <1>2 DEF OffersAfter

\* The brake windows after a consultation.
LEMMA ConsultType ==
  ASSUME TypeOK, NEW windows \in Windows, NEW consulted, NEW k \in Keys,
         NEW q \in Quadrants
  PROVE  Consult(windows, consulted, k, q) \in Windows
<1>1. Consulted(windows[k][q], now) \in Seq(Nat)
  BY ConsultedType DEF Windows, TypeOK, ProcessTypes
<1> QED
  BY <1>1 DEF Consult, Windows

\* The history of passes.
LEMMA PassedAfterType ==
  ASSUME TypeOK, NEW b \in Brokers, NEW k \in Keys, NEW q \in Quadrants,
         NEW upward, NEW local
  PROVE  PassedAfter(b, k, q, upward, local) \in [Brokers -> [{"up", "local"} -> Windows]]
<1>1. now \in Nat /\ passed \in [Brokers -> [{"up", "local"} -> Windows]]
  BY DEF TypeOK, ProcessTypes, HistoryTypes
<1>2. \A d \in {"up", "local"} :
        /\ passed[b][d] \in Windows
        /\ [passed[b][d] EXCEPT ![k][q] = Append(@, now)] \in Windows
  BY <1>1 DEF Windows
<1> QED
  BY <1>1, <1>2 DEF PassedAfter

\* The cache of a key after one more publication.
LEMMA CachedType ==
  ASSUME NEW cache \in Seq(CachedPub), NEW entry \in CachedPub
  PROVE  Cached(cache, entry) \in Seq(CachedPub)
<1>1. Append(cache, entry) \in Seq(CachedPub) /\ Append(cache, entry) # << >>
  BY AppendProperties
<1> QED
  BY <1>1, HeadTailProperties DEF Cached

\* A group after a publication: the same clients, some with a new distance.
LEMMA GroupAfterType ==
  ASSUME NEW group \in Seq(GeoClient), NEW m \in PublishMsg, NEW served
  PROVE  /\ GroupAfter(group, m, served) \in Seq(GeoClient)
         /\ Len(GroupAfter(group, m, served)) = Len(group)
         /\ DOMAIN GroupAfter(group, m, served) = DOMAIN group
<1>1. \A i \in DOMAIN group : GroupAfter(group, m, served)[i] \in GeoClient
  <2> TAKE i \in DOMAIN group
  <2>1. group[i] \in GeoClient
    OBVIOUS
  <2>2. GeoDistance(m.pos, group[i].pos) \in Nat
    BY <2>1, GeoDistanceNat DEF GeoClient, PublishMsg
  <2> QED
    BY <2>1, <2>2 DEF GroupAfter, GeoClient
<1>2. DOMAIN GroupAfter(group, m, served) = 1 .. Len(group)
  BY DEF GroupAfter
<1>3. GroupAfter(group, m, served) \in [1 .. Len(group) -> GeoClient]
  BY <1>1, <1>2 DEF GroupAfter
<1> QED
  BY <1>2, <1>3, SeqDef

\* The ledger after a publication: the same entries, some with one more delivery.
LEMMA LedgerAfterType ==
  ASSUME TypeOK, NEW group \in Seq(GeoClient), NEW m \in PublishMsg,
         NEW served \in SUBSET DOMAIN group
  PROVE  /\ LedgerAfter(group, m, served) \in Seq(LedgerEntry)
         /\ Len(LedgerAfter(group, m, served)) = Len(ledger)
         /\ DOMAIN LedgerAfter(group, m, served) = DOMAIN ledger
<1> DEFINE L == LedgerAfter(group, m, served)
<1>1. ledger \in Seq(LedgerEntry)
  BY DEF TypeOK, HistoryTypes
<1>2. \A n \in DOMAIN ledger : L[n] \in LedgerEntry
  <2> TAKE n \in DOMAIN ledger
  <2>1. ledger[n] \in LedgerEntry
    BY <1>1
  <2>2. CASE \E i \in served : group[i].sid = n
    <3> DEFINE i == CHOOSE j \in served : group[j].sid = n
               d == [id |-> m.id, dist |-> GeoDistance(m.pos, group[i].pos),
                     by |-> "push"]
    <3>1. i \in DOMAIN group
      BY <2>2
    <3>2. GeoDistance(m.pos, group[i].pos) \in Nat /\ m.id \in Nat
      <4> HIDE DEF i
      <4>1. group[i] \in GeoClient
        BY <3>1
      <4>2. group[i].pos \in Points /\ m.pos \in Points /\ m.id \in Nat
        BY <4>1 DEF GeoClient, PublishMsg
      <4> QED
        BY <4>2, GeoDistanceNat
    <3>3. d \in Delivery
      BY <3>2 DEF Delivery
    <3>4. L[n] = [ledger[n] EXCEPT !.got = Append(@, d)]
      BY <2>2 DEF LedgerAfter
    <3> HIDE DEF d, i, L
    <3>5. Append(ledger[n].got, d) \in Seq(Delivery)
      BY <2>1, <3>3 DEF LedgerEntry
    <3> QED
      BY <2>1, <3>4, <3>5 DEF LedgerEntry
  <2>3. CASE ~ \E i \in served : group[i].sid = n
    BY <2>1, <2>3 DEF LedgerAfter
  <2> QED
    BY <2>2, <2>3
<1>3. DOMAIN L = 1 .. Len(ledger) /\ Len(ledger) \in Nat
  BY <1>1 DEF LedgerAfter
<1>4. L \in [1 .. Len(ledger) -> LedgerEntry]
  BY <1>1, <1>2, <1>3 DEF LedgerAfter
<1> HIDE DEF L
<1>5. L \in Seq(LedgerEntry) /\ Len(L) = Len(ledger)
  BY <1>3, <1>4, SeqDef
<1> QED
  BY <1>1, <1>3, <1>5 DEF L

\* How many children are told and how many clients are served are numbers.
LEMMA CountTypes ==
  ASSUME TypeOK, NEW b \in Brokers, NEW k \in Keys, NEW m, NEW from, NEW hit
  PROVE  /\ Cardinality(Told(b, k, m, from)) \in Nat
         /\ Cardinality(Served(b, k, m, hit)) \in Nat
<1>1. Told(b, k, m, from) \in SUBSET Brokers
  BY DEF Told, Interested, TypeOK, OverlayTypes
<1>2. subscribers[b][k] \in Seq(GeoClient)
  BY DEF TypeOK, GroupTypes
<1>3. Served(b, k, m, hit) \in SUBSET (1 .. Len(subscribers[b][k]))
  BY <1>2 DEF Served
<1>4. IsFiniteSet(1 .. Len(subscribers[b][k]))
  BY <1>2, FS_Interval
<1> QED
  BY <1>1, <1>3, <1>4, BrokerAssumption, FS_Subset, FS_CardinalityType

\* The counters after a publication.
LEMMA StatAfterType ==
  ASSUME TypeOK, NEW b \in Brokers, NEW k \in Keys, NEW m, NEW from, NEW hit
  PROVE  StatAfter(b, k, m, from, hit) \in Stats
<1>1. stat[b] \in Stats
  BY DEF TypeOK
<1>2. \A cond : Bit(cond) \in Nat
  BY DEF Bit
<1> DEFINE added ==
      [pub_received |-> 1,
       forward_up |-> Bit(PassesUp(b, k, m, from)),
       braked_up |-> Bit(Climbs(b, from) /\ ~PassesUp(b, k, m, from)),
       forward_down |-> Cardinality(Told(b, k, m, from)),
       braked_local |-> Bit(subscribers[b][k] # << >> /\ ~PassesLocal(b, k, m)),
       delivered_local |-> Cardinality(Served(b, k, m, hit)),
       match_calls |-> Bit(Matches(b, k, m)),
       match_hits |-> Bit(hit)]
<1>3. \A x \in DOMAIN added : added[x] \in Nat
  BY <1>2, CountTypes
<1>4. StatAfter(b, k, m, from, hit) = CountUp(stat[b], added)
  BY DEF StatAfter
<1> HIDE DEF added
<1>5. CountUp(stat[b], added) \in Stats
  BY <1>1, <1>3 DEF CountUp, Stats
<1> QED
  BY <1>4, <1>5

\* The whole handler, for a publication from a publisher, a child or the parent.
LEMMA HandlePublishTypes ==
  ASSUME TypeOK, NEW b \in Brokers, NEW m \in PublishMsg, NEW from,
         NEW upIn \in [Brokers -> Seq(UpMsg)],
         NEW downIn \in [Brokers -> Seq(DownMsg)],
         spent' \in Budgets,
         HandlePublish(b, m, from, upIn, downIn)
  PROVE  TypeOK'
<1> DEFINE k == PubKey(b, m, from)
           q == Hemisphere(m.pos)
           fwd == [type |-> "PUBLISH", key |-> k, pos |-> m.pos, bn |-> m.bn,
                   id |-> m.id]
           told == Told(b, k, m, from)
           group == subscribers[b][k]
<1>1. k \in Keys /\ q \in Quadrants /\ m.pos \in Points
  BY PubKeyType, HemisphereType DEF PublishMsg
<1>2. fwd \in UpMsg /\ fwd \in DownMsg
  BY <1>1 DEF PublishMsg, UpMsg, DownMsg
<1>3. told \in SUBSET Interested(b, k, from)
  BY DEF Told
<1>4. group \in Seq(GeoClient)
  BY <1>1 DEF TypeOK, GroupTypes
<1>5. PICK hit \in Outcomes(b, k, m) :
        /\ pub_cache' = [pub_cache EXCEPT
             ![b][k] = Cached(@, [pos |-> m.pos, id |-> m.id, bn |-> m.bn])]
        /\ subscribers' =
             [subscribers EXCEPT ![b][k] = GroupAfter(group, m, Served(b, k, m, hit))]
        /\ stat' = [stat EXCEPT ![b] = StatAfter(b, k, m, from, hit)]
        /\ ledger' = LedgerAfter(group, m, Served(b, k, m, hit))
        /\ UNCHANGED last_active
  BY DEF HandlePublish
<1>6. ProcessTypes'
  BY LoopBodyTypes DEF HandlePublish, TypeOK
<1>7. GroupTypes'
  <2> DEFINE entry == [pos |-> m.pos, id |-> m.id, bn |-> m.bn]
             after == GroupAfter(group, m, Served(b, k, m, hit))
             cached == Cached(pub_cache[b][k], entry)
  <2>1. cached \in Seq(CachedPub)
    <3>1. entry \in CachedPub
      BY DEF CachedPub, PublishMsg
    <3>2. pub_cache[b][k] \in Seq(CachedPub)
      BY <1>1 DEF TypeOK, GroupTypes
    <3> QED
      BY <3>1, <3>2, CachedType
  <2>2. after \in Seq(GeoClient)
    BY <1>4, GroupAfterType
  <2>3. /\ pub_cache' = [pub_cache EXCEPT ![b][k] = cached]
        /\ subscribers' = [subscribers EXCEPT ![b][k] = after]
        /\ last_active' = last_active
    BY <1>5
  <2> HIDE DEF k, after, cached
  <2> QED
    BY <1>1, <2>1, <2>2, <2>3 DEF TypeOK, GroupTypes
<1>8. BrakeTypes'
  <2>1. /\ brake_count_up' = [brake_count_up EXCEPT ![b] =
             Consult(@, Climbs(b, from) /\ BrakesUpward, k, q)]
        /\ brake_count_local' = [brake_count_local EXCEPT ![b] =
             Consult(@, group # << >> /\ BrakesLocal, k, q)]
    BY DEF HandlePublish
  <2>2. /\ Consult(brake_count_up[b], Climbs(b, from) /\ BrakesUpward, k, q) \in Windows
        /\ Consult(brake_count_local[b], group # << >> /\ BrakesLocal, k, q) \in Windows
    <3>1. brake_count_up[b] \in Windows /\ brake_count_local[b] \in Windows
      BY DEF TypeOK, BrakeTypes
    <3> HIDE DEF k, q, group
    <3> QED
      BY <1>1, <3>1, ConsultType
  <2> HIDE DEF k, q, group
  <2> QED
    BY <2>1, <2>2 DEF TypeOK, BrakeTypes
<1>9. OverlayTypes'
  <2>1. /\ children' = [children EXCEPT ![b] = ChildrenAfter(b, m, told)]
        /\ UNCHANGED <<my_region, child_active, ot_parent>>
    BY DEF HandlePublish
  <2>2. ChildrenAfter(b, m, told) \in [Brokers -> ChildBroker \cup {NoChild}]
    BY <1>1, <1>3, ChildrenAfterType
  <2> HIDE DEF k, told
  <2> QED
    BY <2>1, <2>2 DEF TypeOK, OverlayTypes
<1>10. (stat \in [Brokers -> Stats])'
  BY <1>1, <1>5, StatAfterType DEF TypeOK
<1>11. NetworkTypes'
  <2>1. /\ up' = upIn \/ up' = ToParent(upIn, b, <<fwd>>)
        /\ down' = [c \in Brokers |->
               IF c \in told /\ Bound(c) THEN Append(downIn[c], fwd) ELSE downIn[c]]
    BY DEF HandlePublish
  <2>2. ToParent(upIn, b, <<fwd>>) \in [Brokers -> Seq(UpMsg)]
    <3>1. <<fwd>> \in Seq(UpMsg)
      BY <1>2
    <3> QED
      BY <3>1, ToParentType
  <2> HIDE DEF k, told, fwd
  <2>3. up' \in [Brokers -> Seq(UpMsg)]
    BY <2>1, <2>2
  <2>4. \A c \in Brokers : Append(downIn[c], fwd) \in Seq(DownMsg)
    BY <1>2, AppendProperties
  <2>5. down' \in [Brokers -> Seq(DownMsg)]
    BY <2>1, <2>4
  <2> QED
    BY <2>3, <2>5 DEF NetworkTypes
<1>12. HistoryTypes'
  <2>1. ledger' \in Seq(LedgerEntry)
    <3>1. Served(b, k, m, hit) \in SUBSET DOMAIN group
      BY DEF Served
    <3> QED
      BY <1>4, <1>5, <3>1, LedgerAfterType
  <2>2. offers' \in [Brokers -> Seq(Offer)]
    BY <1>1, OffersAfterType DEF HandlePublish
  <2>3. passed' \in [Brokers -> [{"up", "local"} -> Windows]]
    <3>1. passed' = PassedAfter(b, k, q, PassesUp(b, k, m, from), PassesLocal(b, k, m))
      BY DEF HandlePublish
    <3> HIDE DEF k, q
    <3> QED
      BY <1>1, <3>1, PassedAfterType
  <2>4. touched' = touched
    BY DEF HandlePublish
  <2> QED
    BY <2>1, <2>2, <2>3, <2>4 DEF TypeOK, HistoryTypes
<1> QED
  BY <1>6, <1>7, <1>8, <1>9, <1>10, <1>11, <1>12 DEF TypeOK

\* What a client's publication says: the plaintext name, a fresh number and, if
\* it is blinded, a value under a key the client has loaded.
FromPublisher(p, m) ==
    /\ m.type = "PUBLISH" /\ m.key = Name(p.svc) /\ m.pos = p.pos
    /\ m.bn \in Blind(p.enc, p.svc) /\ m.id = spent.pubs + 1

\* A client's publication is a typed datagram that the broker handles.
LEMMA ByClient ==
  ASSUME TypeOK, NEW p \in Publications, ClientPublish(p)
  PROVE  /\ p.broker \in Brokers /\ p \in PublicationType
         /\ \E m \in PublishMsg : /\ FromPublisher(p, m)
                               /\ HandlePublish(p.broker, m, NoBroker, up, down)
<1>1. /\ p \in PublicationType /\ p.broker \in Brokers /\ p.svc \in Services
      /\ p.pos \in Points /\ p.enc \in BOOLEAN
  BY BrokerAssumption DEF PublicationType
<1>2. PICK bn \in Blind(p.enc, p.svc) :
        HandlePublish(p.broker,
          [type |-> "PUBLISH", key |-> Name(p.svc), pos |-> p.pos, bn |-> bn,
           id |-> spent.pubs + 1], NoBroker, up, down)
  BY DEF ClientPublish
<1> DEFINE m == [type |-> "PUBLISH", key |-> Name(p.svc), pos |-> p.pos, bn |-> bn,
                 id |-> spent.pubs + 1]
<1>3. spent.pubs + 1 \in Nat
  BY DEF TypeOK, NetworkTypes, Budgets
<1>4. Name(p.svc) \in Keys
  BY <1>1, NameType
<1>5. bn \in Blinded \cup {NoBlind}
  BY <1>1, BlindType DEF TypeOK
<1>6. m \in PublishMsg
  BY <1>1, <1>3, <1>4, <1>5 DEF PublishMsg
<1>7. FromPublisher(p, m)
  BY DEF FromPublisher
<1>8. HandlePublish(p.broker, m, NoBroker, up, down)
  BY <1>2
<1> HIDE DEF m
<1> QED
  BY <1>1, <1>6, <1>7, <1>8

\* A publisher's own publication.
LEMMA ClientPublishTypes ==
  ASSUME TypeOK, NEW p \in Publications, ClientPublish(p) PROVE TypeOK'
<1>1. /\ p.broker \in Brokers /\ p.svc \in Services /\ p.pos \in Points
      /\ p.enc \in BOOLEAN
  BY BrokerAssumption DEF PublicationType
<1>2. spent \in Budgets /\ spent.pubs + 1 \in Nat
  BY DEF TypeOK, NetworkTypes, Budgets
<1>3. \E m \in PublishMsg : HandlePublish(p.broker, m, NoBroker, up, down)
  BY ByClient
<1>4. spent' \in Budgets
  BY <1>2, SpentType DEF ClientPublish
<1>5. PICK m \in PublishMsg : HandlePublish(p.broker, m, NoBroker, up, down)
  BY <1>3
<1>6. up \in [Brokers -> Seq(UpMsg)] /\ down \in [Brokers -> Seq(DownMsg)]
  BY DEF TypeOK, NetworkTypes
<1> QED
  BY <1>1, <1>4, <1>5, <1>6, HandlePublishTypes

\* A publication that climbs from a child.
LEMMA ChildPublishTypes ==
  ASSUME TypeOK, NEW c \in Brokers, ChildPublish(c) PROVE TypeOK'
<1> DEFINE taken == [up EXCEPT ![c] = Tail(@)]
<1>1. Parent[c] \in Brokers
  BY BrokerAssumption DEF ChildPublish, Bound
<1>2. /\ taken \in [Brokers -> Seq(UpMsg)] /\ Head(up[c]) \in UpMsg
      /\ down \in [Brokers -> Seq(DownMsg)]
  BY TakenType DEF ChildPublish, TypeOK, NetworkTypes
<1>3. Head(up[c]) \in PublishMsg
  BY <1>2, UpMsgTypes DEF ChildPublish
<1>4. spent' \in Budgets
  BY DEF ChildPublish, TypeOK, NetworkTypes
<1>5. HandlePublish(Parent[c], Head(up[c]), c, taken, down)
  BY DEF ChildPublish
<1> HIDE DEF taken
<1> QED
  BY <1>1, <1>2, <1>3, <1>4, <1>5, HandlePublishTypes

\* A publication that comes down from the parent.
LEMMA ParentPublishTypes ==
  ASSUME TypeOK, NEW b \in Brokers, ParentPublish(b) PROVE TypeOK'
<1> DEFINE taken == [down EXCEPT ![b] = Tail(@)]
<1>1. /\ taken \in [Brokers -> Seq(DownMsg)] /\ Head(down[b]) \in DownMsg
      /\ up \in [Brokers -> Seq(UpMsg)]
  BY TakenType DEF ParentPublish, TypeOK, NetworkTypes
<1>2. Head(down[b]) \in PublishMsg
  BY <1>1, DownMsgTypes DEF ParentPublish
<1>3. spent' \in Budgets
  BY DEF ParentPublish, TypeOK, NetworkTypes
<1>4. HandlePublish(b, Head(down[b]), Parent[b], up, taken)
  BY DEF ParentPublish
<1> HIDE DEF taken
<1> QED
  BY <1>1, <1>2, <1>3, <1>4, HandlePublishTypes

-----------------------------------------------------------------------------
\* The other handlers, the end of the loop body, the clock and the network.

\* handleHeartbeat.
LEMMA HeartbeatTypes ==
  ASSUME TypeOK, NEW h \in Beats, Heartbeat(h) PROVE TypeOK'
<1>1. h.broker \in Brokers /\ h.svc \in Services
  BY BrokerAssumption DEF BeatType
<1>2. ProcessTypes'
  BY <1>1, LoopBodyTypes DEF Heartbeat, TypeOK
<1>3. GroupTypes'
  <2>1. BeatKey(h) \in Keys /\ now \in Nat
    BY <1>1, NameType DEF BeatKey, TypeOK, ProcessTypes
  <2> QED
    BY <1>1, <2>1 DEF Heartbeat, TypeOK, GroupTypes
<1>4. NetworkTypes'
  BY SpentType DEF Heartbeat, TypeOK, NetworkTypes
<1>5. HistoryTypes'
  BY <1>1 DEF Heartbeat, TypeOK, HistoryTypes, ProcessTypes
<1> QED
  BY <1>2, <1>3, <1>4, <1>5, KeptTypes DEF Heartbeat, TypeOK

\* handleHello: the region of a broker with children is well-formed, whether the
\* child is new or has restarted.
LEMMA HelloTypes ==
  ASSUME TypeOK, NEW c \in Brokers, Hello(c) PROVE TypeOK'
<1> DEFINE b == Parent[c]
           m == Head(up[c])
           kids == [children[b] EXCEPT ![m.id] = HelloChild(b, m)]
           ack == [type |-> "HELLO_ACK", id |-> b]
<1>1. b \in Brokers
  BY BrokerAssumption DEF Hello, Bound
<1>2. [up EXCEPT ![c] = Tail(@)] \in [Brokers -> Seq(UpMsg)] /\ m \in UpMsg
  BY TakenType DEF Hello, TypeOK, NetworkTypes
<1>3. m.id \in Brokers /\ m.pos \in Points
  BY <1>2, UpMsgTypes DEF Hello, HelloMsg
<1>4. HelloChild(b, m) \in ChildBroker
  <2> HIDE DEF b, m
  <2>1. children[b][m.id] \in ChildBroker \cup {NoChild}
    BY <1>1, <1>3 DEF TypeOK, OverlayTypes
  <2> QED
    BY <1>3, <2>1, RegionOfType DEF HelloChild, ChildBroker, DoubleMax
<1>5. kids \in [Brokers -> ChildBroker \cup {NoChild}]
  <2>1. children[b] \in [Brokers -> ChildBroker \cup {NoChild}]
    BY <1>1 DEF TypeOK, OverlayTypes
  <2> HIDE DEF b, m
  <2> QED
    BY <1>3, <1>4, <2>1
<1>6. ProcessTypes'
  BY <1>1, LoopBodyTypes DEF Hello, TypeOK
<1>7. OverlayTypes'
  <2>1. /\ children' = [children EXCEPT ![b] = kids]
        /\ my_region' = [my_region EXCEPT ![b] = MyRegion(b, kids)]
        /\ UNCHANGED <<child_active, ot_parent>>
    BY DEF Hello
  <2> HIDE DEF b, kids
  <2>2. MyRegion(b, kids) \in RegionType
    BY <1>1, <1>5, MyRegionType
  <2> QED
    BY <1>1, <1>5, <2>1, <2>2 DEF TypeOK, OverlayTypes
<1>8. NetworkTypes'
  <2>1. /\ up' = [up EXCEPT ![c] = Tail(@)] /\ spent' = spent
        /\ down' = down \/ down' = [down EXCEPT ![c] = Append(@, ack)]
    BY DEF Hello
  <2>2. ack \in DownMsg
    BY <1>1 DEF DownMsg, HelloAckMsg
  <2>3. [down EXCEPT ![c] = Append(@, ack)] \in [Brokers -> Seq(DownMsg)]
    <3> HIDE DEF ack
    <3> QED
      BY <2>2, AppendProperties DEF TypeOK, NetworkTypes
  <2> HIDE DEF ack
  <2> QED
    BY <1>2, <2>1, <2>3 DEF TypeOK, NetworkTypes
<1> QED
  BY <1>6, <1>7, <1>8, KeptTypes DEF Hello, TypeOK

\* HELLO_ACK.
LEMMA HelloAckTypes ==
  ASSUME TypeOK, NEW b \in Brokers, HelloAck(b) PROVE TypeOK'
<1>1. ProcessTypes'
  BY LoopBodyTypes DEF HelloAck, TypeOK
<1>2. NetworkTypes'
  BY TakenType DEF HelloAck, TypeOK, NetworkTypes
<1> QED
  BY <1>1, <1>2, KeptTypes DEF HelloAck, TypeOK

\* handleRegionUpdate, from a known and from an unknown child.
LEMMA ChildRegionTypes ==
  ASSUME TypeOK, NEW c \in Brokers, ChildRegion(c) PROVE TypeOK'
<1> DEFINE b == Parent[c]
           m == Head(up[c])
           taken == [up EXCEPT ![c] = Tail(@)]
           kids == [children[b] EXCEPT ![m.id] = [@ EXCEPT !.region = m.region]]
           region == MyRegion(b, kids)
<1>1. b \in Brokers
  BY BrokerAssumption DEF ChildRegion, Bound
<1>2. taken \in [Brokers -> Seq(UpMsg)] /\ m \in UpMsg
  BY TakenType DEF ChildRegion, TypeOK, NetworkTypes
<1>3. m.id \in Brokers /\ m.region \in RegionType
  BY <1>2, UpMsgTypes DEF ChildRegion, RegionMsg
<1>4. ProcessTypes'
  BY <1>1, LoopBodyTypes DEF ChildRegion, TypeOK
<1>5. CASE children[b][m.id] # NoChild
  <2>1. kids \in [Brokers -> ChildBroker \cup {NoChild}]
    <3>1. children[b] \in [Brokers -> ChildBroker \cup {NoChild}]
      BY <1>1 DEF TypeOK, OverlayTypes
    <3> HIDE DEF b, m
    <3>2. children[b][m.id] \in ChildBroker
      BY <1>3, <1>5, <3>1
    <3>3. [children[b][m.id] EXCEPT !.region = m.region] \in ChildBroker
      BY <1>3, <3>2 DEF ChildBroker
    <3> QED
      BY <1>3, <3>1, <3>3
  <2>2. region \in RegionType
    <3> HIDE DEF b, kids
    <3> QED
      BY <1>1, <2>1, MyRegionType
  <2>3. OverlayTypes'
    <3>1. /\ children' = [children EXCEPT ![b] = kids]
          /\ my_region' = [my_region EXCEPT ![b] = region]
          /\ UNCHANGED <<child_active, ot_parent>>
      BY <1>5 DEF ChildRegion
    <3> HIDE DEF b, kids, region
    <3> QED
      BY <1>1, <2>1, <2>2, <3>1 DEF TypeOK, OverlayTypes
  <2>4. NetworkTypes'
    <3>1. /\ up' = ToParent(taken, b, RegionUpdates(b, region))
          /\ UNCHANGED <<down, spent>>
      BY <1>5 DEF ChildRegion
    <3> HIDE DEF b, taken, region
    <3>2. RegionUpdates(b, region) \in Seq(UpMsg)
      BY <1>1, <2>2, RegionUpdatesType
    <3> QED
      BY <1>1, <1>2, <3>1, <3>2, ToParentType DEF TypeOK, NetworkTypes
  <2> QED
    BY <1>4, <2>3, <2>4, KeptTypes DEF ChildRegion, TypeOK
<1>6. CASE children[b][m.id] = NoChild
  <2>1. /\ up' = taken
        /\ UNCHANGED <<children, my_region, child_active, ot_parent, down, spent>>
    BY <1>6 DEF ChildRegion
  <2>2. NetworkTypes'
    <3> HIDE DEF taken
    <3> QED
      BY <1>2, <2>1 DEF TypeOK, NetworkTypes
  <2>3. OverlayTypes'
    BY <2>1 DEF TypeOK, OverlayTypes
  <2> QED
    BY <1>4, <2>2, <2>3, KeptTypes DEF ChildRegion, TypeOK
<1> QED
  BY <1>5, <1>6

\* There are finitely many keys, so the number of live groups is a number.
LEMMA FinitelyManyKeys == IsFiniteSet(Keys)
<1> DEFINE P == Services \X (0 .. MaxHash)
           f == [x \in P |-> [svc |-> x[1], h |-> x[2]]]
<1>1. IsFiniteSet(P)
  <2>1. IsFiniteSet(0 .. MaxHash)
    <3>1. 0 \in Int /\ MaxHash \in Int
      BY DEF MaxHash
    <3> QED
      BY <3>1, FS_Interval
  <2>2. IsFiniteSet(Services)
    BY BrokerAssumption
  <2> QED
    BY <2>1, <2>2, FS_Product
<1>2. f \in Surjection(P, Keys)
  <2>1. f \in [P -> Keys]
    BY DEF Keys
  <2>2. \A k \in Keys : \E x \in P : f[x] = k
    <3> TAKE k \in Keys
    <3>1. <<k.svc, k.h>> \in P /\ f[<<k.svc, k.h>>] = k
      BY DEF Keys
    <3> QED
      BY <3>1
  <2> QED
    BY <2>1, <2>2, Fun_IsSurj
<1> QED
  BY <1>1, <1>2, FS_Surjection

\* handleStatsRequest.
LEMMA StatsRequestTypes ==
  ASSUME TypeOK, NEW b \in Brokers, StatsRequest(b) PROVE TypeOK'
<1>1. ProcessTypes'
  BY LoopBodyTypes DEF StatsRequest, TypeOK
<1>2. (stat \in [Brokers -> Stats])'
  <2>1. Groups(b) \in SUBSET Keys
    BY DEF Groups
  <2>2. Cardinality(Groups(b)) \in Nat
    BY <2>1, FinitelyManyKeys, FS_Subset, FS_CardinalityType
  <2>3. Bit(he_enabled(b)) \in Nat
    BY DEF Bit
  <2>4. stat' = [stat EXCEPT ![b].sub_groups = Cardinality(Groups(b)),
                             ![b].he_mode = Bit(he_enabled(b))]
    BY DEF StatsRequest
  <2>5. \A n1, n2 \in Nat : [stat[b] EXCEPT !.sub_groups = n1, !.he_mode = n2] \in Stats
    BY DEF TypeOK, Stats, Counters
  <2>6. [stat[b] EXCEPT !.sub_groups = Cardinality(Groups(b)),
                        !.he_mode = Bit(he_enabled(b))] \in Stats
    BY <2>2, <2>3, <2>5
  <2>7. stat' = [stat EXCEPT ![b] = [stat[b] EXCEPT
                    !.sub_groups = Cardinality(Groups(b)),
                    !.he_mode = Bit(he_enabled(b))]]
    BY <2>4 DEF TypeOK, Stats, Counters
  <2> QED
    BY <2>6, <2>7 DEF TypeOK
<1> QED
  BY <1>1, <1>2, KeptTypes DEF StatsRequest, TypeOK

\* An iteration without a datagram.
LEMMA EpollTimeoutTypes ==
  ASSUME TypeOK, NEW b \in Brokers, EpollTimeout(b) PROVE TypeOK'
<1>1. ProcessTypes'
  BY LoopBodyTypes DEF EpollTimeout, TypeOK
<1> QED
  BY <1>1, KeptTypes DEF EpollTimeout, TypeOK

\* Erasing the entries of some keys.
LEMMA WithoutType ==
  ASSUME NEW T, NEW table \in [Brokers -> [Keys -> T]], NEW b \in Brokers,
         NEW dead, NEW empty \in T
  PROVE  Without(table, b, dead, empty) \in [Brokers -> [Keys -> T]]
BY DEF Without

\* The end of an iteration, with and without cleanup.
LEMMA SweepTypes ==
  ASSUME TypeOK, NEW b \in Brokers, Sweep(b) PROVE TypeOK'
<1>1. ProcessTypes'
  BY DEF Sweep, TypeOK, ProcessTypes, worldVars, fileVars
<1>2. CASE CleanupDue(b)
  <2> DEFINE dead == Expired(b)
             NoWindows == [q \in Quadrants |-> << >>]
  <2>1. GroupTypes'
    <3>1. /\ last_active' = Without(last_active, b, dead, NoTime)
          /\ pub_cache' = Without(pub_cache, b, dead, << >>)
          /\ subscribers' = Without(subscribers, b, dead, << >>)
      BY <1>2 DEF Sweep, cleanupExpired
    <3>2. << >> \in Seq(GeoClient) /\ << >> \in Seq(CachedPub)
          /\ NoTime \in Nat \cup {NoTime}
      OBVIOUS
    <3> HIDE DEF dead
    <3>3. GroupTypes
      BY DEF TypeOK
    <3> QED
      BY <3>1, <3>2, <3>3, WithoutType DEF GroupTypes
  <2>2. BrakeTypes'
    <3>1. /\ brake_count_up' = Without(brake_count_up, b, dead, NoWindows)
          /\ brake_count_local' = Without(brake_count_local, b, dead, NoWindows)
      BY <1>2 DEF Sweep, cleanupExpired
    <3>2. NoWindows \in [Quadrants -> Seq(Nat)]
      OBVIOUS
    <3> HIDE DEF dead, NoWindows
    <3>3. BrakeTypes
      BY DEF TypeOK
    <3> QED
      BY <3>1, <3>2, <3>3, WithoutType DEF BrakeTypes, Windows
  <2> QED
    BY <1>1, <2>1, <2>2, KeptTypes DEF Sweep, TypeOK, worldVars
<1>3. CASE ~CleanupDue(b)
  BY <1>1, <1>3, KeptTypes DEF Sweep, TypeOK, worldVars, groupVars, brakeVars
<1> QED
  BY <1>2, <1>3

\* The clock.
LEMMA TickTypes ==
  ASSUME TypeOK, Tick PROVE TypeOK'
<1>1. ProcessTypes'
  BY DEF Tick, TypeOK, ProcessTypes, loopVars, tableVars, fileVars
<1> QED
  BY <1>1, KeptTypes DEF Tick, TypeOK, tableVars

\* A lost datagram.
LEMMA LossTypes ==
  ASSUME TypeOK, NEW c \in Brokers, LoseUp(c) \/ LoseDown(c) PROVE TypeOK'
<1>1. ProcessTypes'
  BY DEF LoseUp, LoseDown, TypeOK, ProcessTypes, loopVars, tableVars, fileVars
<1>2. NetworkTypes'
  <2>1. spent' \in Budgets
    BY SpentType DEF LoseUp, LoseDown, TypeOK, NetworkTypes
  <2>2. CASE LoseUp(c)
    BY <2>1, <2>2, TakenType DEF LoseUp, TypeOK, NetworkTypes
  <2>3. CASE LoseDown(c)
    BY <2>1, <2>3, TakenType DEF LoseDown, TypeOK, NetworkTypes
  <2> QED
    BY <2>2, <2>3
<1> QED
  BY <1>1, <1>2, KeptTypes DEF LoseUp, LoseDown, TypeOK, tableVars

-----------------------------------------------------------------------------
\* The initial state and the theorem.

\* The initial state.
LEMMA InitTypes == Init => TypeOK
<1> SUFFICES ASSUME Init PROVE TypeOK
  OBVIOUS
<1>1. ProcessTypes
  BY DEF Init, ProcessTypes, NoKey, Phases
<1>2. GroupTypes
  BY EmptyTypes DEF Init, GroupTypes, NoTime
<1>3. BrakeTypes
  BY EmptyTypes DEF Init, BrakeTypes
<1>4. OverlayTypes
  BY EmptyTypes DEF Init, OverlayTypes
<1>5. NetworkTypes
  BY DEF Init, NetworkTypes, Budgets
<1>6. HistoryTypes
  BY EmptyTypes DEF Init, HistoryTypes, NoTime
<1> QED
  BY <1>1, <1>2, <1>3, <1>4, <1>5, <1>6, EmptyTypes DEF Init, TypeOK

\* Every step, by the disjuncts of Next.
LEMMA NextTypes == TypeOK /\ [Next]_vars => TypeOK'
<1> SUFFICES ASSUME TypeOK, [Next]_vars PROVE TypeOK'
  OBVIOUS
<1>1. CASE FromClients
  BY <1>1, ClientSubscribeTypes, ClientPublishTypes, HeartbeatTypes DEF FromClients
<1>2. ASSUME NEW b \in Brokers, Starts(b) PROVE TypeOK'
  BY <1>2, BindTypes, GenerateKeyTypes, WriteKeyFileTypes,
     UnlinkFullKeyFileTypes, WriteFullKeyFileTypes, LoadKeyTypes, FailFastTypes DEF Starts
<1>3. ASSUME NEW b \in Brokers, FromChild(b) PROVE TypeOK'
  BY <1>3, HelloTypes, ChildSubscribeTypes, ChildRegionTypes, ChildPublishTypes
     DEF FromChild
<1>4. ASSUME NEW b \in Brokers, FromParent(b) PROVE TypeOK'
  BY <1>4, HelloAckTypes, ParentPublishTypes DEF FromParent
<1>5. ASSUME NEW b \in Brokers,
             Sweep(b) \/ EpollTimeout(b) \/ StatsRequest(b) \/ Crash(b)
               \/ LoseUp(b) \/ LoseDown(b)
      PROVE  TypeOK'
  BY <1>5, SweepTypes, EpollTimeoutTypes, StatsRequestTypes, CrashTypes, LossTypes
<1>6. CASE Tick
  BY <1>6, TickTypes
<1>7. CASE UNCHANGED vars
  BY <1>7, StutterTypes
<1> QED
  BY <1>1, <1>2, <1>3, <1>4, <1>5, <1>6, <1>7 DEF Next

\* Every table, channel, clock, key file and counter of every broker keeps its
\* type, whatever clients send and the network loses: no handler reads an entry
\* that is not there, no distance, window or region is malformed.
THEOREM TypeCorrect == Spec => []TypeOK
<1> QED
  BY InitTypes, NextTypes, PTL DEF Spec
=============================================================================
