---------------------------- MODULE BrokerRouting ----------------------------
(***************************************************************************)
(* Publications on their way through the tree, proved for every tree of    *)
(* brokers: a publication is handled at most once by each broker, is filed *)
(* under one key by all of them, what is forwarded to a child only gets    *)
(* nearer, the brake lets through what it should and no more, and the      *)
(* counters of the whole tree add up.                                      *)
(*                                                                         *)
(* None of this is inductive on the tables alone: caches forget and brokers*)
(* are killed.  The invariants quantify over what happened to each         *)
(* publication so far: the brokers it was handled by, the key it was given.*)
(***************************************************************************)
EXTENDS BrokerFaults

-----------------------------------------------------------------------------
\* Publications in channels.

\* The publications of a channel.
Copies(channel) == {channel[i] : i \in InFlight(channel, "PUBLISH")}

\* No publication is in the channel twice.
OnceEach(channel) ==
    \A i, j \in InFlight(channel, "PUBLISH") :
        channel[i].id = channel[j].id => i = j

\* new carries no publication old did not carry, and none more often.
Thinner(new, old) ==
    Copies(new) \subseteq Copies(old) /\ (OnceEach(old) => OnceEach(new))

\* A channel without publications.
NoCopies(channel) == InFlight(channel, "PUBLISH") = {}

\* A channel that is left alone or emptied.
LEMMA ThinnerKept ==
  ASSUME NEW s PROVE Thinner(s, s) /\ Thinner(<< >>, s)
BY DEF Thinner, Copies, OnceEach, InFlight

LEMMA ThinnerTwice ==
  ASSUME NEW s, NEW t, NEW u, Thinner(s, t), Thinner(t, u) PROVE Thinner(s, u)
BY DEF Thinner

\* Taking the head.
LEMMA ThinnerTail ==
  ASSUME NEW M, NEW s \in Seq(M), s # << >>
  PROVE  /\ Thinner(Tail(s), s)
         /\ Head(s).type = "PUBLISH" =>
              /\ Head(s) \in Copies(s)
              /\ OnceEach(s) => \A m \in Copies(Tail(s)) : m.id # Head(s).id
<1>1. /\ Tail(s) \in Seq(M)
      /\ \A i \in DOMAIN Tail(s) :
            Tail(s)[i] = s[i + 1] /\ i + 1 \in DOMAIN s /\ i \in Nat /\ i + 1 # 1
  BY HeadTailProperties
<1>2. Head(s) = s[1] /\ 1 \in DOMAIN s
  OBVIOUS
<1>3. \A i \in InFlight(Tail(s), "PUBLISH") :
        i + 1 \in InFlight(s, "PUBLISH") /\ Tail(s)[i] = s[i + 1] /\ i \in Nat /\ i + 1 # 1
  BY <1>1 DEF InFlight
<1>4. Copies(Tail(s)) \subseteq Copies(s)
  BY <1>3 DEF Copies
<1>5. ASSUME OnceEach(s) PROVE OnceEach(Tail(s))
  <2> SUFFICES ASSUME NEW i \in InFlight(Tail(s), "PUBLISH"),
                      NEW j \in InFlight(Tail(s), "PUBLISH"),
                      Tail(s)[i].id = Tail(s)[j].id
               PROVE  i = j
    BY DEF OnceEach
  <2>1. /\ i + 1 \in InFlight(s, "PUBLISH") /\ j + 1 \in InFlight(s, "PUBLISH")
        /\ s[i + 1].id = s[j + 1].id /\ i \in Nat /\ j \in Nat
    BY <1>3, Zenon
  <2>2. i + 1 = j + 1
    BY <1>5, <2>1, Zenon DEF OnceEach
  <2> QED BY <2>1, <2>2
<1>6. ASSUME Head(s).type = "PUBLISH"
      PROVE  /\ 1 \in InFlight(s, "PUBLISH") /\ Head(s) \in Copies(s)
  BY <1>2, <1>6 DEF InFlight, Copies
<1>7. ASSUME Head(s).type = "PUBLISH", OnceEach(s), NEW m \in Copies(Tail(s))
      PROVE  m.id # Head(s).id
  <2>1. PICK i \in InFlight(Tail(s), "PUBLISH") : m = Tail(s)[i]
    BY <1>7 DEF Copies
  <2> QED BY <1>2, <1>3, <1>6, <1>7, <2>1 DEF OnceEach
<1> QED BY <1>4, <1>5, <1>6, <1>7 DEF Thinner

\* Adding datagrams that are no publications.
LEMMA ThinnerJoin ==
  ASSUME NEW M, NEW s \in Seq(M), NEW t \in Seq(M), NoCopies(t)
  PROVE  Thinner(s \o t, s)
<1>1. \A i \in DOMAIN (s \o t) :
        \/ i \in DOMAIN s /\ (s \o t)[i] = s[i]
        \/ i - Len(s) \in DOMAIN t /\ (s \o t)[i] = t[i - Len(s)]
  OBVIOUS
<1>2. \A i \in InFlight(s \o t, "PUBLISH") :
        i \in InFlight(s, "PUBLISH") /\ (s \o t)[i] = s[i]
  BY <1>1 DEF InFlight, NoCopies
<1> QED BY <1>2 DEF Thinner, Copies, OnceEach

LEMMA ThinnerAppend ==
  ASSUME NEW M, NEW s \in Seq(M), NEW m \in M, m.type # "PUBLISH"
  PROVE  Thinner(Append(s, m), s)
<1>1. \A i \in InFlight(Append(s, m), "PUBLISH") :
        i \in InFlight(s, "PUBLISH") /\ Append(s, m)[i] = s[i]
  BY DEF InFlight
<1> QED BY <1>1 DEF Thinner, Copies, OnceEach

\* Adding a publication.
LEMMA CopyAppended ==
  ASSUME NEW M, NEW s \in Seq(M), NEW m \in M, m.type = "PUBLISH"
  PROVE  /\ Copies(Append(s, m)) = Copies(s) \cup {m}
         /\ OnceEach(s) /\ (\A x \in Copies(s) : x.id # m.id) => OnceEach(Append(s, m))
<1> DEFINE n == Len(s) + 1
           t == Append(s, m)
<1>1. /\ \A i \in DOMAIN s : t[i] = s[i] /\ i # n
      /\ DOMAIN t = DOMAIN s \cup {n} /\ t[n] = m
  OBVIOUS
<1> HIDE DEF n, t
<1>2. /\ InFlight(t, "PUBLISH") = InFlight(s, "PUBLISH") \cup {n}
      /\ \A i \in InFlight(s, "PUBLISH") : t[i] = s[i] /\ i # n
  BY <1>1 DEF InFlight
<1>3. Copies(t) = Copies(s) \cup {m}
  BY <1>1, <1>2 DEF Copies
<1>4. ASSUME OnceEach(s), \A x \in Copies(s) : x.id # m.id
      PROVE  OnceEach(t)
  <2>1. \A i \in InFlight(s, "PUBLISH") : s[i].id # m.id
    BY <1>4 DEF Copies
  <2> QED BY <1>1, <1>2, <1>4, <2>1 DEF OnceEach
<1> QED BY <1>3, <1>4 DEF t

\* What b tells its parent besides publications.
LEMMA ThinnerToParent ==
  ASSUME NEW channels \in [Brokers -> Seq(UpMsg)], NEW b \in Brokers,
         NEW msgs \in Seq(UpMsg), NoCopies(msgs), NEW c \in Brokers
  PROVE  Thinner(ToParent(channels, b, msgs)[c], channels[c])
<1>1. Thinner(channels[b] \o msgs, channels[b])
  BY ThinnerJoin
<1> QED BY <1>1, ThinnerKept DEF ToParent

LEMMA NoCopiesOf ==
  /\ \A b, region : NoCopies(RegionUpdates(b, region))
  /\ \A b, k : NoCopies(Relay(b, k))
  /\ \A b : NoCopies(<< [type |-> "HELLO", id |-> b, pos |-> Home[b]] >>)
BY DEF NoCopies, InFlight, RegionUpdates, RegionUpdate, Relay

LEMMA NoCopiesJoin ==
  ASSUME NEW M, NEW s \in Seq(M), NEW t \in Seq(M), NoCopies(s), NoCopies(t)
  PROVE  NoCopies(s \o t)
<1>1. \A i \in DOMAIN (s \o t) :
        \/ i \in DOMAIN s /\ (s \o t)[i] = s[i]
        \/ i - Len(s) \in DOMAIN t /\ (s \o t)[i] = t[i - Len(s)]
  OBVIOUS
<1> QED BY <1>1 DEF NoCopies, InFlight

-----------------------------------------------------------------------------
\* The steps that handle no publication.

\* No publication appears anywhere: caches and channels only lose some.
Quietly ==
    /\ \A c \in Brokers : Thinner(up'[c], up[c]) /\ Thinner(down'[c], down[c])
    /\ \A b \in Brokers : \A k \in Keys :
          pub_cache'[b][k] = pub_cache[b][k] \/ pub_cache'[b][k] = << >>
    /\ spent'.pubs = spent.pubs

Publishing ==
    \/ \E p \in Publications : ClientPublish(p)
    \/ \E b \in Brokers : ChildPublish(b) \/ ParentPublish(b)

\* A channel whose head is taken.
LEMMA ThinnerTaken ==
  ASSUME NEW M, NEW channels \in [Brokers -> Seq(M)], NEW c \in Brokers,
         channels[c] # << >>, NEW x \in Brokers
  PROVE  Thinner([channels EXCEPT ![c] = Tail(@)][x], channels[x])
<1>1. Thinner(Tail(channels[c]), channels[c])
  BY ThinnerTail
<1> QED BY <1>1, ThinnerKept

LEMMA SubscribeQuiet ==
  ASSUME TypeOK,
         (\E s \in Subscriptions : ClientSubscribe(s))
           \/ \E c \in Brokers : ChildSubscribe(c)
  PROVE  Quietly
<1>1. up \in [Brokers -> Seq(UpMsg)]
  BY DEF TypeOK, NetworkTypes
<1>2. ASSUME NEW s \in Subscriptions, ClientSubscribe(s)
      PROVE  Quietly
  <2> DEFINE b == s.broker
             region == Merge(my_region[b], RegionOf(s.pos))
             msgs == RegionUpdates(b, region) \o Relay(b, SubKey(b, s))
  <2>1. s \in SubscriptionType /\ b \in Brokers /\ s.pos \in Points
    BY BrokerAssumption DEF SubscriptionType
  <2>2. region \in RegionType
    BY <2>1, RegionOfType, MergeType DEF TypeOK, OverlayTypes
  <2>3. RegionUpdates(b, region) \in Seq(UpMsg) /\ Relay(b, SubKey(b, s)) \in Seq(UpMsg)
    BY <2>1, <2>2, RegionUpdatesType, RelayType, SubKeyType
  <2>4. msgs \in Seq(UpMsg) /\ NoCopies(msgs)
    BY <2>3, NoCopiesJoin, NoCopiesOf
  <2>5. up' = ToParent(up, b, msgs) /\ UNCHANGED <<pub_cache, down, spent>>
    BY <1>2 DEF ClientSubscribe
  <2> HIDE DEF msgs, b
  <2>6. \A c \in Brokers : Thinner(up'[c], up[c])
    BY <1>1, <2>1, <2>4, <2>5, ThinnerToParent
  <2> QED BY <2>5, <2>6, ThinnerKept DEF Quietly
<1>3. ASSUME NEW c \in Brokers, ChildSubscribe(c)
      PROVE  Quietly
  <2> DEFINE b == Parent[c]
             k == Head(up[c]).key
             taken == [up EXCEPT ![c] = Tail(@)]
  <2>1. /\ b \in Brokers /\ up[c] # << >> /\ Head(up[c]).type = "SUBSCRIBE"
        /\ UNCHANGED <<pub_cache, down, spent>>
        /\ up' = ToParent(taken, b, Relay(b, k)) \/ up' = taken
    BY <1>3, BrokerAssumption DEF ChildSubscribe, Bound, groupVars
  <2>2. taken \in [Brokers -> Seq(UpMsg)] /\ \A x \in Brokers : Thinner(taken[x], up[x])
    BY <1>1, <2>1, TakenType, ThinnerTaken
  <2>3. k \in Keys
    BY <1>1, <2>1, HeadTailProperties, UpMsgTypes DEF SubscribeMsg
  <2>4. Relay(b, k) \in Seq(UpMsg) /\ NoCopies(Relay(b, k))
    BY <2>1, <2>3, RelayType, NoCopiesOf
  <2> HIDE DEF taken, k, b
  <2>5. \A x \in Brokers : Thinner(up'[x], taken[x])
    BY <2>1, <2>2, <2>4, ThinnerToParent, ThinnerKept
  <2> QED BY <2>1, <2>2, <2>5, ThinnerTwice, ThinnerKept DEF Quietly
<1> QED BY <1>2, <1>3

LEMMA RegionsQuiet ==
  ASSUME TypeOK, NEW c \in Brokers, Hello(c) \/ ChildRegion(c)
  PROVE  Quietly
<1> DEFINE b == Parent[c]
           m == Head(up[c])
           taken == [up EXCEPT ![c] = Tail(@)]
<1>1. up \in [Brokers -> Seq(UpMsg)] /\ down \in [Brokers -> Seq(DownMsg)]
  BY DEF TypeOK, NetworkTypes
<1>2. b \in Brokers /\ up[c] # << >> /\ UNCHANGED <<pub_cache, spent>>
  BY BrokerAssumption DEF Hello, ChildRegion, Bound, groupVars
<1>3. taken \in [Brokers -> Seq(UpMsg)] /\ \A x \in Brokers : Thinner(taken[x], up[x])
  BY <1>1, <1>2, TakenType, ThinnerTaken
<1>4. CASE Hello(c)
  <2>1. Thinner(Append(down[c], [type |-> "HELLO_ACK", id |-> b]), down[c])
    <3>1. [type |-> "HELLO_ACK", id |-> b] \in DownMsg
      BY <1>2 DEF DownMsg, HelloAckMsg
    <3> QED BY <1>1, <3>1, ThinnerAppend
  <2>2. \A x \in Brokers : Thinner(down'[x], down[x])
    BY <1>1, <1>4, <2>1, ThinnerKept DEF Hello
  <2>3. up' = taken
    BY <1>4 DEF Hello
  <2> QED BY <1>2, <1>3, <2>2, <2>3 DEF Quietly
<1>5. CASE ChildRegion(c)
  <2>1. PICK region \in RegionType :
          up' = taken \/ up' = ToParent(taken, b, RegionUpdates(b, region))
    BY <1>5, RegionTravels
  <2>2. RegionUpdates(b, region) \in Seq(UpMsg) /\ NoCopies(RegionUpdates(b, region))
    BY <1>2, RegionUpdatesType, NoCopiesOf
  <2>3. UNCHANGED down
    BY <1>5 DEF ChildRegion
  <2> HIDE DEF taken, b, m
  <2>4. \A x \in Brokers : Thinner(up'[x], taken[x])
    BY <1>2, <1>3, <2>1, <2>2, ThinnerToParent, ThinnerKept
  <2> QED BY <1>2, <1>3, <2>3, <2>4, ThinnerTwice, ThinnerKept DEF Quietly
<1> QED BY <1>4, <1>5

LEMMA StartsQuiet ==
  ASSUME TypeOK, NEW b \in Brokers, Starts(b) \/ Crash(b)
  PROVE  Quietly
<1>1. /\ up \in [Brokers -> Seq(UpMsg)] /\ down \in [Brokers -> Seq(DownMsg)]
      /\ pub_cache \in [Brokers -> [Keys -> Seq(CachedPub)]] /\ spent \in Budgets
  BY DEF TypeOK, NetworkTypes, GroupTypes
<1>2. CASE Bind(b) \/ GenerateKey(b) \/ WriteKeyFile(b) \/ UnlinkFullKeyFile(b)
  BY <1>2, ThinnerKept
  DEF Bind, GenerateKey, WriteKeyFile, UnlinkFullKeyFile, tableVars, groupVars, worldVars,
      Quietly
<1>3. CASE WriteFullKeyFile(b) \/ LoadKey(b)
  <2> DEFINE hello == << [type |-> "HELLO", id |-> b, pos |-> Home[b]] >>
  <2>1. hello \in Seq(UpMsg)
    <3>1. [type |-> "HELLO", id |-> b, pos |-> Home[b]] \in UpMsg
      BY BrokerAssumption DEF UpMsg, HelloMsg
    <3> QED BY <3>1
  <2>2. up' = ToParent(up, b, hello) /\ UNCHANGED <<down, pub_cache, spent>>
    BY <1>3 DEF WriteFullKeyFile, LoadKey, Started, tableVars, groupVars
  <2>3. NoCopies(hello)
    BY NoCopiesOf
  <2> HIDE DEF hello
  <2> QED BY <1>1, <2>1, <2>2, <2>3, ThinnerToParent, ThinnerKept DEF Quietly
<1>4. CASE FailFast(b) \/ Crash(b)
  <2>1. Vanish(b) /\ spent'.pubs = spent.pubs
    BY <1>1, <1>4 DEF FailFast, Crash, Budgets
  <2>2. \A a \in Brokers : \A k \in Keys :
          pub_cache'[a][k] = pub_cache[a][k] \/ pub_cache'[a][k] = << >>
    <3>1. UNCHANGED pub_cache \/ pub_cache' = [pub_cache EXCEPT ![b] = EmptyKeyed]
      BY <1>4 DEF FailFast, Crash, tableVars, groupVars
    <3> QED BY <1>1, <3>1 DEF EmptyKeyed
  <2>3. \A c \in Brokers : Thinner(up'[c], up[c]) /\ Thinner(down'[c], down[c])
    BY <1>1, <2>1, ThinnerKept DEF Vanish
  <2> QED BY <2>1, <2>2, <2>3 DEF Quietly
<1> QED BY <1>2, <1>3, <1>4 DEF Starts

LEMMA OthersQuiet ==
  ASSUME TypeOK, NEW b \in Brokers,
         \/ Sweep(b) \/ HelloAck(b) \/ EpollTimeout(b) \/ StatsRequest(b)
         \/ LoseUp(b) \/ LoseDown(b)
  PROVE  Quietly
<1>1. /\ up \in [Brokers -> Seq(UpMsg)] /\ down \in [Brokers -> Seq(DownMsg)]
      /\ pub_cache \in [Brokers -> [Keys -> Seq(CachedPub)]] /\ spent \in Budgets
  BY DEF TypeOK, NetworkTypes, GroupTypes
<1>2. CASE Sweep(b)
  <2>1. \A a \in Brokers : \A k \in Keys :
          pub_cache'[a][k] = pub_cache[a][k] \/ pub_cache'[a][k] = << >>
    <3>1. CASE CleanupDue(b)
      <4>1. pub_cache' = Without(pub_cache, b, Expired(b), << >>)
        BY <1>2, <3>1 DEF Sweep, cleanupExpired
      <4> QED BY <1>1, <4>1 DEF Without
    <3>2. CASE ~CleanupDue(b)
      BY <1>2, <3>2 DEF Sweep
    <3> QED BY <3>1, <3>2
  <2>2. UNCHANGED <<up, down, spent>>
    BY <1>2 DEF Sweep, worldVars
  <2> QED BY <2>1, <2>2, ThinnerKept DEF Quietly
<1>3. CASE HelloAck(b)
  BY <1>1, <1>3, ThinnerTaken, ThinnerKept DEF HelloAck, groupVars, Quietly
<1>4. CASE EpollTimeout(b) \/ StatsRequest(b)
  BY <1>4, ThinnerKept DEF EpollTimeout, StatsRequest, groupVars, Quietly
<1>5. CASE LoseUp(b)
  <2>1. spent'.pubs = spent.pubs
    BY <1>1, <1>5 DEF LoseUp, Budgets
  <2> QED
    BY <1>1, <1>5, <2>1, ThinnerTaken, ThinnerKept DEF LoseUp, tableVars, groupVars, Quietly
<1>6. CASE LoseDown(b)
  <2>1. spent'.pubs = spent.pubs
    BY <1>1, <1>6 DEF LoseDown, Budgets
  <2> QED
    BY <1>1, <1>6, <2>1, ThinnerTaken, ThinnerKept DEF LoseDown, tableVars, groupVars, Quietly
<1> QED BY <1>2, <1>3, <1>4, <1>5, <1>6

LEMMA OnlyPublicationsSpread ==
  ASSUME TypeOK, [Next]_vars, ~Publishing
  PROVE  Quietly
<1>1. CASE \E h \in Beats : Heartbeat(h)
  <2>1. spent'.pubs = spent.pubs /\ UNCHANGED <<pub_cache, up, down>>
    BY <1>1 DEF Heartbeat, TypeOK, NetworkTypes, Budgets
  <2> QED BY <2>1, ThinnerKept DEF Quietly
<1>2. CASE Tick \/ UNCHANGED vars
  <2>1. UNCHANGED <<pub_cache, up, down, spent>>
    BY <1>2 DEF Tick, vars, tableVars, groupVars, worldVars
  <2> QED BY <2>1, ThinnerKept DEF Quietly
<1> QED
  BY <1>1, <1>2, SubscribeQuiet, RegionsQuiet, StartsQuiet, OthersQuiet
  DEF Next, FromClients, FromChild, FromParent, Publishing

-----------------------------------------------------------------------------
\* The step that handles one.

\* What b passes on of m, filed under k.
Forward(k, m) ==
    [type |-> "PUBLISH", key |-> k, pos |-> m.pos, bn |-> m.bn, id |-> m.id]

\* m is filed under k and at most one copy is added to a channel: to the parent
\* unless m came from there, and to interested children other than the one it
\* came from.
Spreads(b, k, m, from, upIn, downIn) ==
    /\ \A c \in Brokers :
          \/ up'[c] = upIn[c]
          \/ c = b /\ Climbs(b, from) /\ up'[c] = Append(upIn[c], Forward(k, m))
    /\ \A c \in Brokers :
          \/ down'[c] = downIn[c]
          \/ /\ c \in Interested(b, k, from)
             /\ down'[c] = Append(downIn[c], Forward(k, m))
    /\ \A a \in Brokers : \A l \in Keys :
          IF a = b /\ l = k
          THEN pub_cache'[a][l] =
                 Cached(pub_cache[a][l], [pos |-> m.pos, id |-> m.id, bn |-> m.bn])
          ELSE pub_cache'[a][l] = pub_cache[a][l]

\* What handlePublish does with a publication.
LEMMA PublishSpreads ==
  ASSUME TypeOK, NEW b \in Brokers, NEW m \in PublishMsg, NEW from,
         NEW upIn \in [Brokers -> Seq(UpMsg)], NEW downIn \in [Brokers -> Seq(DownMsg)],
         HandlePublish(b, m, from, upIn, downIn),
         NEW k, k = PubKey(b, m, from)
  PROVE  /\ k \in Keys /\ Forward(k, m) \in UpMsg \cap DownMsg
         /\ Spreads(b, k, m, from, upIn, downIn)
<1> DEFINE fwd == Forward(k, m)
           entry == [pos |-> m.pos, id |-> m.id, bn |-> m.bn]
           told == Told(b, k, m, from)
<1>1. k \in Keys
  BY PubKeyType
<1>2. fwd \in UpMsg /\ fwd \in DownMsg
  BY <1>1 DEF UpMsg, DownMsg, PublishMsg, Forward
<1>3. /\ pub_cache' = [pub_cache EXCEPT ![b][k] = Cached(@, entry)]
      /\ up' = IF PassesUp(b, k, m, from) THEN ToParent(upIn, b, <<fwd>>) ELSE upIn
      /\ down' = [c \in Brokers |-> IF c \in told /\ Bound(c) THEN Append(downIn[c], fwd)
                                     ELSE downIn[c]]
  BY DEF HandlePublish, Forward
<1>4. upIn[b] \o <<fwd>> = Append(upIn[b], fwd)
  BY <1>2
<1>5. told \subseteq Interested(b, k, from)
  BY DEF Told
<1> HIDE DEF fwd, told, entry
<1>6. \A c \in Brokers :
        \/ up'[c] = upIn[c]
        \/ c = b /\ Climbs(b, from) /\ up'[c] = Append(upIn[c], fwd)
  BY <1>3, <1>4 DEF ToParent, PassesUp
<1>7. \A c \in Brokers :
        \/ down'[c] = downIn[c]
        \/ c \in Interested(b, k, from) /\ down'[c] = Append(downIn[c], fwd)
  BY <1>3, <1>5
<1>8. \A a \in Brokers : \A l \in Keys :
        IF a = b /\ l = k THEN pub_cache'[a][l] = Cached(pub_cache[a][l], entry)
        ELSE pub_cache'[a][l] = pub_cache[a][l]
  BY <1>1, <1>3 DEF TypeOK, GroupTypes
<1> QED BY <1>1, <1>2, <1>6, <1>7, <1>8 DEF fwd, entry, Spreads

-----------------------------------------------------------------------------
\* One key per publication.

\* K gives the key of every publication sent so far: every cache and every
\* channel agrees with it.
CachesAgree(K) ==
    \A b \in Brokers : \A k \in Keys : \A i \in DOMAIN pub_cache[b][k] :
        pub_cache[b][k][i].id \in DOMAIN K /\ K[pub_cache[b][k][i].id] = k
ChannelsAgree(K, upward, downward) ==
    \A c \in Brokers : \A m \in Copies(upward[c]) \cup Copies(downward[c]) :
        m.id \in DOMAIN K /\ K[m.id] = m.key
KeyedBy(K) == CachesAgree(K) /\ ChannelsAgree(K, up, down)
Keyed == \E K \in [1 .. spent.pubs -> Keys] : KeyedBy(K)

\* A quiet step leaves the same keys.
LEMMA QuietKeyed ==
  ASSUME Keyed, Quietly
  PROVE  Keyed'
<1>1. PICK K \in [1 .. spent.pubs -> Keys] : KeyedBy(K)
  BY DEF Keyed
<1>2. ASSUME NEW b \in Brokers, NEW k \in Keys, NEW i \in DOMAIN pub_cache'[b][k]
      PROVE  pub_cache'[b][k][i].id \in DOMAIN K /\ K[pub_cache'[b][k][i].id] = k
  BY <1>1, <1>2 DEF Quietly, KeyedBy, CachesAgree
<1>3. ASSUME NEW c \in Brokers, NEW m \in Copies(up'[c]) \cup Copies(down'[c])
      PROVE  m.id \in DOMAIN K /\ K[m.id] = m.key
  <2>1. m \in Copies(up[c]) \cup Copies(down[c])
    BY <1>3 DEF Quietly, Thinner
  <2> QED BY <1>1, <2>1 DEF KeyedBy, ChannelsAgree
<1>4. KeyedBy(K)'
  BY <1>2, <1>3 DEF KeyedBy, CachesAgree, ChannelsAgree, Copies, InFlight
<1> QED BY <1>4 DEF Keyed, Quietly

\* What is taken from a channel with the rest of it is what was in it.
LEMMA TakenCopies ==
  ASSUME NEW M, NEW channels \in [Brokers -> Seq(M)], NEW c \in Brokers,
         channels[c] # << >>, Head(channels[c]).type = "PUBLISH"
  PROVE  /\ Head(channels[c]) \in Copies(channels[c])
         /\ \A x \in Brokers :
              Copies([channels EXCEPT ![c] = Tail(@)][x]) \subseteq Copies(channels[x])
<1>1. Head(channels[c]) \in Copies(channels[c])
  BY ThinnerTail
<1> QED BY <1>1, ThinnerTaken DEF Thinner

\* A handler that files a publication under its key keeps the keys.
LEMMA HandleKeyed ==
  ASSUME TypeOK, NEW b \in Brokers, NEW m \in PublishMsg, NEW from,
         NEW upIn \in [Brokers -> Seq(UpMsg)], NEW downIn \in [Brokers -> Seq(DownMsg)],
         HandlePublish(b, m, from, upIn, downIn),
         NEW k, k = PubKey(b, m, from),
         NEW K, m.id \in DOMAIN K, K[m.id] = k,
         CachesAgree(K), ChannelsAgree(K, upIn, downIn)
  PROVE  KeyedBy(K)'
<1> DEFINE fwd == Forward(k, m)
           entry == [pos |-> m.pos, id |-> m.id, bn |-> m.bn]
<1>1. fwd.id = m.id /\ fwd.key = k /\ fwd.type = "PUBLISH" /\ entry.id = m.id
  BY DEF Forward
<1>2. /\ k \in Keys /\ fwd \in UpMsg /\ fwd \in DownMsg
      /\ \A c \in Brokers : up'[c] = upIn[c] \/ up'[c] = Append(upIn[c], fwd)
      /\ \A c \in Brokers : down'[c] = downIn[c] \/ down'[c] = Append(downIn[c], fwd)
      /\ \A a \in Brokers : \A l \in Keys :
           IF a = b /\ l = k THEN pub_cache'[a][l] = Cached(pub_cache[a][l], entry)
           ELSE pub_cache'[a][l] = pub_cache[a][l]
  <2>1. k \in Keys /\ fwd \in UpMsg \cap DownMsg /\ Spreads(b, k, m, from, upIn, downIn)
    BY PublishSpreads
  <2> QED BY <2>1 DEF Spreads
<1> HIDE DEF fwd, entry
<1>3. ASSUME NEW a \in Brokers, NEW l \in Keys, NEW i \in DOMAIN pub_cache'[a][l]
      PROVE  pub_cache'[a][l][i].id \in DOMAIN K /\ K[pub_cache'[a][l][i].id] = l
  <2>1. CASE a = b /\ l = k
    <3>1. pub_cache[a][l] \in Seq(CachedPub) /\ entry \in CachedPub
      <4>1. entry \in CachedPub
        BY DEF CachedPub, PublishMsg, entry
      <4> QED BY <4>1 DEF TypeOK, GroupTypes
    <3>2. \/ pub_cache'[a][l][i] = entry
          \/ \E j \in DOMAIN pub_cache[a][l] : pub_cache'[a][l][i] = pub_cache[a][l][j]
      BY <1>2, <2>1, <3>1, CachedEntry
    <3> QED BY <1>1, <2>1, <3>2 DEF CachesAgree
  <2>2. CASE ~(a = b /\ l = k)
    <3>1. pub_cache'[a][l] = pub_cache[a][l]
      BY <1>2, <2>2
    <3> QED BY <3>1 DEF CachesAgree
  <2> QED BY <2>1, <2>2
<1>4. ASSUME NEW c \in Brokers, NEW x \in Copies(up'[c]) \cup Copies(down'[c])
      PROVE  x.id \in DOMAIN K /\ K[x.id] = x.key
  <2>1. /\ Copies(Append(upIn[c], fwd)) = Copies(upIn[c]) \cup {fwd}
        /\ Copies(Append(downIn[c], fwd)) = Copies(downIn[c]) \cup {fwd}
    BY <1>1, <1>2, CopyAppended
  <2>2. x \in Copies(upIn[c]) \cup Copies(downIn[c]) \cup {fwd}
    BY <1>2, <1>4, <2>1
  <2> QED BY <1>1, <2>2 DEF ChannelsAgree
<1> QED BY <1>3, <1>4 DEF KeyedBy, CachesAgree, ChannelsAgree, Copies, InFlight

\* The first handler gives a publication its key; the others keep it.
LEMMA PublishKeyed ==
  ASSUME TypeOK, Keyed, Publishing
  PROVE  Keyed'
<1>1. PICK K \in [1 .. spent.pubs -> Keys] : KeyedBy(K)
  BY DEF Keyed
<1>2. /\ up \in [Brokers -> Seq(UpMsg)] /\ down \in [Brokers -> Seq(DownMsg)]
      /\ spent \in Budgets /\ spent.pubs \in Nat
  BY DEF TypeOK, NetworkTypes, Budgets
<1>3. ASSUME NEW p \in Publications, ClientPublish(p) PROVE Keyed'
  <2>0. PICK m \in PublishMsg :
          FromPublisher(p, m) /\ HandlePublish(p.broker, m, NoBroker, up, down)
    BY <1>3, Published
  <2> DEFINE b == p.broker
             k == PubKey(b, m, NoBroker)
             n == spent.pubs
  <2>1. b \in Brokers /\ m.id = n + 1
    BY <1>3, <2>0, Published DEF FromPublisher
  <2>2. HandlePublish(b, m, NoBroker, up, down) /\ spent'.pubs = n + 1
    BY <1>2, <1>3, <2>0 DEF ClientPublish, Budgets
  <2>3. k \in Keys
    <3> HIDE DEF b
    <3> QED BY <2>1, PubKeyType
  <2> HIDE DEF b, k
  <2>4. PICK L \in [1 .. n + 1 -> Keys] :
          L[n + 1] = k /\ \A i \in DOMAIN K : i \in DOMAIN L /\ L[i] = K[i]
    <3> DEFINE L == [i \in 1 .. n + 1 |-> IF i <= n THEN K[i] ELSE k]
    <3>1. L \in [1 .. n + 1 -> Keys]
      BY <1>1, <1>2, <2>3
    <3>2. L[n + 1] = k
      BY <1>2
    <3>3. \A i \in DOMAIN K : i \in DOMAIN L /\ L[i] = K[i]
      BY <1>1, <1>2
    <3> QED BY <3>1, <3>2, <3>3
  <2>5. m.id \in DOMAIN L /\ L[m.id] = k
    BY <1>2, <2>1, <2>4
  <2>6. CachesAgree(L) /\ ChannelsAgree(L, up, down)
    BY <1>1, <2>4 DEF KeyedBy, CachesAgree, ChannelsAgree
  <2>7. KeyedBy(L)'
    BY <1>2, <2>1, <2>2, <2>5, <2>6, HandleKeyed DEF k
  <2>8. L \in [1 .. spent'.pubs -> Keys]
    BY <2>2, <2>4
  <2> QED BY <2>7, <2>8 DEF Keyed
<1>4. ASSUME NEW c \in Brokers, ChildPublish(c) PROVE Keyed'
  <2> DEFINE b == Parent[c]
             m == Head(up[c])
             taken == [up EXCEPT ![c] = Tail(@)]
  <2>1. b \in Brokers /\ m \in PublishMsg /\ up[c] # << >> /\ m.type = "PUBLISH"
    BY <1>4, Published DEF ChildPublish
  <2>2. HandlePublish(b, m, c, taken, down) /\ UNCHANGED spent
    BY <1>4 DEF ChildPublish
  <2>3. /\ taken \in [Brokers -> Seq(UpMsg)] /\ m \in Copies(up[c])
        /\ \A x \in Brokers : Copies(taken[x]) \subseteq Copies(up[x])
    BY <1>2, <2>1, TakenType, TakenCopies
  <2>4. PubKey(b, m, c) = m.key
    BY BrokerAssumption DEF PubKey
  <2> HIDE DEF b, m, taken
  <2>5. m.id \in DOMAIN K /\ K[m.id] = PubKey(b, m, c)
    BY <1>1, <2>3, <2>4 DEF KeyedBy, ChannelsAgree
  <2>6. CachesAgree(K) /\ ChannelsAgree(K, taken, down)
    BY <1>1, <2>3 DEF KeyedBy, ChannelsAgree
  <2>7. KeyedBy(K)'
    BY <1>2, <2>1, <2>2, <2>3, <2>5, <2>6, HandleKeyed
  <2> QED BY <2>2, <2>7 DEF Keyed
<1>5. ASSUME NEW b \in Brokers, ParentPublish(b) PROVE Keyed'
  <2> DEFINE m == Head(down[b])
             taken == [down EXCEPT ![b] = Tail(@)]
  <2>1. m \in PublishMsg /\ down[b] # << >> /\ m.type = "PUBLISH"
    BY <1>5, Published DEF ParentPublish
  <2>2. HandlePublish(b, m, Parent[b], up, taken) /\ UNCHANGED spent /\ has_parent(b)
    BY <1>5 DEF ParentPublish
  <2>3. /\ taken \in [Brokers -> Seq(DownMsg)] /\ m \in Copies(down[b])
        /\ \A x \in Brokers : Copies(taken[x]) \subseteq Copies(down[x])
    BY <1>2, <2>1, TakenType, TakenCopies
  <2>4. PubKey(b, m, Parent[b]) = m.key
    BY <2>2 DEF PubKey, has_parent
  <2> HIDE DEF m, taken
  <2>5. m.id \in DOMAIN K /\ K[m.id] = PubKey(b, m, Parent[b])
    BY <1>1, <2>3, <2>4 DEF KeyedBy, ChannelsAgree
  <2>6. CachesAgree(K) /\ ChannelsAgree(K, up, taken)
    BY <1>1, <2>3 DEF KeyedBy, ChannelsAgree
  <2>7. KeyedBy(K)'
    BY <1>2, <2>1, <2>2, <2>3, <2>5, <2>6, HandleKeyed
  <2> QED BY <2>2, <2>7 DEF Keyed
<1> QED BY <1>3, <1>4, <1>5 DEF Publishing

\* All brokers file a publication under one key, whichever of them have a key of
\* their own and whatever is lost or killed: only the publisher's own datagram
\* has its name hashed (handlePublish).
THEOREM OneKeyEverywhere == Spec => []OneKeyPerPublication
<1>1. Init => Keyed
  <2> SUFFICES ASSUME Init PROVE Keyed
    OBVIOUS
  <2> DEFINE K == [i \in {} |-> {}]
  <2>1. K \in [1 .. spent.pubs -> Keys]
    BY DEF Init
  <2>2. KeyedBy(K)
    BY DEF Init, KeyedBy, CachesAgree, ChannelsAgree, Copies, InFlight, EmptyKeyed
  <2> QED BY <2>1, <2>2 DEF Keyed
<1>2. TypeOK /\ Keyed /\ [Next]_vars => Keyed'
  BY QuietKeyed, PublishKeyed, OnlyPublicationsSpread
<1>3. Keyed => OneKeyPerPublication
  BY DEF Keyed, KeyedBy, CachesAgree, OneKeyPerPublication
<1> QED BY <1>1, <1>2, <1>3, TypeCorrect, PTL DEF Spec

-----------------------------------------------------------------------------
\* Sets of brokers that a publication has spread over.

\* A connected part of the tree, with one broker on top.
Rooted(T) ==
    \E t \in T : \A x \in T : Depth[t] <= Depth[x] /\ (x = t \/ Parent[x] \in T)

\* A connected part that grows upward grows at its top, so that nothing else of
\* it touches the new broker.
LEMMA RootedUp ==
  ASSUME NEW T \in SUBSET Brokers, Rooted(T), NEW c \in T, NEW b \in Brokers,
         b = Parent[c], b \notin T
  PROVE  /\ Rooted(T \cup {b})
         /\ \A x \in T : Parent[x] = b => x = c
         /\ Parent[b] \notin T
<1>1. PICK t \in T : \A x \in T : Depth[t] <= Depth[x] /\ (x = t \/ Parent[x] \in T)
  BY DEF Rooted
<1>2. \A x \in T : Parent[x] = b => x = t
  BY <1>1
<1>3. c = t /\ has_parent(c) /\ Depth[b] < Depth[c]
  BY <1>2, DepthGrows, BrokerAssumption DEF has_parent
<1>4. ASSUME Parent[b] \in T PROVE FALSE
  <2>1. Depth[Parent[b]] < Depth[b]
    BY <1>4, DepthGrows, BrokerAssumption DEF has_parent
  <2>2. Depth[c] <= Depth[Parent[b]]
    BY <1>1, <1>3, <1>4
  <2>3. Depth[b] \in Nat /\ Depth[c] \in Nat /\ Depth[Parent[b]] \in Nat
    BY <1>4, DepthGrows
  <2> QED BY <1>3, <2>1, <2>2, <2>3
<1>5. \A x \in T \cup {b} :
        Depth[b] <= Depth[x] /\ (x = b \/ Parent[x] \in T \cup {b})
  <2> TAKE x \in T \cup {b}
  <2>1. CASE x = b
    BY <2>1, DepthGrows
  <2>2. CASE x \in T
    <3>1. Depth[c] <= Depth[x] /\ (x = c \/ Parent[x] \in T)
      BY <1>1, <1>3, <2>2
    <3>2. Depth[b] \in Nat /\ Depth[c] \in Nat /\ Depth[x] \in Nat
      BY <2>2, DepthGrows
    <3> QED BY <1>3, <3>1, <3>2
  <2> QED BY <2>1, <2>2
<1> QED BY <1>2, <1>3, <1>4, <1>5 DEF Rooted

\* A connected part that grows downward holds nothing below the new broker.
LEMMA RootedDown ==
  ASSUME NEW T \in SUBSET Brokers, Rooted(T), NEW b \in Brokers,
         Parent[b] \in T, b \notin T
  PROVE  /\ Rooted(T \cup {b})
         /\ \A x \in T : Parent[x] # b
<1>1. PICK t \in T : \A x \in T : Depth[t] <= Depth[x] /\ (x = t \/ Parent[x] \in T)
  BY DEF Rooted
<1>2. /\ Depth[Parent[b]] < Depth[b] /\ Depth[t] <= Depth[Parent[b]]
      /\ Depth[t] \in Nat /\ Depth[b] \in Nat /\ Depth[Parent[b]] \in Nat
  BY <1>1, DepthGrows, BrokerAssumption DEF has_parent
<1>3. ASSUME NEW x \in T, Parent[x] = b PROVE FALSE
  <2>1. x = t /\ Depth[b] < Depth[x]
    BY <1>1, <1>3, DepthGrows, BrokerAssumption DEF has_parent
  <2> QED BY <1>2, <2>1
<1>4. \A x \in T \cup {b} :
        Depth[t] <= Depth[x] /\ (x = t \/ Parent[x] \in T \cup {b})
  BY <1>1, <1>2
<1> QED BY <1>3, <1>4 DEF Rooted

-----------------------------------------------------------------------------
\* Every broker handles a publication at most once.

\* Interest is recorded for children only.
OwnChildren ==
    \A b \in Brokers : \A k \in Keys : \A c \in child_active[b][k] : Parent[c] = b

\* S names the brokers each publication was handled by: the caches hold nothing
\* else, and copies are on their way only from those to others.
CachesRouted(S) ==
    \A b \in Brokers : \A k \in Keys : \A i \in DOMAIN pub_cache[b][k] :
        pub_cache[b][k][i].id \in DOMAIN S /\ b \in S[pub_cache[b][k][i].id]
UpRouted(S, upward) ==
    \A c \in Brokers : \A m \in Copies(upward[c]) :
        m.id \in DOMAIN S /\ c \in S[m.id] /\ Parent[c] \notin S[m.id]
DownRouted(S, downward) ==
    \A c \in Brokers : \A m \in Copies(downward[c]) :
        m.id \in DOMAIN S /\ Parent[c] \in S[m.id] /\ c \notin S[m.id]
RoutedBy(S) == CachesRouted(S) /\ UpRouted(S, up) /\ DownRouted(S, down)
AllRooted(S) == \A id \in DOMAIN S : Rooted(S[id])

\* No channel holds a publication twice.
NoTwins(channels) == \A c \in Brokers : OnceEach(channels[c])

RouteInv ==
    /\ \E S \in [1 .. spent.pubs -> SUBSET Brokers] : AllRooted(S) /\ RoutedBy(S)
    /\ NoTwins(up) /\ NoTwins(down)
    /\ HandledOnce
    /\ OwnChildren

\* Where the entries of a cache come from, one by one.
Shifted(new, cache, entry) ==
    \E d \in {0, 1} : \A i \in DOMAIN new :
        /\ i \in Nat
        /\ \/ i + d = Len(cache) + 1 /\ new[i] = entry
           \/ i + d \in DOMAIN cache /\ new[i] = cache[i + d]

LEMMA CachedShift ==
  ASSUME NEW C, NEW cache \in Seq(C), NEW entry \in C
  PROVE  Shifted(Cached(cache, entry), cache, entry)
<1> DEFINE longer == Append(cache, entry)
<1>1. longer \in Seq(C) /\ longer # << >> /\ Len(longer) = Len(cache) + 1
  OBVIOUS
<1>2. \A j \in 1 .. Len(longer) :
        \/ j = Len(cache) + 1 /\ longer[j] = entry
        \/ j \in DOMAIN cache /\ longer[j] = cache[j]
  OBVIOUS
<1> HIDE DEF longer
<1>3. /\ Tail(longer) \in Seq(C)
      /\ \A j \in 1 .. Len(Tail(longer)) :
            j \in Nat /\ j + 1 \in 1 .. Len(longer) /\ Tail(longer)[j] = longer[j + 1]
  BY <1>1, HeadTailProperties
<1>4. CASE Cached(cache, entry) = longer
  <2>1. \A i \in DOMAIN longer :
          /\ i \in Nat
          /\ \/ i + 0 = Len(cache) + 1 /\ longer[i] = entry
             \/ i + 0 \in DOMAIN cache /\ longer[i] = cache[i + 0]
    BY <1>1, <1>2
  <2> QED BY <1>4, <2>1 DEF Shifted
<1>5. CASE Cached(cache, entry) = Tail(longer)
  <2>1. \A i \in DOMAIN Tail(longer) :
          /\ i \in Nat
          /\ \/ i + 1 = Len(cache) + 1 /\ Tail(longer)[i] = entry
             \/ i + 1 \in DOMAIN cache /\ Tail(longer)[i] = cache[i + 1]
    BY <1>2, <1>3
  <2> QED BY <1>5, <2>1 DEF Shifted
<1> QED BY <1>4, <1>5 DEF Cached, longer

\* A publication that a broker has not cached is cached once.
LEMMA HandledOnceMore ==
  ASSUME TypeOK, HandledOnce, NEW b \in Brokers, NEW k \in Keys, NEW entry \in CachedPub,
         \A l \in Keys : \A i \in DOMAIN pub_cache[b][l] : pub_cache[b][l][i].id # entry.id,
         \A a \in Brokers : \A l \in Keys :
           IF a = b /\ l = k THEN pub_cache'[a][l] = Cached(pub_cache[a][l], entry)
           ELSE pub_cache'[a][l] = pub_cache[a][l]
  PROVE  HandledOnce'
<1> DEFINE new == Cached(pub_cache[b][k], entry)
<1>1. PICK d \in {0, 1} : \A i \in DOMAIN new :
        /\ i \in Nat
        /\ \/ i + d = Len(pub_cache[b][k]) + 1 /\ new[i] = entry
           \/ i + d \in DOMAIN pub_cache[b][k] /\ new[i] = pub_cache[b][k][i + d]
  <2>1. pub_cache[b][k] \in Seq(CachedPub)
    BY DEF TypeOK, GroupTypes
  <2>2. Shifted(Cached(pub_cache[b][k], entry), pub_cache[b][k], entry)
    BY <2>1, CachedShift
  <2> QED BY <2>2 DEF Shifted
<1>2. pub_cache'[b][k] = new
  OBVIOUS
<1> HIDE DEF new
<1>3. SUFFICES ASSUME NEW a \in Brokers, NEW l \in Keys, NEW j \in Keys,
                      NEW x \in DOMAIN pub_cache'[a][l], NEW y \in DOMAIN pub_cache'[a][j],
                      pub_cache'[a][l][x].id = pub_cache'[a][j][y].id
               PROVE  l = j /\ x = y
  BY DEF HandledOnce
<1>4. CASE a # b
  <2>1. pub_cache'[a][l] = pub_cache[a][l] /\ pub_cache'[a][j] = pub_cache[a][j]
    BY <1>4
  <2> QED BY <1>3, <2>1 DEF HandledOnce
<1>5. CASE a = b /\ l # k /\ j # k
  <2>1. pub_cache'[a][l] = pub_cache[a][l] /\ pub_cache'[a][j] = pub_cache[a][j]
    BY <1>5
  <2> QED BY <1>3, <2>1 DEF HandledOnce
<1>6. CASE a = b /\ l = k /\ j # k
  <2>1. pub_cache'[a][j] = pub_cache[b][j] /\ y \in DOMAIN pub_cache[b][j]
    BY <1>6
  <2>2. CASE new[x] = entry
    BY <1>2, <1>3, <1>6, <2>1, <2>2
  <2>3. CASE x + d \in DOMAIN pub_cache[b][k] /\ new[x] = pub_cache[b][k][x + d]
    BY <1>2, <1>3, <1>6, <2>1, <2>3 DEF HandledOnce
  <2> QED BY <1>1, <1>2, <1>6, <2>2, <2>3
<1>7. CASE a = b /\ l # k /\ j = k
  <2>1. pub_cache'[a][l] = pub_cache[b][l] /\ x \in DOMAIN pub_cache[b][l]
    BY <1>7
  <2>2. CASE new[y] = entry
    BY <1>2, <1>3, <1>7, <2>1, <2>2
  <2>3. CASE y + d \in DOMAIN pub_cache[b][k] /\ new[y] = pub_cache[b][k][y + d]
    BY <1>2, <1>3, <1>7, <2>1, <2>3 DEF HandledOnce
  <2> QED BY <1>1, <1>2, <1>7, <2>2, <2>3
<1>8. CASE a = b /\ l = k /\ j = k
  <2>1. x \in DOMAIN new /\ y \in DOMAIN new /\ new[x].id = new[y].id
    BY <1>2, <1>3, <1>8
  <2>2. x \in Nat /\ y \in Nat
    BY <1>1, <2>1
  <2>3. CASE new[x] = entry /\ new[y] = entry
    <3>1. \A i \in DOMAIN pub_cache[b][k] : pub_cache[b][k][i] # entry
      OBVIOUS
    <3>2. x + d = Len(pub_cache[b][k]) + 1 /\ y + d = Len(pub_cache[b][k]) + 1
      BY <1>1, <2>1, <2>3, <3>1
    <3> QED BY <1>8, <2>2, <3>2
  <2>4. CASE new[x] # entry /\ new[y] # entry
    <3>1. /\ x + d \in DOMAIN pub_cache[b][k] /\ y + d \in DOMAIN pub_cache[b][k]
          /\ pub_cache[b][k][x + d].id = pub_cache[b][k][y + d].id
      BY <1>1, <2>1, <2>4
    <3>2. x + d = y + d
      BY <3>1 DEF HandledOnce
    <3> QED BY <1>8, <2>2, <3>2
  <2>5. CASE new[x] = entry /\ new[y] # entry
    BY <1>1, <2>1, <2>5
  <2>6. CASE new[x] # entry /\ new[y] = entry
    BY <1>1, <2>1, <2>6
  <2> QED BY <2>3, <2>4, <2>5, <2>6
<1> QED BY <1>4, <1>5, <1>6, <1>7, <1>8

\* m arrives at b from a neighbour or a publisher, and by S neither b nor any
\* other neighbour of b has handled it or is about to be sent it twice.
Arrives(S, b, m, from, upIn, downIn) ==
    /\ m.id \in DOMAIN S /\ b \notin S[m.id]
    /\ CachesRouted(S) /\ UpRouted(S, upIn) /\ DownRouted(S, downIn)
    /\ NoTwins(upIn) /\ NoTwins(downIn)
    /\ Climbs(b, from) => Parent[b] \notin S[m.id]
    /\ \A c \in Brokers : Parent[c] = b =>
          /\ c # from => c \notin S[m.id]
          /\ \A x \in Copies(upIn[c]) : x.id # m.id
    /\ \A x \in Copies(downIn[b]) : x.id # m.id

\* A broker handles a publication it has not handled before, and what it sends
\* goes to brokers that have not handled it either.
LEMMA HandleRouted ==
  ASSUME TypeOK, NEW b \in Brokers, NEW m \in PublishMsg, NEW from,
         NEW upIn \in [Brokers -> Seq(UpMsg)], NEW downIn \in [Brokers -> Seq(DownMsg)],
         HandlePublish(b, m, from, upIn, downIn), HandledOnce, OwnChildren,
         NEW S, Arrives(S, b, m, from, upIn, downIn),
         NEW R, R = [S EXCEPT ![m.id] = @ \cup {b}]
  PROVE  RoutedBy(R)' /\ NoTwins(up') /\ NoTwins(down') /\ HandledOnce'
<1> DEFINE k == PubKey(b, m, from)
           fwd == Forward(k, m)
           entry == [pos |-> m.pos, id |-> m.id, bn |-> m.bn]
<1>1. fwd.id = m.id /\ fwd.type = "PUBLISH" /\ entry.id = m.id
  BY DEF Forward
<1>2. k \in Keys /\ fwd \in UpMsg /\ fwd \in DownMsg /\ Spreads(b, k, m, from, upIn, downIn)
  <2>1. k \in Keys /\ fwd \in UpMsg \cap DownMsg /\ Spreads(b, k, m, from, upIn, downIn)
    BY PublishSpreads
  <2> QED BY <2>1
<1>3. entry \in CachedPub
  BY DEF CachedPub, PublishMsg
<1>4. /\ \A c \in Brokers :
            \/ up'[c] = upIn[c]
            \/ c = b /\ Climbs(b, from) /\ up'[c] = Append(upIn[c], fwd)
      /\ \A c \in Brokers :
            \/ down'[c] = downIn[c]
            \/ c \in Interested(b, k, from) /\ down'[c] = Append(downIn[c], fwd)
      /\ \A a \in Brokers : \A l \in Keys :
            IF a = b /\ l = k THEN pub_cache'[a][l] = Cached(pub_cache[a][l], entry)
            ELSE pub_cache'[a][l] = pub_cache[a][l]
  BY <1>2 DEF Spreads
<1> HIDE DEF k, fwd, entry
<1>5. /\ m.id \in DOMAIN S /\ b \notin S[m.id]
      /\ CachesRouted(S) /\ UpRouted(S, upIn) /\ DownRouted(S, downIn)
      /\ NoTwins(upIn) /\ NoTwins(downIn)
      /\ Climbs(b, from) => Parent[b] \notin S[m.id]
      /\ \A c \in Brokers : Parent[c] = b =>
            /\ c # from => c \notin S[m.id]
            /\ \A x \in Copies(upIn[c]) : x.id # m.id
      /\ \A x \in Copies(downIn[b]) : x.id # m.id
  BY DEF Arrives
<1>6. \A id \in DOMAIN S : id \in DOMAIN R /\ S[id] \subseteq R[id]
                             /\ \A x : x \in R[id] => x \in S[id] \/ (id = m.id /\ x = b)
  BY <1>5
<1>7. m.id \in DOMAIN R /\ b \in R[m.id]
  BY <1>5
<1>8. CachesRouted(R)'
  <2> SUFFICES ASSUME NEW a \in Brokers, NEW l \in Keys, NEW i \in DOMAIN pub_cache'[a][l]
               PROVE  LET id == pub_cache'[a][l][i].id IN id \in DOMAIN R /\ a \in R[id]
    BY DEF CachesRouted
  <2>1. CASE a = b /\ l = k
    <3>1. pub_cache[b][k] \in Seq(CachedPub) /\ pub_cache'[a][l] = Cached(pub_cache[b][k], entry)
      BY <1>2, <1>4, <2>1 DEF TypeOK, GroupTypes
    <3>2. \/ pub_cache'[a][l][i] = entry
          \/ \E j \in DOMAIN pub_cache[b][k] : pub_cache'[a][l][i] = pub_cache[b][k][j]
      BY <1>3, <3>1, CachedEntry
    <3> QED BY <1>1, <1>2, <1>5, <1>6, <1>7, <2>1, <3>2 DEF CachesRouted
  <2>2. CASE ~(a = b /\ l = k)
    <3>1. pub_cache'[a][l] = pub_cache[a][l]
      BY <1>4, <2>2
    <3> QED BY <1>5, <1>6, <3>1 DEF CachesRouted
  <2> QED BY <2>1, <2>2
<1>9. UpRouted(R, up')
  <2> SUFFICES ASSUME NEW c \in Brokers, NEW x \in Copies(up'[c])
               PROVE  x.id \in DOMAIN R /\ c \in R[x.id] /\ Parent[c] \notin R[x.id]
    BY DEF UpRouted
  <2>1. CASE x \in Copies(upIn[c])
    <3>1. x.id \in DOMAIN S /\ c \in S[x.id] /\ Parent[c] \notin S[x.id]
      BY <1>5, <2>1 DEF UpRouted
    <3>2. ~(x.id = m.id /\ Parent[c] = b)
      BY <1>5, <2>1
    <3> QED BY <1>6, <3>1, <3>2
  <2>2. CASE x \notin Copies(upIn[c])
    <3>1. c = b /\ Climbs(b, from) /\ up'[c] = Append(upIn[c], fwd)
      BY <1>4, <2>2
    <3>2. x = fwd
      BY <1>1, <1>2, <2>2, <3>1, CopyAppended
    <3>3. Parent[b] # b
      BY NotItsParent
    <3> QED BY <1>1, <1>5, <1>6, <1>7, <3>1, <3>2, <3>3
  <2> QED BY <2>1, <2>2
<1>10. DownRouted(R, down')
  <2> SUFFICES ASSUME NEW c \in Brokers, NEW x \in Copies(down'[c])
               PROVE  x.id \in DOMAIN R /\ Parent[c] \in R[x.id] /\ c \notin R[x.id]
    BY DEF DownRouted
  <2>1. CASE x \in Copies(downIn[c])
    <3>1. x.id \in DOMAIN S /\ Parent[c] \in S[x.id] /\ c \notin S[x.id]
      BY <1>5, <2>1 DEF DownRouted
    <3>2. ~(x.id = m.id /\ c = b)
      BY <1>5, <2>1
    <3> QED BY <1>6, <3>1, <3>2
  <2>2. CASE x \notin Copies(downIn[c])
    <3>1. c \in Interested(b, k, from) /\ down'[c] = Append(downIn[c], fwd)
      BY <1>4, <2>2
    <3>2. x = fwd
      BY <1>1, <1>2, <2>2, <3>1, CopyAppended
    <3>3. Parent[c] = b /\ c # from
      BY <1>2, <3>1 DEF Interested, OwnChildren
    <3>4. c # b
      BY <3>3, NotItsParent
    <3> QED BY <1>1, <1>5, <1>6, <1>7, <3>2, <3>3, <3>4
  <2> QED BY <2>1, <2>2
<1>11. NoTwins(up')
  <2> SUFFICES ASSUME NEW c \in Brokers, c = b, up'[c] = Append(upIn[c], fwd)
               PROVE  OnceEach(up'[c])
    BY <1>4, <1>5 DEF NoTwins
  <2>1. \A x \in Copies(upIn[c]) : x.id # fwd.id
    BY <1>1, <1>5 DEF UpRouted
  <2> QED BY <1>1, <1>2, <1>5, <2>1, CopyAppended DEF NoTwins
<1>12. NoTwins(down')
  <2> SUFFICES ASSUME NEW c \in Brokers, c \in Interested(b, k, from),
                      down'[c] = Append(downIn[c], fwd)
               PROVE  OnceEach(down'[c])
    BY <1>4, <1>5 DEF NoTwins
  <2>1. Parent[c] = b
    BY <1>2 DEF Interested, OwnChildren
  <2>2. \A x \in Copies(downIn[c]) : x.id # fwd.id
    BY <1>1, <1>5, <2>1 DEF DownRouted
  <2>3. OnceEach(downIn[c])
    BY <1>5, Zenon DEF NoTwins
  <2>4. OnceEach(Append(downIn[c], fwd))
    BY <1>1, <1>2, <1>5, <2>2, <2>3, CopyAppended
  <2> QED BY <2>4, Zenon
<1>13. HandledOnce'
  <2>1. \A l \in Keys : \A i \in DOMAIN pub_cache[b][l] : pub_cache[b][l][i].id # entry.id
    BY <1>1, <1>5 DEF CachesRouted
  <2> QED BY <1>2, <1>3, <1>4, <2>1, HandledOnceMore
<1>14. RoutedBy(R)'
  BY <1>8, <1>9, <1>10 DEF RoutedBy, UpRouted, DownRouted, Copies, InFlight
<1> QED BY <1>11, <1>12, <1>13, <1>14

\* The parts of the invariant in the next state.
LEMMA RouteInvNext ==
  ASSUME NEW R \in [1 .. spent'.pubs -> SUBSET Brokers], AllRooted(R), RoutedBy(R)',
         NoTwins(up'), NoTwins(down'), HandledOnce', OwnChildren'
  PROVE  RouteInv'
<1>1. AllRooted(R)'
  BY DEF AllRooted, Rooted, Depth, has_parent
<1>2. NoTwins(up)' /\ NoTwins(down)'
  BY DEF NoTwins, OnceEach, InFlight
<1> QED BY <1>1, <1>2 DEF RouteInv

\* A step that handles no publication leaves the same brokers behind each.
LEMMA QuietRoutes ==
  ASSUME TypeOK, RouteInv, Quietly, OwnChildren'
  PROVE  RouteInv'
<1>1. PICK S \in [1 .. spent.pubs -> SUBSET Brokers] : AllRooted(S) /\ RoutedBy(S)
  BY DEF RouteInv
<1>2. CachesRouted(S)'
  BY <1>1 DEF Quietly, RoutedBy, CachesRouted
<1>3. \A c \in Brokers : Copies(up'[c]) \subseteq Copies(up[c])
                          /\ Copies(down'[c]) \subseteq Copies(down[c])
  BY DEF Quietly, Thinner
<1>4. UpRouted(S, up') /\ DownRouted(S, down')
  BY <1>1, <1>3 DEF RoutedBy, UpRouted, DownRouted
<1>5. RoutedBy(S)'
  BY <1>2, <1>4 DEF RoutedBy, UpRouted, DownRouted, Copies, InFlight
<1>6. NoTwins(up)' /\ NoTwins(down)'
  BY DEF RouteInv, NoTwins, Quietly, Thinner, OnceEach, InFlight
<1>7. HandledOnce'
  <2> SUFFICES ASSUME NEW b \in Brokers, NEW k \in Keys, NEW l \in Keys,
                      NEW i \in DOMAIN pub_cache'[b][k], NEW j \in DOMAIN pub_cache'[b][l],
                      pub_cache'[b][k][i].id = pub_cache'[b][l][j].id
               PROVE  k = l /\ i = j
    BY DEF HandledOnce
  <2>1. pub_cache'[b][k] = pub_cache[b][k] /\ pub_cache'[b][l] = pub_cache[b][l]
    BY DEF Quietly
  <2> QED BY <2>1 DEF RouteInv, HandledOnce
<1>8. AllRooted(S)'
  BY <1>1 DEF AllRooted, Rooted, Depth, has_parent
<1> QED BY <1>1, <1>5, <1>6, <1>7, <1>8 DEF RouteInv, Quietly

\* Interest is filed for the child it came from.
LEMMA ChildrenOwned ==
  ASSUME TypeOK, OwnChildren, [Next]_vars
  PROVE  OwnChildren'
<1>1. ASSUME UNCHANGED child_active PROVE OwnChildren'
  BY <1>1 DEF OwnChildren
<1>2. ASSUME NEW c \in Brokers, ChildSubscribe(c) PROVE OwnChildren'
  <2>1. Parent[c] \in Brokers /\ Head(up[c]).key \in Keys
    <3>1. up[c] # << >> /\ Head(up[c]).type = "SUBSCRIBE" /\ up[c] \in Seq(UpMsg)
      BY <1>2 DEF ChildSubscribe, TypeOK, NetworkTypes
    <3>2. Head(up[c]) \in SubscribeMsg
      BY <3>1, HeadTailProperties, UpMsgTypes
    <3> QED BY <1>2, <3>2, BrokerAssumption DEF ChildSubscribe, Bound, SubscribeMsg
  <2>2. \/ UNCHANGED child_active
        \/ child_active' = [child_active EXCEPT ![Parent[c]][Head(up[c]).key] = @ \cup {c}]
    BY <1>2 DEF ChildSubscribe
  <2>3. \A b \in Brokers : \A k \in Keys : \A x \in child_active'[b][k] :
          x \in child_active[b][k] \/ (b = Parent[c] /\ x = c)
    BY <2>1, <2>2 DEF TypeOK, OverlayTypes
  <2> QED BY <2>3 DEF OwnChildren
<1>3. ASSUME NEW b \in Brokers, Crash(b) PROVE OwnChildren'
  <2>1. child_active' = [child_active EXCEPT ![b] = [k \in Keys |-> {}]]
    BY <1>3 DEF Crash
  <2> QED BY <2>1 DEF OwnChildren, TypeOK, OverlayTypes
<1>4. CASE FromClients
  <2>1. \A s : ClientSubscribe(s) => UNCHANGED child_active
    BY DEF ClientSubscribe
  <2>2. \A p : ClientPublish(p) => UNCHANGED child_active
    BY DEF ClientPublish, HandlePublish
  <2>3. \A h : Heartbeat(h) => UNCHANGED child_active
    BY DEF Heartbeat, overlayVars
  <2> QED BY <1>1, <1>4, <2>1, <2>2, <2>3 DEF FromClients
<1>5. ASSUME NEW b \in Brokers,
             Hello(b) \/ ChildRegion(b) \/ ChildPublish(b) \/ ParentPublish(b)
      PROVE  OwnChildren'
  BY <1>1, <1>5 DEF Hello, ChildRegion, ChildPublish, ParentPublish, HandlePublish
<1>6. CASE Tick \/ UNCHANGED vars
  BY <1>1, <1>6 DEF Tick, vars, tableVars, overlayVars
<1> QED
  BY <1>1, <1>2, <1>3, <1>4, <1>5, <1>6, OthersKnow DEF Next, FromChild, FromParent

\* A publication a child sends up was not handled by its parent.
LEMMA ChildRoutes ==
  ASSUME TypeOK, RouteInv, OwnChildren', NEW c \in Brokers, ChildPublish(c)
  PROVE  RouteInv'
<1>1. PICK S \in [1 .. spent.pubs -> SUBSET Brokers] : AllRooted(S) /\ RoutedBy(S)
  BY DEF RouteInv
<1> DEFINE b == Parent[c]
           m == Head(up[c])
           taken == [up EXCEPT ![c] = Tail(@)]
<1>2. /\ up \in [Brokers -> Seq(UpMsg)] /\ down \in [Brokers -> Seq(DownMsg)]
      /\ b \in Brokers /\ m \in PublishMsg /\ up[c] # << >> /\ m.type = "PUBLISH"
      /\ HandlePublish(b, m, c, taken, down) /\ UNCHANGED spent
  BY Published DEF ChildPublish, TypeOK, NetworkTypes
<1>3. /\ taken \in [Brokers -> Seq(UpMsg)] /\ m \in Copies(up[c])
      /\ \A x \in Brokers : Thinner(taken[x], up[x])
      /\ \A x \in Copies(taken[c]) : x.id # m.id
  <2>1. m \in Copies(up[c]) /\ \A x \in Copies(Tail(up[c])) : x.id # m.id
    BY <1>2, ThinnerTail DEF RouteInv, NoTwins
  <2>2. taken[c] = Tail(up[c])
    BY <1>2
  <2> QED BY <1>2, <2>1, <2>2, TakenType, ThinnerTaken
<1>4. m.id \in DOMAIN S /\ c \in S[m.id] /\ b \notin S[m.id]
  BY <1>1, <1>3 DEF RoutedBy, UpRouted
<1>5. S[m.id] \in SUBSET Brokers /\ Rooted(S[m.id])
  BY <1>1, <1>4 DEF AllRooted
<1>6. /\ Rooted(S[m.id] \cup {b}) /\ Parent[b] \notin S[m.id]
      /\ \A x \in S[m.id] : Parent[x] = b => x = c
  <2>1. PICK T \in SUBSET Brokers : T = S[m.id]
    BY <1>5
  <2>2. Rooted(T) /\ c \in T /\ b \in Brokers /\ b = Parent[c] /\ b \notin T
    BY <1>2, <1>4, <1>5, <2>1
  <2> HIDE DEF b, m
  <2>3. Rooted(T \cup {b}) /\ Parent[b] \notin T /\ \A x \in T : Parent[x] = b => x = c
    BY <2>2, RootedUp
  <2> QED BY <2>1, <2>3
<1> HIDE DEF b, m, taken
<1>7. \A a \in Brokers : Parent[a] = b =>
        /\ a # c => a \notin S[m.id]
        /\ \A x \in Copies(taken[a]) : x.id # m.id
  <2> SUFFICES ASSUME NEW a \in Brokers, Parent[a] = b, NEW x \in Copies(taken[a]),
                      x.id = m.id
               PROVE  FALSE
    BY <1>6
  <2>1. a \in S[m.id]
    BY <1>1, <1>3 DEF Thinner, RoutedBy, UpRouted
  <2> QED BY <1>3, <1>6, <2>1
<1>8. \A x \in Copies(down[b]) : x.id # m.id
  BY <1>1, <1>2, <1>6 DEF RoutedBy, DownRouted
<1>9. Arrives(S, b, m, c, taken, down) /\ HandledOnce /\ OwnChildren
  BY <1>1, <1>3, <1>4, <1>6, <1>7, <1>8
  DEF RouteInv, RoutedBy, UpRouted, NoTwins, Thinner, Arrives
<1>10. PICK R \in [1 .. spent.pubs -> SUBSET Brokers] : R = [S EXCEPT ![m.id] = @ \cup {b}]
  BY <1>1, <1>2, <1>4, <1>5
<1>11. RoutedBy(R)' /\ NoTwins(up') /\ NoTwins(down') /\ HandledOnce'
  BY <1>2, <1>3, <1>9, <1>10, HandleRouted
<1>12. AllRooted(R)
  BY <1>1, <1>4, <1>6, <1>10 DEF AllRooted
<1> QED BY <1>2, <1>11, <1>12, RouteInvNext

\* A publication a parent sends down was handled by nothing below it.
LEMMA ParentRoutes ==
  ASSUME TypeOK, RouteInv, OwnChildren', NEW b \in Brokers, ParentPublish(b)
  PROVE  RouteInv'
<1>1. PICK S \in [1 .. spent.pubs -> SUBSET Brokers] : AllRooted(S) /\ RoutedBy(S)
  BY DEF RouteInv
<1> DEFINE m == Head(down[b])
           taken == [down EXCEPT ![b] = Tail(@)]
<1>2. /\ up \in [Brokers -> Seq(UpMsg)] /\ down \in [Brokers -> Seq(DownMsg)]
      /\ m \in PublishMsg /\ down[b] # << >> /\ m.type = "PUBLISH"
      /\ HandlePublish(b, m, Parent[b], up, taken) /\ UNCHANGED spent
  BY Published DEF ParentPublish, TypeOK, NetworkTypes
<1>3. /\ taken \in [Brokers -> Seq(DownMsg)] /\ m \in Copies(down[b])
      /\ \A x \in Brokers : Thinner(taken[x], down[x])
      /\ \A x \in Copies(taken[b]) : x.id # m.id
  <2>1. m \in Copies(down[b]) /\ \A x \in Copies(Tail(down[b])) : x.id # m.id
    BY <1>2, ThinnerTail DEF RouteInv, NoTwins
  <2>2. taken[b] = Tail(down[b])
    BY <1>2
  <2> QED BY <1>2, <2>1, <2>2, TakenType, ThinnerTaken
<1>4. m.id \in DOMAIN S /\ Parent[b] \in S[m.id] /\ b \notin S[m.id]
  BY <1>1, <1>3 DEF RoutedBy, DownRouted
<1>5. S[m.id] \in SUBSET Brokers /\ Rooted(S[m.id])
  BY <1>1, <1>4 DEF AllRooted
<1> HIDE DEF m, taken
<1>6. Rooted(S[m.id] \cup {b}) /\ \A x \in S[m.id] : Parent[x] # b
  <2>1. PICK T \in SUBSET Brokers : T = S[m.id]
    BY <1>5
  <2>2. Rooted(T) /\ Parent[b] \in T /\ b \notin T
    BY <1>4, <1>5, <2>1
  <2>3. Rooted(T \cup {b}) /\ \A x \in T : Parent[x] # b
    BY <2>2, RootedDown
  <2> QED BY <2>1, <2>3
<1>7. \A a \in Brokers : Parent[a] = b =>
        /\ a # Parent[b] => a \notin S[m.id]
        /\ \A x \in Copies(up[a]) : x.id # m.id
  BY <1>1, <1>6 DEF RoutedBy, UpRouted
<1>8. DownRouted(S, taken) /\ NoTwins(taken)
  BY <1>1, <1>3 DEF RouteInv, RoutedBy, DownRouted, NoTwins, Thinner
<1>9. Arrives(S, b, m, Parent[b], up, taken) /\ HandledOnce /\ OwnChildren
  BY <1>1, <1>3, <1>4, <1>7, <1>8 DEF RouteInv, RoutedBy, Arrives, Climbs
<1>10. PICK R \in [1 .. spent.pubs -> SUBSET Brokers] : R = [S EXCEPT ![m.id] = @ \cup {b}]
  BY <1>1, <1>4, <1>5
<1>11. RoutedBy(R)' /\ NoTwins(up') /\ NoTwins(down') /\ HandledOnce'
  BY <1>2, <1>3, <1>9, <1>10, HandleRouted
<1>12. AllRooted(R)
  BY <1>1, <1>4, <1>6, <1>10 DEF AllRooted
<1> QED BY <1>2, <1>11, <1>12, RouteInvNext

\* A publisher's publication is new to every broker.
LEMMA ClientRoutes ==
  ASSUME TypeOK, RouteInv, OwnChildren', NEW p \in Publications, ClientPublish(p)
  PROVE  RouteInv'
<1>1. PICK S \in [1 .. spent.pubs -> SUBSET Brokers] : AllRooted(S) /\ RoutedBy(S)
  BY DEF RouteInv
<1>0. PICK m \in PublishMsg :
        FromPublisher(p, m) /\ HandlePublish(p.broker, m, NoBroker, up, down)
  BY Published
<1> DEFINE b == p.broker
           n == spent.pubs
<1>2. /\ up \in [Brokers -> Seq(UpMsg)] /\ down \in [Brokers -> Seq(DownMsg)] /\ n \in Nat
      /\ b \in Brokers /\ m.id = n + 1
      /\ HandlePublish(b, m, NoBroker, up, down) /\ spent'.pubs = n + 1
  <2>1. up \in [Brokers -> Seq(UpMsg)] /\ down \in [Brokers -> Seq(DownMsg)] /\ n \in Nat
    BY DEF TypeOK, NetworkTypes, Budgets
  <2>2. b \in Brokers /\ m.id = n + 1
    BY <1>0, Published DEF FromPublisher
  <2>3. spent'.pubs = n + 1
    BY <2>1 DEF ClientPublish, TypeOK, NetworkTypes, Budgets
  <2> QED BY <1>0, <2>1, <2>2, <2>3
<1> HIDE DEF b
<1>3. PICK U \in [1 .. n + 1 -> SUBSET Brokers] :
        U[n + 1] = {} /\ \A i \in DOMAIN S : i \in DOMAIN U /\ U[i] = S[i]
  <2> DEFINE U == [i \in 1 .. n + 1 |-> IF i <= n THEN S[i] ELSE {}]
  <2>1. U \in [1 .. n + 1 -> SUBSET Brokers] /\ U[n + 1] = {}
    BY <1>1, <1>2
  <2>2. \A i \in DOMAIN S : i \in DOMAIN U /\ U[i] = S[i]
    BY <1>1, <1>2
  <2> QED BY <2>1, <2>2
<1>4. m.id \in DOMAIN U /\ U[m.id] = {}
  BY <1>2, <1>3
<1>5. CachesRouted(U) /\ UpRouted(U, up) /\ DownRouted(U, down)
  BY <1>1, <1>3 DEF RoutedBy, CachesRouted, UpRouted, DownRouted
<1>6. Arrives(U, b, m, NoBroker, up, down) /\ HandledOnce /\ OwnChildren
  BY <1>2, <1>4, <1>5 DEF RouteInv, UpRouted, DownRouted, Arrives
<1>7. PICK R \in [1 .. n + 1 -> SUBSET Brokers] : R = [U EXCEPT ![m.id] = @ \cup {b}]
  BY <1>2, <1>3, <1>4
<1>8. RoutedBy(R)' /\ NoTwins(up') /\ NoTwins(down') /\ HandledOnce'
  BY <1>2, <1>6, <1>7, HandleRouted
<1>9. Rooted({b})
  BY <1>2, DepthGrows DEF Rooted
<1>10. AllRooted(R)
  <2> SUFFICES ASSUME NEW i \in 1 .. n + 1 PROVE Rooted(R[i])
    BY <1>7 DEF AllRooted
  <2>1. CASE i = n + 1
    <3>1. R[i] = {b}
      BY <1>2, <1>3, <1>7, <2>1
    <3> QED BY <1>9, <3>1
  <2>2. CASE i # n + 1
    <3>1. i \in 1 .. n /\ R[i] = U[i]
      BY <1>2, <1>3, <1>7, <2>2
    <3>2. R[i] = S[i] /\ i \in DOMAIN S
      BY <1>1, <1>3, <3>1
    <3> QED BY <1>1, <3>2 DEF AllRooted
  <2> QED BY <2>1, <2>2
<1> QED BY <1>2, <1>7, <1>8, <1>10, RouteInvNext

\* Where each publication has been, through any losses, kills and restarts.
LEMMA RoutesKnown == Spec => []RouteInv
<1>1. Init => RouteInv
  <2> SUFFICES ASSUME Init PROVE RouteInv
    OBVIOUS
  <2> DEFINE S == [i \in {} |-> {}]
  <2>1. S \in [1 .. spent.pubs -> SUBSET Brokers]
    BY DEF Init
  <2>2. RoutedBy(S) /\ AllRooted(S)
    BY DEF Init, RoutedBy, CachesRouted, UpRouted, DownRouted, AllRooted, Copies, InFlight,
           EmptyKeyed
  <2>3. NoTwins(up) /\ NoTwins(down) /\ HandledOnce /\ OwnChildren
    BY DEF Init, NoTwins, OnceEach, InFlight, HandledOnce, EmptyKeyed, OwnChildren
  <2> QED BY <2>1, <2>2, <2>3 DEF RouteInv
<1>2. TypeOK /\ RouteInv /\ [Next]_vars => RouteInv'
  <2> SUFFICES ASSUME TypeOK, RouteInv, [Next]_vars PROVE RouteInv'
    OBVIOUS
  <2>1. OwnChildren'
    BY ChildrenOwned DEF RouteInv
  <2> QED
    BY <2>1, QuietRoutes, OnlyPublicationsSpread, ClientRoutes, ChildRoutes, ParentRoutes
    DEF Publishing
<1> QED BY <1>1, <1>2, TypeCorrect, PTL DEF Spec

\* No broker handles a publication twice, through any losses, kills and restarts:
\* nothing is echoed to the neighbour it came from, and in a tree there is no
\* other way back (handlePublish's skip of the sender, and from_parent).
THEOREM NoEcho == Spec => []HandledOnce
<1>1. RouteInv => HandledOnce
  BY DEF RouteInv
<1> QED BY <1>1, RoutesKnown, PTL

\* b has m in none of its caches.
New(b, m) == \A k \in Keys : \A i \in DOMAIN pub_cache[b][k] : pub_cache[b][k][i].id # m.id

\* What is handled now, its broker has not filed before.
LEMMA HandledNew ==
  ASSUME TypeOK, RouteInv, Publishing
  PROVE  \E b \in Brokers, m \in PublishMsg : \E from, upIn, downIn :
            HandlePublish(b, m, from, upIn, downIn) /\ New(b, m)
<1>1. PICK S \in [1 .. spent.pubs -> SUBSET Brokers] : RoutedBy(S)
  BY DEF RouteInv
<1>2. /\ up \in [Brokers -> Seq(UpMsg)] /\ down \in [Brokers -> Seq(DownMsg)]
      /\ spent.pubs \in Nat
  BY DEF TypeOK, NetworkTypes, Budgets
<1>3. ASSUME NEW b \in Brokers, NEW m, m.id \in DOMAIN S => b \notin S[m.id]
      PROVE  New(b, m)
  BY <1>1, <1>3 DEF RoutedBy, CachesRouted, New
<1>4. ASSUME NEW p \in Publications, ClientPublish(p)
      PROVE  \E m \in PublishMsg :
               /\ p.broker \in Brokers
               /\ HandlePublish(p.broker, m, NoBroker, up, down) /\ New(p.broker, m)
  <2>1. PICK m \in PublishMsg :
          FromPublisher(p, m) /\ HandlePublish(p.broker, m, NoBroker, up, down)
    BY <1>4, Published
  <2>2. p.broker \in Brokers /\ m.id = spent.pubs + 1
    BY <1>4, <2>1, Published DEF FromPublisher
  <2>3. m.id \notin DOMAIN S
    BY <1>1, <1>2, <2>2
  <2> QED BY <1>3, <2>1, <2>2, <2>3
<1>5. ASSUME NEW c \in Brokers, ChildPublish(c)
      PROVE  /\ Parent[c] \in Brokers /\ Head(up[c]) \in PublishMsg
             /\ New(Parent[c], Head(up[c]))
  <2>1. /\ Parent[c] \in Brokers /\ Head(up[c]) \in PublishMsg
        /\ up[c] # << >> /\ Head(up[c]).type = "PUBLISH"
    BY <1>5, Published DEF ChildPublish
  <2>2. Head(up[c]) \in Copies(up[c])
    BY <1>2, <2>1, TakenCopies
  <2>3. Parent[c] \notin S[Head(up[c]).id]
    BY <1>1, <2>2 DEF RoutedBy, UpRouted
  <2> QED BY <1>3, <2>1, <2>3
<1>6. ASSUME NEW b \in Brokers, ParentPublish(b)
      PROVE  Head(down[b]) \in PublishMsg /\ New(b, Head(down[b]))
  <2>1. /\ Head(down[b]) \in PublishMsg
        /\ down[b] # << >> /\ Head(down[b]).type = "PUBLISH"
    BY <1>6, Published DEF ParentPublish
  <2>2. Head(down[b]) \in Copies(down[b])
    BY <1>2, <2>1, TakenCopies
  <2>3. b \notin S[Head(down[b]).id]
    BY <1>1, <2>2 DEF RoutedBy, DownRouted
  <2> QED BY <1>3, <2>1, <2>3
<1>7. ASSUME NEW p \in Publications, ClientPublish(p)
      PROVE  \E b \in Brokers, m \in PublishMsg : \E from, upIn, downIn :
                HandlePublish(b, m, from, upIn, downIn) /\ New(b, m)
  BY <1>4, <1>7
<1>8. ASSUME NEW c \in Brokers, ChildPublish(c)
      PROVE  \E b \in Brokers, m \in PublishMsg : \E from, upIn, downIn :
                HandlePublish(b, m, from, upIn, downIn) /\ New(b, m)
  BY <1>5, <1>8 DEF ChildPublish
<1>9. ASSUME NEW b \in Brokers, ParentPublish(b)
      PROVE  \E a \in Brokers, m \in PublishMsg : \E from, upIn, downIn :
                HandlePublish(a, m, from, upIn, downIn) /\ New(a, m)
  BY <1>6, <1>9 DEF ParentPublish
<1> QED BY <1>7, <1>8, <1>9 DEF Publishing

\* A cache takes a publication as its last entry, and changes if it did not hold
\* one with that number.
LEMMA CachedLast ==
  ASSUME NEW cache \in Seq(CachedPub), NEW entry \in CachedPub,
         NEW new, new = Cached(cache, entry)
  PROVE  /\ new # << >> /\ new[Len(new)] = entry
         /\ (\A i \in DOMAIN cache : cache[i].id # entry.id) => new # cache
<1> DEFINE longer == Append(cache, entry)
<1>1. /\ longer \in Seq(CachedPub) /\ Len(cache) \in Nat
      /\ Len(longer) = Len(cache) + 1 /\ longer[Len(longer)] = entry
  OBVIOUS
<1>2. new \in Seq(CachedPub) /\ new # << >> /\ new[Len(new)] = entry
  <2>1. CASE Len(longer) > MAX_PUB_CACHE
    <3>1. new = Tail(longer) /\ Len(cache) \in Nat \ {0}
      BY <1>1, <2>1, BrokerAssumption DEF Cached
    <3> HIDE DEF longer
    <3>2. longer # << >>
      BY <1>1, <3>1
    <3>3. /\ new \in Seq(CachedPub) /\ Len(new) = Len(cache)
          /\ \A i \in DOMAIN new : new[i] = longer[i + 1]
      BY <1>1, <3>1, <3>2, HeadTailProperties
    <3> QED BY <1>1, <3>1, <3>3
  <2>2. CASE ~(Len(longer) > MAX_PUB_CACHE)
    <3>1. new = longer
      BY <2>2 DEF Cached
    <3> HIDE DEF longer
    <3> QED BY <1>1, <3>1
  <2> QED BY <2>1, <2>2
<1>3. ASSUME \A i \in DOMAIN cache : cache[i].id # entry.id PROVE new # cache
  <2> SUFFICES ASSUME new = cache PROVE FALSE
    OBVIOUS
  <2>1. Len(cache) \in DOMAIN cache /\ cache[Len(cache)] = entry
    BY <1>2
  <2> QED BY <1>3, <2>1
<1> QED BY <1>2, <1>3

\* A publication handled first is filed, and is the newest of its key.
LEMMA HandledFiled ==
  ASSUME TypeOK, NEW b \in Brokers, NEW m \in PublishMsg, New(b, m),
         NEW from, NEW upIn, NEW downIn, HandlePublish(b, m, from, upIn, downIn),
         NEW k, k = PubKey(b, m, from)
  PROVE  Filed(b, k) /\ Newest(b, k) = [pos |-> m.pos, id |-> m.id, bn |-> m.bn]
<1> DEFINE entry == [pos |-> m.pos, id |-> m.id, bn |-> m.bn]
<1>1. k \in Keys
  BY PubKeyType
<1>2. entry \in CachedPub /\ entry.id = m.id
  BY DEF CachedPub, PublishMsg
<1>3. pub_cache \in [Brokers -> [Keys -> Seq(CachedPub)]]
  BY DEF TypeOK, GroupTypes
<1>4. pub_cache' = [pub_cache EXCEPT ![b][k] = Cached(@, entry)]
  BY DEF HandlePublish
<1> HIDE DEF entry
<1>5. pub_cache'[b][k] = Cached(pub_cache[b][k], entry) /\ pub_cache[b][k] \in Seq(CachedPub)
  BY <1>1, <1>3, <1>4
<1>6. \A i \in DOMAIN pub_cache[b][k] : pub_cache[b][k][i].id # entry.id
  BY <1>1, <1>2 DEF New
<1>7. /\ pub_cache'[b][k] # << >> /\ pub_cache'[b][k] # pub_cache[b][k]
      /\ pub_cache'[b][k][Len(pub_cache'[b][k])] = entry
  BY <1>2, <1>5, <1>6, CachedLast
<1> QED BY <1>7 DEF Filed, Newest, entry

-----------------------------------------------------------------------------
\* What is forwarded to a child.

\* The offers that were sent get nearer, quadrant by quadrant.
Nearing(history) ==
    \A i, j \in DOMAIN history :
        /\ i < j /\ history[i].sent /\ history[j].sent
        /\ history[i].quad = history[j].quad
        => history[j].dist < history[i].dist

\* The record knows the distance of everything sent.
Covered(record, history) ==
    \A i \in DOMAIN history :
        history[i].sent =>
          /\ record # NoChild
          /\ record.closest_quad[history[i].quad] <= history[i].dist

\* The inductive invariant: closest_quad in the living parent's record is at
\* most the distance of each offer it sent.  A restarted child's HELLO keeps it.
OfferInv ==
    /\ OwnChildren
    /\ \A c \in Brokers : Nearing(offers[c])
    /\ \A c \in Brokers : offers[c] # << >> =>
          has_parent(c) /\ Covered(children[Parent[c]][c], offers[c])

\* One more offer, sent only if it is nearer than the record says.
LEMMA OneMoreOffer ==
  ASSUME NEW history \in Seq(Offer), NEW o \in Offer,
         NEW record \in ChildBroker, NEW after \in ChildBroker,
         Nearing(history), Covered(record, history),
         o.sent => o.dist < record.closest_quad[o.quad],
         after.closest_quad = IF o.sent
                              THEN [record.closest_quad EXCEPT ![o.quad] = o.dist]
                              ELSE record.closest_quad
  PROVE  Nearing(Append(history, o)) /\ Covered(after, Append(history, o))
<1> DEFINE longer == Append(history, o)
<1>1. /\ DOMAIN longer = 1 .. Len(history) + 1 /\ Len(history) \in Nat
      /\ DOMAIN history = 1 .. Len(history)
      /\ longer[Len(history) + 1] = o
      /\ \A i \in 1 .. Len(history) : longer[i] = history[i]
  BY AppendProperties
<1>2. \A i \in DOMAIN history : history[i] \in Offer
  OBVIOUS
<1>3. record.closest_quad \in [Quadrants -> Nat] /\ o.quad \in Quadrants /\ o.dist \in Nat
  BY DEF ChildBroker, Offer
<1>4. after # NoChild
  BY NoChildAssumption
<1> HIDE DEF longer
<1>5. Covered(after, longer)
  <2> SUFFICES ASSUME NEW i \in DOMAIN longer, longer[i].sent
               PROVE  after.closest_quad[longer[i].quad] <= longer[i].dist
    BY <1>4 DEF Covered
  <2>1. CASE i = Len(history) + 1
    BY <1>1, <1>3, <2>1
  <2>2. CASE i \in DOMAIN history
    <3>1. /\ longer[i] = history[i] /\ history[i].quad \in Quadrants
          /\ history[i].dist \in Nat
          /\ record.closest_quad[history[i].quad] <= history[i].dist
      BY <1>1, <1>2, <2>2 DEF Covered, Offer
    <3>2. after.closest_quad[history[i].quad] <= record.closest_quad[history[i].quad]
      BY <1>3, <3>1
    <3>3. after.closest_quad[history[i].quad] \in Nat
      BY <3>1 DEF ChildBroker
    <3> QED BY <1>3, <3>1, <3>2, <3>3
  <2> QED BY <1>1, <2>1, <2>2
<1>6. Nearing(longer)
  <2> SUFFICES ASSUME NEW i \in DOMAIN longer, NEW j \in DOMAIN longer,
                      i < j, longer[i].sent, longer[j].sent,
                      longer[i].quad = longer[j].quad
               PROVE  longer[j].dist < longer[i].dist
    BY DEF Nearing
  <2>1. i \in DOMAIN history /\ longer[i] = history[i]
    BY <1>1
  <2>2. CASE j = Len(history) + 1
    <3>1. longer[j] = o /\ o.quad = history[i].quad /\ history[i].dist \in Nat
      BY <1>1, <1>2, <2>1, <2>2 DEF Offer
    <3>2. record.closest_quad[o.quad] <= history[i].dist
      BY <2>1, <3>1 DEF Covered
    <3>3. o.dist < record.closest_quad[o.quad]
      BY <3>1
    <3> QED BY <1>3, <2>1, <3>1, <3>2, <3>3
  <2>3. CASE j \in DOMAIN history
    BY <1>1, <2>1, <2>3 DEF Nearing
  <2> QED BY <1>1, <2>2, <2>3
<1> QED BY <1>5, <1>6 DEF longer

\* What a publication leaves of a child's record and history.
LEMMA OfferMade ==
  ASSUME TypeOK, OfferInv, NEW b \in Brokers, NEW k \in Keys, NEW m \in PublishMsg,
         NEW from, NEW c \in Brokers, NEW told, told = Told(b, k, m, from)
  PROVE  LET history == OffersAfter(b, k, m, Interested(b, k, from), told)[c]
         IN  /\ Nearing(history)
             /\ c \in Interested(b, k, from) =>
                  /\ b = Parent[c] /\ has_parent(c)
                  /\ Covered(ChildrenAfter(b, m, told)[c], history)
             /\ c \notin Interested(b, k, from) => history = offers[c]
<1> DEFINE o == [key |-> k, quad |-> QuadOf(b, c, m), dist |-> QuadDist(b, c, m),
                 sent |-> c \in told]
           after == ChildrenAfter(b, m, told)[c]
<1>1. Nearing(offers[c])
  BY DEF OfferInv
<1>2. CASE c \notin Interested(b, k, from)
  BY <1>1, <1>2 DEF OffersAfter
<1>3. CASE c \in Interested(b, k, from)
  <2>1. /\ children[b][c] \in ChildBroker /\ QuadOf(b, c, m) \in Quadrants
        /\ QuadDist(b, c, m) \in Nat
    BY <1>3, ConsideredTypes
  <2>2. offers[c] \in Seq(Offer) /\ o \in Offer
    <3>1. offers[c] \in Seq(Offer)
      BY DEF TypeOK, HistoryTypes
    <3>2. o \in Offer
      BY <2>1 DEF Offer
    <3> QED BY <3>1, <3>2
  <2>3. b = Parent[c] /\ has_parent(c)
    BY <1>3, BrokerAssumption DEF OfferInv, OwnChildren, Interested, has_parent
  <2>4. Covered(children[b][c], offers[c])
    BY <2>3 DEF OfferInv, Covered
  <2>5. OffersAfter(b, k, m, Interested(b, k, from), told)[c] = Append(offers[c], o)
    BY <1>3 DEF OffersAfter
  <2>6. o.sent => o.dist < children[b][c].closest_quad[o.quad]
    BY DEF Told
  <2>7. after = IF c \in told
                THEN [children[b][c] EXCEPT
                        !.closest_quad[QuadOf(b, c, m)] = QuadDist(b, c, m)]
                ELSE children[b][c]
    BY DEF ChildrenAfter
  <2> HIDE DEF after
  <2>8. /\ after \in ChildBroker
        /\ after.closest_quad = IF c \in told
                                THEN [children[b][c].closest_quad EXCEPT
                                        ![QuadOf(b, c, m)] = QuadDist(b, c, m)]
                                ELSE children[b][c].closest_quad
    BY <2>1, <2>7 DEF ChildBroker
  <2>9. Nearing(Append(offers[c], o)) /\ Covered(after, Append(offers[c], o))
    BY <1>1, <2>1, <2>2, <2>4, <2>6, <2>8, OneMoreOffer
  <2> QED BY <1>3, <2>3, <2>5, <2>9 DEF after
<1> QED BY <1>2, <1>3

LEMMA PublishOffers ==
  ASSUME TypeOK, OfferInv, OwnChildren', NEW b \in Brokers, NEW m \in PublishMsg,
         NEW from, NEW upIn, NEW downIn, HandlePublish(b, m, from, upIn, downIn)
  PROVE  OfferInv'
<1>1. PICK k \in Keys : k = PubKey(b, m, from)
  BY PubKeyType
<1>2. PICK told : told = Told(b, k, m, from)
  OBVIOUS
<1>3. /\ children' = [children EXCEPT ![b] = ChildrenAfter(b, m, told)]
      /\ offers' = OffersAfter(b, k, m, Interested(b, k, from), told)
  BY <1>1, <1>2 DEF HandlePublish
<1>4. ASSUME NEW c \in Brokers
      PROVE  /\ Nearing(offers'[c])
             /\ offers'[c] # << >> =>
                  has_parent(c) /\ Covered(children'[Parent[c]][c], offers'[c])
  <2>1. /\ Nearing(offers'[c])
        /\ c \in Interested(b, k, from) =>
             /\ b = Parent[c] /\ has_parent(c)
             /\ Covered(ChildrenAfter(b, m, told)[c], offers'[c])
        /\ c \notin Interested(b, k, from) => offers'[c] = offers[c]
    BY <1>2, <1>3, OfferMade
  <2>2. CASE c \in Interested(b, k, from)
    BY <1>3, <2>1, <2>2 DEF TypeOK, OverlayTypes
  <2>3. CASE c \notin Interested(b, k, from) /\ offers[c] # << >>
    <3>1. has_parent(c) /\ Covered(children[Parent[c]][c], offers[c])
      BY <2>3 DEF OfferInv
    <3>2. Parent[c] \in Brokers
      BY <3>1, BrokerAssumption DEF has_parent
    <3>3. c \notin told
      BY <1>2, <2>3 DEF Told
    <3>4. children'[Parent[c]][c] = children[Parent[c]][c]
      BY <1>3, <3>2, <3>3 DEF ChildrenAfter, TypeOK, OverlayTypes
    <3> QED BY <2>1, <2>3, <3>1, <3>4
  <2> QED BY <2>1, <2>2, <2>3
<1> QED BY <1>4 DEF OfferInv

\* A step that makes no offer: it leaves the quadrant distances of every known
\* child, or forgets the history with the parent.
QuietOffers ==
    \A c \in Brokers :
      \/ offers'[c] = << >>
      \/ /\ offers'[c] = offers[c]
         /\ \A b \in Brokers : b = Parent[c] /\ children[b][c] # NoChild =>
              /\ children'[b][c] # NoChild
              /\ children'[b][c].closest_quad = children[b][c].closest_quad

LEMMA QuietOffered ==
  ASSUME OfferInv, OwnChildren', QuietOffers
  PROVE  OfferInv'
<1>1. ASSUME NEW c \in Brokers
      PROVE  /\ Nearing(offers'[c])
             /\ offers'[c] # << >> =>
                  has_parent(c) /\ Covered(children'[Parent[c]][c], offers'[c])
  <2>1. CASE offers'[c] = << >>
    BY <2>1 DEF Nearing
  <2>2. CASE offers'[c] = offers[c] /\ offers'[c] # << >>
    <3>1. has_parent(c) /\ Covered(children[Parent[c]][c], offers[c]) /\ Nearing(offers[c])
      BY <2>2 DEF OfferInv
    <3>2. Parent[c] \in Brokers
      BY <3>1, BrokerAssumption DEF has_parent
    <3>3. children[Parent[c]][c] # NoChild =>
            /\ children'[Parent[c]][c] # NoChild
            /\ children'[Parent[c]][c].closest_quad = children[Parent[c]][c].closest_quad
      BY <2>2, <3>2 DEF QuietOffers
    <3> QED BY <2>2, <3>1, <3>3 DEF Covered
  <2> QED BY <2>1, <2>2 DEF QuietOffers
<1> QED BY <1>1 DEF OfferInv

\* HELLO and REGION_UPDATE keep the quadrant distances of a known child.
LEMMA RegionsQuietOffers ==
  ASSUME TypeOK, NEW c \in Brokers, Hello(c) \/ ChildRegion(c)
  PROVE  QuietOffers
<1> DEFINE b == Parent[c]
           m == Head(up[c])
<1>1. b \in Brokers /\ up[c] # << >> /\ UNCHANGED offers
  BY BrokerAssumption DEF Hello, ChildRegion, Bound, historyVars
<1>2. /\ children[b] \in [Brokers -> ChildBroker \cup {NoChild}]
      /\ children \in [Brokers -> [Brokers -> ChildBroker \cup {NoChild}]]
  BY <1>1 DEF TypeOK, OverlayTypes
<1>3. m \in UpMsg
  BY <1>1, HeadTailProperties DEF TypeOK, NetworkTypes
<1> HIDE DEF m
<1>4. CASE Hello(c)
  <2>1. m \in HelloMsg
    BY <1>3, <1>4, UpMsgTypes DEF Hello, m
  <2>2. children' = [children EXCEPT ![b] = [@ EXCEPT ![m.id] = HelloChild(b, m)]]
    BY <1>4 DEF Hello, m
  <2>3. m.id \in Brokers /\ m.pos \in Points
    BY <2>1 DEF HelloMsg
  <2>4. HelloChild(b, m) # NoChild
    <3>1. RegionOf(m.pos) \in RegionType
      BY <2>3, RegionOfType
    <3>2. children[b][m.id] \in ChildBroker \cup {NoChild} /\ DoubleMax \in Nat
      BY <1>2, <2>3 DEF DoubleMax
    <3>3. HelloChild(b, m) \in ChildBroker
      BY <2>3, <3>1, <3>2 DEF HelloChild, ChildBroker
    <3> QED BY <3>3, NoChildAssumption
  <2>5. children[b][m.id] # NoChild =>
          HelloChild(b, m).closest_quad = children[b][m.id].closest_quad
    BY DEF HelloChild
  <2>6. \A a, x \in Brokers : children[a][x] # NoChild =>
          /\ children'[a][x] # NoChild
          /\ children'[a][x].closest_quad = children[a][x].closest_quad
    BY <1>1, <1>2, <2>2, <2>3, <2>4, <2>5
  <2> QED BY <1>1, <2>6 DEF QuietOffers
<1>5. CASE ChildRegion(c)
  <2>1. m \in RegionMsg
    BY <1>3, <1>5, UpMsgTypes DEF ChildRegion, m
  <2>2. CASE children[b][m.id] = NoChild
    BY <1>1, <1>5, <2>2 DEF ChildRegion, m, QuietOffers
  <2>3. CASE children[b][m.id] # NoChild
    <3> DEFINE record == [children[b][m.id] EXCEPT !.region = m.region]
    <3>1. children' = [children EXCEPT ![b] = [children[b] EXCEPT ![m.id] = record]]
      BY <1>5, <2>3 DEF ChildRegion, m
    <3>2. m.id \in Brokers /\ m.region \in RegionType
      BY <2>1 DEF RegionMsg
    <3>3. children[b][m.id] \in ChildBroker
      BY <1>1, <1>2, <2>3, <3>2
    <3>4. /\ record # NoChild
          /\ record.closest_quad = children[b][m.id].closest_quad
      BY <3>2, <3>3, NoChildAssumption DEF ChildBroker
    <3> HIDE DEF record
    <3>5. \A a, x \in Brokers : children[a][x] # NoChild =>
            /\ children'[a][x] # NoChild
            /\ children'[a][x].closest_quad = children[a][x].closest_quad
      BY <1>1, <1>2, <3>1, <3>2, <3>4
    <3> QED BY <1>1, <3>5 DEF QuietOffers
  <2> QED BY <2>2, <2>3
<1> QED BY <1>4, <1>5

\* Which steps but the handling of a publication change offers or records.
LEMMA OffersKept ==
  ASSUME [Next]_vars, ~Publishing
  PROVE  \/ UNCHANGED <<children, offers>>
         \/ \E c \in Brokers : Hello(c) \/ ChildRegion(c)
         \/ \E b \in Brokers : Crash(b)
<1>1. CASE FromClients
  <2>1. \A s : ClientSubscribe(s) => UNCHANGED <<children, offers>>
    BY DEF ClientSubscribe
  <2>2. \A h : Heartbeat(h) => UNCHANGED <<children, offers>>
    BY DEF Heartbeat, overlayVars
  <2> QED BY <1>1, <2>1, <2>2 DEF FromClients, Publishing
<1>2. ASSUME NEW b \in Brokers, Starts(b) PROVE UNCHANGED <<children, offers>>
  BY <1>2 DEF Starts, Bind, GenerateKey, WriteKeyFile, UnlinkFullKeyFile,
    WriteFullKeyFile, LoadKey,
     FailFast, tableVars, overlayVars, historyVars
<1>3. ASSUME NEW b \in Brokers,
             \/ ChildSubscribe(b) \/ HelloAck(b) \/ Sweep(b) \/ EpollTimeout(b)
             \/ StatsRequest(b) \/ LoseUp(b) \/ LoseDown(b)
      PROVE  UNCHANGED <<children, offers>>
  <2>1. ChildSubscribe(b) \/ HelloAck(b) => UNCHANGED <<children, offers>>
    BY DEF ChildSubscribe, HelloAck, overlayVars, historyVars
  <2>2. Sweep(b) \/ EpollTimeout(b) \/ StatsRequest(b) => UNCHANGED <<children, offers>>
    BY DEF Sweep, EpollTimeout, StatsRequest, overlayVars, historyVars
  <2>3. LoseUp(b) \/ LoseDown(b) => UNCHANGED <<children, offers>>
    BY DEF LoseUp, LoseDown, tableVars, overlayVars, historyVars
  <2> QED BY <1>3, <2>1, <2>2, <2>3
<1>4. Tick \/ UNCHANGED vars => UNCHANGED <<children, offers>>
  BY DEF Tick, vars, tableVars, overlayVars, historyVars
<1> QED
  BY <1>1, <1>2, <1>3, <1>4 DEF Next, FromChild, FromParent, Publishing

LEMMA OthersQuietOffers ==
  ASSUME TypeOK, [Next]_vars, ~Publishing
  PROVE  QuietOffers
<1>1. ASSUME UNCHANGED <<children, offers>> PROVE QuietOffers
  BY <1>1 DEF QuietOffers
<1>2. ASSUME NEW b \in Brokers, Crash(b) PROVE QuietOffers
  <2>1. /\ children' = [children EXCEPT ![b] = [c \in Brokers |-> NoChild]]
        /\ offers' = [c \in Brokers |-> IF Parent[c] = b THEN << >> ELSE offers[c]]
    BY <1>2 DEF Crash
  <2>2. \A a \in Brokers : a # b => children'[a] = children[a]
    BY <2>1 DEF TypeOK, OverlayTypes
  <2>3. \A c \in Brokers : IF Parent[c] = b THEN offers'[c] = << >>
                                             ELSE offers'[c] = offers[c]
    BY <2>1
  <2> QED BY <2>2, <2>3 DEF QuietOffers
<1> QED BY <1>1, <1>2, OffersKept, RegionsQuietOffers

\* A parent forwards to a quadrant of a child only what is strictly nearer to
\* its centre than all it forwarded there before, for as long as the parent
\* lives, whatever becomes of the child (closest_quad in handlePublish, which
\* handleHello keeps).
THEOREM OnlyNearerForwarded == Spec => []OffersStrictlyNearer
<1>1. Init => OfferInv
  BY DEF Init, OfferInv, OwnChildren, Nearing
<1>2. TypeOK /\ OfferInv /\ [Next]_vars => OfferInv'
  <2> SUFFICES ASSUME TypeOK, OfferInv, [Next]_vars PROVE OfferInv'
    OBVIOUS
  <2>1. OwnChildren'
    BY ChildrenOwned DEF OfferInv
  <2>2. CASE ~Publishing
    BY <2>1, <2>2, OthersQuietOffers, QuietOffered
  <2>3. CASE Publishing
    BY <2>1, <2>3, Published, PublishOffers
    DEF Publishing, ChildPublish, ParentPublish
  <2> QED BY <2>2, <2>3
<1>3. OfferInv => OffersStrictlyNearer
  BY DEF OfferInv, Nearing, OffersStrictlyNearer
<1> QED BY <1>1, <1>2, <1>3, TypeCorrect, PTL DEF Spec

-----------------------------------------------------------------------------
\* What is withheld, and because of what.

\* Every offer not sent has one before it that was, to the same quadrant and at
\* least as near.
Preceded(history) ==
    \A j \in DOMAIN history :
      ~history[j].sent =>
        \E i \in DOMAIN history :
          /\ i < j /\ history[i].sent
          /\ history[i].quad = history[j].quad
          /\ history[i].dist <= history[j].dist

\* What the record holds for a quadrant is nothing yet, or the distance of
\* something that was sent there.
Traced(record, history) ==
    \A q \in Quadrants :
      \/ record.closest_quad[q] = DoubleMax
      \/ \E i \in DOMAIN history :
           /\ history[i].sent /\ history[i].quad = q
           /\ history[i].dist = record.closest_quad[q]

\* The inductive invariant: every distance in closest_quad stems from an offer
\* that was sent, since the parent that holds the record started.
WithheldInv ==
    /\ OwnChildren
    /\ \A c \in Brokers : Preceded(offers[c])
    /\ \A b, c \in Brokers : b = Parent[c] /\ children[b][c] # NoChild =>
         Traced(children[b][c], offers[c])

\* One more offer, sent if and only if it is nearer than the record says.
LEMMA OneMoreTraced ==
  ASSUME NEW history \in Seq(Offer), NEW o \in Offer,
         NEW record \in ChildBroker, NEW after \in ChildBroker,
         Preceded(history), Traced(record, history),
         o.dist < DoubleMax,
         o.sent <=> o.dist < record.closest_quad[o.quad],
         after.closest_quad = IF o.sent
                              THEN [record.closest_quad EXCEPT ![o.quad] = o.dist]
                              ELSE record.closest_quad
  PROVE  Preceded(Append(history, o)) /\ Traced(after, Append(history, o))
<1>1. PICK longer : longer = Append(history, o)
  OBVIOUS
<1>2. PICK last \in Nat : last = Len(history) + 1
  OBVIOUS
<1>3. /\ \A i \in DOMAIN history :
           /\ i \in DOMAIN longer /\ longer[i] = history[i]
           /\ i < last /\ i \in Nat /\ history[i] \in Offer
      /\ last \in DOMAIN longer /\ longer[last] = o
      /\ \A i \in DOMAIN longer : i = last \/ i \in DOMAIN history
  BY <1>1, <1>2, AppendProperties
<1>4. record.closest_quad \in [Quadrants -> Nat] /\ o.quad \in Quadrants /\ o.dist \in Nat
  BY DEF ChildBroker, Offer
<1>5. Traced(after, longer)
  <2> SUFFICES ASSUME NEW q \in Quadrants, after.closest_quad[q] # DoubleMax
               PROVE  \E i \in DOMAIN longer :
                        /\ longer[i].sent /\ longer[i].quad = q
                        /\ longer[i].dist = after.closest_quad[q]
    BY DEF Traced
  <2>1. CASE o.sent /\ q = o.quad
    <3>1. after.closest_quad[q] = o.dist
      BY <1>4, <2>1
    <3> QED BY <1>3, <2>1, <3>1
  <2>2. CASE ~(o.sent /\ q = o.quad)
    <3>1. after.closest_quad[q] = record.closest_quad[q]
      BY <1>4, <2>2
    <3>2. PICK i \in DOMAIN history :
            /\ history[i].sent /\ history[i].quad = q
            /\ history[i].dist = record.closest_quad[q]
      BY <3>1 DEF Traced
    <3> QED BY <1>3, <3>1, <3>2
  <2> QED BY <2>1, <2>2
<1>6. Preceded(longer)
  <2> SUFFICES ASSUME NEW j \in DOMAIN longer, ~longer[j].sent
               PROVE  \E i \in DOMAIN longer :
                        /\ i < j /\ longer[i].sent
                        /\ longer[i].quad = longer[j].quad
                        /\ longer[i].dist <= longer[j].dist
    BY DEF Preceded
  <2>1. CASE j = last
    <3>1. longer[j] = o /\ ~o.sent
      BY <1>3, <2>1
    <3>2. record.closest_quad[o.quad] <= o.dist
      BY <1>4, <3>1
    <3>3. record.closest_quad[o.quad] # DoubleMax
      BY <1>4, <3>2
    <3>4. PICK i \in DOMAIN history :
            /\ history[i].sent /\ history[i].quad = o.quad
            /\ history[i].dist = record.closest_quad[o.quad]
      BY <1>4, <3>3 DEF Traced
    <3> QED BY <1>3, <2>1, <3>1, <3>2, <3>4
  <2>2. CASE j \in DOMAIN history
    <3>1. longer[j] = history[j] /\ ~history[j].sent
      BY <1>3, <2>2
    <3>2. PICK i \in DOMAIN history :
            /\ i < j /\ history[i].sent
            /\ history[i].quad = history[j].quad
            /\ history[i].dist <= history[j].dist
      BY <2>2, <3>1 DEF Preceded
    <3> QED BY <1>3, <3>1, <3>2
  <2> QED BY <1>3, <2>1, <2>2
<1> QED BY <1>1, <1>5, <1>6

\* What a publication leaves of a child's record and history.
LEMMA OfferTraced ==
  ASSUME TypeOK, WithheldInv, NEW b \in Brokers, NEW k \in Keys, NEW m \in PublishMsg,
         NEW from, NEW c \in Interested(b, k, from), NEW told, told = Told(b, k, m, from)
  PROVE  LET history == OffersAfter(b, k, m, Interested(b, k, from), told)[c]
         IN  /\ b = Parent[c]
             /\ Preceded(history)
             /\ Traced(ChildrenAfter(b, m, told)[c], history)
<1>1. PICK o : o = [key |-> k, quad |-> QuadOf(b, c, m), dist |-> QuadDist(b, c, m),
                    sent |-> c \in told]
  OBVIOUS
<1>2. PICK after : after = IF c \in told
                           THEN [children[b][c] EXCEPT
                                   !.closest_quad[QuadOf(b, c, m)] = QuadDist(b, c, m)]
                           ELSE children[b][c]
  OBVIOUS
<1>3. c \in Brokers /\ b = Parent[c] /\ children[b][c] # NoChild
  <2>1. c \in child_active[b][k] /\ Known(b, c)
    BY DEF Interested
  <2>2. c \in Brokers
    BY <2>1 DEF TypeOK, OverlayTypes
  <2> QED BY <2>1, <2>2 DEF WithheldInv, OwnChildren, Known
<1>4. /\ children[b][c] \in ChildBroker /\ QuadOf(b, c, m) \in Quadrants
      /\ QuadDist(b, c, m) \in Nat
  BY ConsideredTypes
<1>5. QuadDist(b, c, m) < DoubleMax
  <2>1. children[b][c].region \in RegionType /\ m.pos \in Points
    BY <1>4 DEF ChildBroker, PublishMsg
  <2>2. QuadrantCenter(children[b][c].region, QuadOf(b, c, m)) \in Points
    BY <1>4, <2>1, QuadrantCenterType
  <2> QED BY <2>1, <2>2, GeoDistanceBound DEF QuadDist
<1>6. offers[c] \in Seq(Offer)
  BY <1>3 DEF TypeOK, HistoryTypes
<1>7. o \in Offer
  BY <1>1, <1>4 DEF Offer
<1>8. Preceded(offers[c]) /\ Traced(children[b][c], offers[c])
  BY <1>3 DEF WithheldInv
<1>9. o.sent <=> o.dist < children[b][c].closest_quad[o.quad]
  BY <1>1 DEF Told
<1>10. /\ after \in ChildBroker
       /\ after.closest_quad = IF o.sent
                               THEN [children[b][c].closest_quad EXCEPT ![o.quad] = o.dist]
                               ELSE children[b][c].closest_quad
  BY <1>1, <1>2, <1>4 DEF ChildBroker
<1>11. o.dist < DoubleMax
  BY <1>1, <1>5
<1>12. Preceded(Append(offers[c], o)) /\ Traced(after, Append(offers[c], o))
  BY <1>4, <1>6, <1>7, <1>8, <1>9, <1>10, <1>11, OneMoreTraced
<1>13. OffersAfter(b, k, m, Interested(b, k, from), told)[c] = Append(offers[c], o)
  BY <1>1, <1>3 DEF OffersAfter
<1>14. ChildrenAfter(b, m, told)[c] = after
  BY <1>2, <1>3 DEF ChildrenAfter
<1> QED BY <1>3, <1>12, <1>13, <1>14

LEMMA PublishWithheld ==
  ASSUME TypeOK, WithheldInv, OwnChildren', NEW b \in Brokers, NEW m \in PublishMsg,
         NEW from, NEW upIn, NEW downIn, HandlePublish(b, m, from, upIn, downIn)
  PROVE  WithheldInv'
<1>1. PICK k \in Keys : k = PubKey(b, m, from)
  BY PubKeyType
<1>2. PICK told : told = Told(b, k, m, from)
  OBVIOUS
<1>3. /\ children' = [children EXCEPT ![b] = ChildrenAfter(b, m, told)]
      /\ offers' = OffersAfter(b, k, m, Interested(b, k, from), told)
  BY <1>1, <1>2 DEF HandlePublish
<1>4. children'[b] = ChildrenAfter(b, m, told)
      /\ \A a \in Brokers : a # b => children'[a] = children[a]
  BY <1>3 DEF TypeOK, OverlayTypes
<1>5. ASSUME NEW c \in Brokers
      PROVE  /\ Preceded(offers'[c])
             /\ \A a \in Brokers : a = Parent[c] /\ children'[a][c] # NoChild =>
                  Traced(children'[a][c], offers'[c])
  <2>1. CASE c \in Interested(b, k, from)
    <3>1. /\ b = Parent[c]
          /\ Preceded(offers'[c])
          /\ Traced(children'[b][c], offers'[c])
      BY <1>2, <1>3, <1>4, <2>1, OfferTraced
    <3> QED BY <3>1
  <2>2. CASE c \notin Interested(b, k, from)
    <3>1. offers'[c] = offers[c]
      BY <1>3, <2>2 DEF OffersAfter
    <3>2. c \notin told
      BY <1>2, <2>2 DEF Told
    <3>3. \A a \in Brokers : children'[a][c] = children[a][c]
      BY <1>4, <3>2 DEF ChildrenAfter
    <3> QED BY <3>1, <3>3 DEF WithheldInv
  <2> QED BY <2>1, <2>2
<1> QED BY <1>5 DEF WithheldInv

\* A step that makes no offer: the records it leaves known are as they were, or
\* new; a history is kept, or forgotten with all its records.
QuietRecords ==
    \A b, c \in Brokers : b = Parent[c] /\ children'[b][c] # NoChild =>
      /\ offers'[c] = offers[c]
      /\ \/ /\ children[b][c] # NoChild
            /\ children'[b][c].closest_quad = children[b][c].closest_quad
         \/ children'[b][c].closest_quad = [q \in Quadrants |-> DoubleMax]

LEMMA QuietWithheld ==
  ASSUME WithheldInv, OwnChildren', QuietOffers, QuietRecords
  PROVE  WithheldInv'
<1>1. ASSUME NEW c \in Brokers PROVE Preceded(offers'[c])
  <2>1. CASE offers'[c] = << >>
    BY <2>1 DEF Preceded
  <2>2. CASE offers'[c] = offers[c]
    BY <2>2 DEF WithheldInv
  <2> QED BY <2>1, <2>2 DEF QuietOffers
<1>2. ASSUME NEW b \in Brokers, NEW c \in Brokers, b = Parent[c], children'[b][c] # NoChild
      PROVE  Traced(children'[b][c], offers'[c])
  <2>1. CASE /\ children[b][c] # NoChild
             /\ children'[b][c].closest_quad = children[b][c].closest_quad
    <3>1. Traced(children[b][c], offers[c]) /\ offers'[c] = offers[c]
      BY <1>2, <2>1 DEF WithheldInv, QuietRecords
    <3> QED BY <2>1, <3>1 DEF Traced
  <2>2. CASE children'[b][c].closest_quad = [q \in Quadrants |-> DoubleMax]
    BY <2>2 DEF Traced
  <2> QED BY <1>2, <2>1, <2>2 DEF QuietRecords
<1> QED BY <1>1, <1>2 DEF WithheldInv

\* A HELLO keeps the distances or starts them all, REGION_UPDATE keeps them.
LEMMA RegionsQuietRecords ==
  ASSUME TypeOK, NEW c \in Brokers, Hello(c) \/ ChildRegion(c)
  PROVE  QuietRecords
<1>1. PICK b \in Brokers : b = Parent[c]
  <2>1. Bound(Parent[c])
    BY Zenon DEF Hello, ChildRegion
  <2> QED BY <2>1, BrokerAssumption DEF Bound
<1>2. PICK m \in UpMsg : m = Head(up[c])
  <2>1. Hello(c) => up[c] # << >>
    BY Zenon DEF Hello
  <2>2. ChildRegion(c) => up[c] # << >>
    BY Zenon DEF ChildRegion
  <2> QED BY <2>1, <2>2, HeadTailProperties DEF TypeOK, NetworkTypes
<1>3. UNCHANGED offers
  BY Zenon DEF Hello, ChildRegion, historyVars
<1>4. /\ children \in [Brokers -> [Brokers -> ChildBroker \cup {NoChild}]]
      /\ children[b] \in [Brokers -> ChildBroker \cup {NoChild}]
  BY DEF TypeOK, OverlayTypes
<1>5. CASE Hello(c)
  <2>1. m.id \in Brokers
    <3>1. m \in HelloMsg
      BY <1>2, <1>5, UpMsgTypes, Zenon DEF Hello
    <3> QED BY <3>1 DEF HelloMsg
  <2>2. children' = [children EXCEPT ![b] = [@ EXCEPT ![m.id] = HelloChild(b, m)]]
    BY <1>1, <1>2, <1>5 DEF Hello
  <2>3. PICK record : record = HelloChild(b, m)
    OBVIOUS
  <2>4. \/ /\ children[b][m.id] # NoChild
           /\ record.closest_quad = children[b][m.id].closest_quad
        \/ record.closest_quad = [q \in Quadrants |-> DoubleMax]
    BY <2>3 DEF HelloChild
  <2>5. \A a, x \in Brokers :
          children'[a][x] = IF a = b /\ x = m.id THEN record ELSE children[a][x]
    BY <1>4, <2>1, <2>2, <2>3
  <2> QED BY <1>3, <2>4, <2>5 DEF QuietRecords
<1>6. CASE ChildRegion(c)
  <2>1. CASE children[b][m.id] = NoChild
    <3>1. UNCHANGED children
      BY <1>1, <1>2, <1>6, <2>1 DEF ChildRegion
    <3> QED BY <1>3, <3>1 DEF QuietRecords
  <2>2. CASE children[b][m.id] # NoChild
    <3>1. m.id \in Brokers
      <4>1. m \in RegionMsg
        BY <1>2, <1>6, UpMsgTypes, Zenon DEF ChildRegion
      <4> QED BY <4>1 DEF RegionMsg
    <3>2. PICK record : record = [children[b][m.id] EXCEPT !.region = m.region]
      OBVIOUS
    <3>3. children' = [children EXCEPT ![b] = [children[b] EXCEPT ![m.id] = record]]
      BY <1>1, <1>2, <1>6, <2>2, <3>2, Zenon DEF ChildRegion
    <3>4. children[b][m.id] \in ChildBroker
      BY <1>4, <2>2, <3>1
    <3>5. record.closest_quad = children[b][m.id].closest_quad
      BY <3>2, <3>4 DEF ChildBroker
    <3>6. \A a, x \in Brokers :
            children'[a][x] = IF a = b /\ x = m.id THEN record ELSE children[a][x]
      BY <1>4, <3>1, <3>3
    <3> QED BY <1>3, <2>2, <3>5, <3>6 DEF QuietRecords
  <2> QED BY <2>1, <2>2
<1> QED BY <1>5, <1>6

LEMMA OthersQuietRecords ==
  ASSUME TypeOK, [Next]_vars, ~Publishing
  PROVE  QuietRecords
<1>1. ASSUME UNCHANGED <<children, offers>> PROVE QuietRecords
  BY <1>1 DEF QuietRecords
<1>2. ASSUME NEW b \in Brokers, Crash(b) PROVE QuietRecords
  <2>1. /\ children' = [children EXCEPT ![b] = [c \in Brokers |-> NoChild]]
        /\ offers' = [c \in Brokers |-> IF Parent[c] = b THEN << >> ELSE offers[c]]
    BY <1>2 DEF Crash
  <2>2. \A c \in Brokers : children'[b][c] = NoChild
    BY <2>1 DEF TypeOK, OverlayTypes
  <2>3. \A a \in Brokers : a # b => children'[a] = children[a]
    BY <2>1 DEF TypeOK, OverlayTypes
  <2>4. \A c \in Brokers : Parent[c] # b => offers'[c] = offers[c]
    BY <2>1
  <2> QED BY <2>2, <2>3, <2>4 DEF QuietRecords
<1> QED BY <1>1, <1>2, OffersKept, RegionsQuietRecords

\* A parent withholds a publication from an interested child only if something
\* at least as near went to that quadrant of the child before: no first
\* publication is ever withheld, and a restarted child's HELLO does not undo
\* what its parent remembers (closest_quad in handlePublish and handleHello).
THEOREM NothingFirstIsWithheld == Spec => []WithheldOnlyIfNearerSent
<1>1. Init => WithheldInv
  BY DEF Init, WithheldInv, OwnChildren, Preceded
<1>2. TypeOK /\ WithheldInv /\ [Next]_vars => WithheldInv'
  <2> SUFFICES ASSUME TypeOK, WithheldInv, [Next]_vars PROVE WithheldInv'
    OBVIOUS
  <2>1. OwnChildren'
    BY ChildrenOwned DEF WithheldInv
  <2>2. CASE ~Publishing
    BY <2>1, <2>2, OthersQuietOffers, OthersQuietRecords, QuietWithheld
  <2>3. CASE Publishing
    BY <2>1, <2>3, Published, PublishWithheld
    DEF Publishing, ChildPublish, ParentPublish
  <2> QED BY <2>2, <2>3
<1>3. WithheldInv => WithheldOnlyIfNearerSent
  BY DEF WithheldInv, Preceded, WithheldOnlyIfNearerSent
<1> QED BY <1>1, <1>2, <1>3, TypeCorrect, PTL DEF Spec

\* What a child was offered since its parent started is of one service.
OneServiceOffered ==
    \A c \in Brokers : \A i, j \in DOMAIN offers[c] : offers[c][i].key = offers[c][j].key

\* The quadrant cache keeps what main_fixed.tex:370 says of it, that it
\* suppresses precisely when a better publication was forwarded, wherever the
\* children are interested in one service: only that closest_quad is shared by
\* the services breaks it (run quadrant_shared).
THEOREM OneServiceSuppressed == Spec => [](OneServiceOffered => WithheldOnlyIfBetterSent)
<1>1. WithheldOnlyIfNearerSent => (OneServiceOffered => WithheldOnlyIfBetterSent)
  BY DEF WithheldOnlyIfNearerSent, OneServiceOffered, WithheldOnlyIfBetterSent
<1> QED BY <1>1, NothingFirstIsWithheld, PTL

-----------------------------------------------------------------------------
\* The brake: its windows against the history of what it let pass.

\* The history up to time t is in the order of time.
Ordered(history, t) ==
    /\ \A i \in DOMAIN history : history[i] <= t
    /\ \A i, j \in DOMAIN history : i <= j => history[i] <= history[j]

\* The window is what remains of the history after its first n entries.
EndOf(w, history, n) ==
    /\ n \in Nat /\ Len(history) = n + Len(w)
    /\ \A i \in 1 .. Len(w) : w[i] = history[n + i]

\* The first n entries have left the window that ends at time t.
OutOfWindow(history, n, t) == \A i \in 1 .. n : t - history[i] > BrakeWindowSec

\* An entry that is not fresh is stale.
LEMMA NotFresh ==
  ASSUME NEW w \in Seq(Nat), NEW t \in Nat, NEW i \in 1 .. Len(w), i \notin Fresh(w, t)
  PROVE  t - w[i] > BrakeWindowSec
BY BrakeAssumption DEF Fresh

\* What brakeAllows pops lies outside the window.
LEMMA PoppedIsStale ==
  ASSUME NEW w \in Seq(Nat), NEW history \in Seq(Nat), NEW t \in Nat, NEW n,
         EndOf(w, history, n)
  PROVE  \E p \in Nat : /\ EndOf(DropStale(w, t), history, p)
                        /\ OutOfWindow(history, n, t) => OutOfWindow(history, p, t)
<1>1. n \in Nat /\ Len(w) \in Nat /\ Len(history) = n + Len(w)
  BY DEF EndOf
<1>2. /\ \A i \in 1 .. Len(w) : w[i] = history[n + i] /\ w[i] \in Nat
      /\ \A i \in n + 1 .. Len(history) : i - n \in 1 .. Len(w)
                                          /\ history[i] = w[i - n] /\ history[i] \in Nat
  <2>1. \A i \in 1 .. Len(w) : w[i] = history[n + i] /\ w[i] \in Nat
    BY DEF EndOf
  <2>2. ASSUME NEW i \in n + 1 .. Len(history)
        PROVE  i - n \in 1 .. Len(w) /\ history[i] = w[i - n] /\ history[i] \in Nat
    <3>1. i \in Int /\ i - n \in 1 .. Len(w) /\ n + (i - n) = i
      BY <1>1, <2>2
    <3> QED BY <2>1, <3>1
  <2> QED BY <2>1, <2>2
<1>3. CASE Fresh(w, t) = {} /\ DropStale(w, t) = << >>
  <2>1. EndOf(DropStale(w, t), history, Len(history))
    BY <1>1, <1>3 DEF EndOf
  <2>2. ASSUME OutOfWindow(history, n, t) PROVE OutOfWindow(history, Len(history), t)
    <3> SUFFICES ASSUME NEW i \in 1 .. Len(history)
                 PROVE  t - history[i] > BrakeWindowSec
      BY DEF OutOfWindow
    <3>1. CASE i \in 1 .. n
      BY <2>2, <3>1 DEF OutOfWindow
    <3>2. CASE i \in n + 1 .. Len(history)
      <4>1. i - n \in 1 .. Len(w) /\ history[i] = w[i - n]
        BY <1>2, <3>2
      <4> QED BY <1>3, <4>1, NotFresh
    <3> QED BY <1>1, <3>1, <3>2
  <2> QED BY <1>1, <2>1, <2>2
<1>4. ASSUME NEW first \in Fresh(w, t), \A j \in Fresh(w, t) : first <= j,
             DropStale(w, t) = SubSeq(w, first, Len(w))
      PROVE  \E p \in Nat : /\ EndOf(DropStale(w, t), history, p)
                            /\ OutOfWindow(history, n, t) => OutOfWindow(history, p, t)
  <2> DEFINE d == DropStale(w, t)
             p == n + first - 1
  <2>1. first \in 1 .. Len(w)
    BY DEF Fresh
  <2>2. \A i \in first .. Len(w) : w[i] \in Nat
    BY <1>2, <2>1
  <2>3. /\ Len(d) = Len(w) - first + 1
        /\ \A i \in 1 .. Len(d) : d[i] = w[first + i - 1]
    <3>1. first \in Int /\ Len(w) \in Int /\ first <= Len(w)
      BY <1>1, <2>1
    <3>2. /\ Len(SubSeq(w, first, Len(w))) = Len(w) - first + 1
          /\ \A i \in 1 .. Len(w) - first + 1 :
               SubSeq(w, first, Len(w))[i] = w[first + i - 1]
      BY <2>2, <3>1, SubSeqProperties
    <3> QED BY <1>4, <3>2
  <2> HIDE DEF d
  <2>4. EndOf(d, history, p)
    <3>1. p \in Nat /\ Len(history) = p + Len(d)
      <4>1. first \in Nat /\ first >= 1 /\ Len(d) = Len(w) - first + 1
        BY <1>1, <2>1, <2>3
      <4> QED BY <1>1, <4>1
    <3>2. ASSUME NEW i \in 1 .. Len(d) PROVE d[i] = history[p + i]
      <4>1. first + i - 1 \in 1 .. Len(w) /\ n + (first + i - 1) = p + i
        BY <1>1, <2>1, <2>3
      <4> QED BY <1>2, <2>3, <4>1
    <3> QED BY <3>1, <3>2 DEF EndOf
  <2>5. ASSUME OutOfWindow(history, n, t) PROVE OutOfWindow(history, p, t)
    <3> SUFFICES ASSUME NEW i \in 1 .. p PROVE t - history[i] > BrakeWindowSec
      BY DEF OutOfWindow
    <3>1. CASE i \in 1 .. n
      BY <2>5, <3>1 DEF OutOfWindow
    <3>2. CASE i \in n + 1 .. p
      <4>1. /\ i - n \in 1 .. Len(w) /\ i - n < first /\ i \in n + 1 .. Len(history)
        BY <1>1, <2>1, <3>2
      <4>2. i - n \notin Fresh(w, t)
        BY <1>1, <1>4, <2>1, <4>1
      <4>3. history[i] = w[i - n]
        BY <1>2, <4>1
      <4> QED BY <4>1, <4>2, <4>3, NotFresh
    <3> QED BY <1>1, <2>1, <3>1, <3>2
  <2>6. p \in Nat
    BY <1>1, <2>1
  <2> QED BY <2>4, <2>5, <2>6 DEF d
<1> QED BY <1>3, <1>4, DropStaleSuffix

\* A window that is full has brake_limit entries behind it that passed recently.
LEMMA FullWindow ==
  ASSUME NEW w \in Seq(Nat), NEW history \in Seq(Nat), NEW t \in Nat, NEW n,
         EndOf(w, history, n), Ordered(history, t)
  PROVE  Len(DropStale(w, t)) <= Recent(history, t)
<1> DEFINE d == DropStale(w, t)
           recent == {i \in DOMAIN history : t - history[i] <= BrakeWindowSec}
<1>1. PICK p \in Nat : EndOf(d, history, p)
  BY PoppedIsStale
<1>2. d \in Seq(Nat) /\ Len(d) \in Nat /\ Len(history) = p + Len(d)
  <2>1. d \in Seq(Nat)
    BY DropStaleType
  <2>2. Len(history) = p + Len(d)
    BY <1>1 DEF EndOf
  <2> HIDE DEF d
  <2> QED BY <2>1, <2>2
<1>3. \A i, j \in 1 .. Len(w) : i <= j => w[i] <= w[j]
  <2> TAKE i, j \in 1 .. Len(w)
  <2>1. /\ n + i \in DOMAIN history /\ n + j \in DOMAIN history
        /\ w[i] = history[n + i] /\ w[j] = history[n + j]
        /\ i <= j => n + i <= n + j
    <3>1. n \in Nat /\ Len(history) = n + Len(w) /\ Len(w) \in Nat
      BY DEF EndOf
    <3>2. n + i \in 1 .. Len(history) /\ n + j \in 1 .. Len(history)
      BY <3>1
    <3>3. w[i] = history[n + i] /\ w[j] = history[n + j]
      BY DEF EndOf
    <3> QED BY <3>1, <3>2, <3>3
  <2> QED BY <2>1 DEF Ordered
<1>4. \A i \in 1 .. Len(d) : t - d[i] <= BrakeWindowSec
  BY <1>3, OnlyFreshEntriesCount
<1> HIDE DEF d
<1>5. p + 1 .. Len(history) \subseteq recent
  <2> SUFFICES ASSUME NEW i \in p + 1 .. Len(history) PROVE i \in recent
    OBVIOUS
  <2>1. i - p \in 1 .. Len(d) /\ p + (i - p) = i /\ i \in DOMAIN history
    BY <1>2
  <2>2. history[i] = d[i - p]
    BY <1>1, <2>1 DEF EndOf
  <2> QED BY <1>4, <2>1, <2>2
<1>6. IsFiniteSet(recent)
  <2>1. IsFiniteSet(DOMAIN history)
    BY FS_Interval
  <2> QED BY <2>1, FS_Subset
<1>7. Cardinality(p + 1 .. Len(history)) = Len(d)
  <2>1. Cardinality(p + 1 .. Len(history))
          = IF p + 1 > Len(history) THEN 0 ELSE Len(history) - (p + 1) + 1
    <3>1. p + 1 \in Int /\ Len(history) \in Int
      BY <1>2
    <3> QED BY <3>1, FS_Interval
  <2> QED BY <1>2, <2>1
<1>8. Cardinality(p + 1 .. Len(history)) <= Cardinality(recent)
  BY <1>5, <1>6, FS_Subset
<1> QED BY <1>7, <1>8 DEF Recent, d

\* One more pass while the window has room: with it, no more than brake_limit
\* lie within the window.
LEMMA RoomForOne ==
  ASSUME NEW w \in Seq(Nat), NEW history \in Seq(Nat), NEW t \in Nat, NEW n,
         EndOf(w, history, n), OutOfWindow(history, n, t), Allows(w, t)
  PROVE  Recent(Append(history, t), t) <= BrakeLimit
<1> DEFINE longer == Append(history, t)
           recent == {i \in DOMAIN longer : t - longer[i] <= BrakeWindowSec}
           d == DropStale(w, t)
<1>1. PICK p \in Nat : EndOf(d, history, p) /\ OutOfWindow(history, p, t)
  BY PoppedIsStale
<1>2. d \in Seq(Nat) /\ Len(d) < BrakeLimit
  BY DropStaleType DEF Allows
<1> HIDE DEF d
<1>3. /\ DOMAIN longer = 1 .. Len(history) + 1
      /\ \A i \in 1 .. Len(history) : longer[i] = history[i]
  BY AppendProperties
<1>4. Len(history) = p + Len(d) /\ Len(d) \in Nat /\ Len(history) \in Nat
  <2>1. Len(history) = p + Len(d)
    BY <1>1 DEF EndOf
  <2> QED BY <1>2, <2>1
<1> HIDE DEF longer
<1>5. recent \subseteq p + 1 .. Len(history) + 1
  <2> SUFFICES ASSUME NEW i \in recent PROVE i \in p + 1 .. Len(history) + 1
    OBVIOUS
  <2>1. i \in 1 .. Len(history) + 1 /\ t - longer[i] <= BrakeWindowSec
    BY <1>3
  <2>2. ASSUME i \in 1 .. p PROVE FALSE
    <3>1. /\ i \in 1 .. Len(history) /\ longer[i] = history[i] /\ history[i] \in Nat
      BY <1>3, <1>4, <2>2
    <3>2. t - history[i] > BrakeWindowSec
      BY <1>1, <2>2 DEF OutOfWindow
    <3> QED BY <2>1, <3>1, <3>2, BrakeAssumption
  <2> QED BY <1>4, <2>1, <2>2
<1>6. /\ IsFiniteSet(p + 1 .. Len(history) + 1)
      /\ Cardinality(p + 1 .. Len(history) + 1) = Len(d) + 1
  <2>1. /\ IsFiniteSet(p + 1 .. Len(history) + 1)
        /\ Cardinality(p + 1 .. Len(history) + 1)
             = IF p + 1 > Len(history) + 1 THEN 0 ELSE Len(history) + 1 - (p + 1) + 1
    <3> DEFINE e == Len(history) + 1
    <3>1. p + 1 \in Int /\ e \in Int
      BY <1>4
    <3> HIDE DEF e
    <3>2. /\ IsFiniteSet(p + 1 .. e)
          /\ Cardinality(p + 1 .. e) = IF p + 1 > e THEN 0 ELSE e - (p + 1) + 1
      BY <3>1, FS_Interval
    <3> QED BY <3>2 DEF e
  <2> QED BY <1>4, <2>1
<1>7. IsFiniteSet(recent) /\ Cardinality(recent) <= Len(d) + 1
  BY <1>5, <1>6, FS_Subset
<1>8. Cardinality(recent) \in Nat
  BY <1>7, FS_CardinalityType
<1> HIDE DEF recent
<1>9. Cardinality(recent) <= BrakeLimit
  BY <1>2, <1>4, <1>7, <1>8, BrakeAssumption
<1> QED BY <1>9 DEF Recent, recent, longer

\* Time passes: the history stays in order, what is stale stays so.
LEMMA LaterStill ==
  ASSUME NEW history \in Seq(Nat), NEW t \in Nat, NEW u \in Nat, t <= u
  PROVE  /\ Ordered(history, t) => Ordered(history, u)
         /\ \A n \in 0 .. Len(history) :
               OutOfWindow(history, n, t) => OutOfWindow(history, n, u)
<1>1. \A i \in 1 .. Len(history) : history[i] \in Nat
  OBVIOUS
<1>2. Ordered(history, t) => Ordered(history, u)
  BY <1>1 DEF Ordered
<1>3. ASSUME NEW n \in 0 .. Len(history), OutOfWindow(history, n, t)
      PROVE  OutOfWindow(history, n, u)
  BY <1>1, <1>3, BrakeAssumption DEF OutOfWindow
<1> QED BY <1>2, <1>3

\* A pass is entered in the history and in the window.
LEMMA PassEntered ==
  ASSUME NEW history \in Seq(Nat), NEW t \in Nat
  PROVE  /\ Ordered(history, t) => Ordered(Append(history, t), t)
         /\ \A w \in Seq(Nat) : \A n : EndOf(w, history, n) =>
              /\ EndOf(Append(w, t), Append(history, t), n)
              /\ OutOfWindow(history, n, t) => OutOfWindow(Append(history, t), n, t)
<1>1. /\ DOMAIN Append(history, t) = 1 .. Len(history) + 1
      /\ Len(Append(history, t)) = Len(history) + 1
      /\ Append(history, t)[Len(history) + 1] = t
      /\ \A i \in 1 .. Len(history) : Append(history, t)[i] = history[i]
      /\ \A i \in 1 .. Len(history) : history[i] \in Nat
      /\ Len(history) \in Nat
  BY AppendProperties
<1>2. Ordered(history, t) => Ordered(Append(history, t), t)
  <2> SUFFICES ASSUME Ordered(history, t) PROVE Ordered(Append(history, t), t)
    OBVIOUS
  <2>1. \A i \in 1 .. Len(history) : history[i] <= t
    BY DEF Ordered
  <2>2. \A i, j \in 1 .. Len(history) : i <= j => history[i] <= history[j]
    BY DEF Ordered
  <2>3. \A i \in 1 .. Len(history) + 1 : Append(history, t)[i] <= t
    BY <1>1, <2>1
  <2>4. \A i, j \in 1 .. Len(history) + 1 :
          i <= j => Append(history, t)[i] <= Append(history, t)[j]
    <3> TAKE i, j \in 1 .. Len(history) + 1
    <3>1. CASE j = Len(history) + 1
      BY <1>1, <2>3, <3>1
    <3>2. CASE j \in 1 .. Len(history)
      BY <1>1, <2>2, <3>2
    <3> QED BY <1>1, <3>1, <3>2
  <2> QED BY <1>1, <2>3, <2>4 DEF Ordered
<1>3. ASSUME NEW w \in Seq(Nat), NEW n, EndOf(w, history, n)
      PROVE  /\ EndOf(Append(w, t), Append(history, t), n)
             /\ OutOfWindow(history, n, t) => OutOfWindow(Append(history, t), n, t)
  <2>1. /\ Len(Append(w, t)) = Len(w) + 1 /\ Len(w) \in Nat
        /\ Append(w, t)[Len(w) + 1] = t
        /\ \A i \in 1 .. Len(w) : Append(w, t)[i] = w[i]
    BY AppendProperties
  <2>2. /\ n \in Nat /\ Len(history) = n + Len(w)
        /\ \A i \in 1 .. Len(w) : w[i] = history[n + i] /\ n + i \in 1 .. Len(history)
    BY <1>3 DEF EndOf
  <2>3. \A i \in 1 .. Len(w) + 1 : Append(w, t)[i] = Append(history, t)[n + i]
    <3> TAKE i \in 1 .. Len(w) + 1
    <3>1. CASE i = Len(w) + 1
      BY <1>1, <2>1, <2>2, <3>1
    <3>2. CASE i \in 1 .. Len(w)
      BY <1>1, <2>1, <2>2, <3>2
    <3>3. i = Len(w) + 1 \/ i \in 1 .. Len(w)
      BY <2>1
    <3> QED BY <3>1, <3>2, <3>3
  <2>4. EndOf(Append(w, t), Append(history, t), n)
    <3>1. Len(Append(history, t)) = n + Len(Append(w, t))
      BY <1>1, <2>1, <2>2
    <3>2. \A i \in 1 .. Len(Append(w, t)) : Append(w, t)[i] = Append(history, t)[n + i]
      BY <2>1, <2>3
    <3> QED BY <2>2, <3>1, <3>2, Zenon DEF EndOf
  <2>5. \A i \in 1 .. n : i \in 1 .. Len(history)
    BY <2>1, <2>2
  <2> QED BY <1>1, <2>4, <2>5 DEF OutOfWindow
<1> QED BY <1>2, <1>3

\* How many are recent is a number.
LEMMA RecentNat ==
  ASSUME NEW history \in Seq(Nat), NEW t \in Nat PROVE Recent(history, t) \in Nat
<1> DEFINE recent == {i \in DOMAIN history : t - history[i] <= BrakeWindowSec}
<1>1. IsFiniteSet(1 .. Len(history))
  BY FS_Interval
<1>2. recent \subseteq 1 .. Len(history)
  OBVIOUS
<1>3. IsFiniteSet(recent)
  BY <1>1, <1>2, FS_Subset
<1> QED BY <1>3, FS_CardinalityType DEF Recent

\* No pass of the history was one too many when it happened.
Within(history) ==
    \A i \in DOMAIN history :
        Recent(SubSeq(history, 1, i), history[i]) <= BrakeLimit

\* The window is an end of the history.
Tracks(w, history) == \E n \in Nat : EndOf(w, history, n)

\* It has all that still counts.
Complete(w, history, t) ==
    \E n \in Nat : EndOf(w, history, n) /\ OutOfWindow(history, n, t)

\* What a step may do to a window w and the history: leave them, or erase the
\* window if it is one that forgets; stop a publication; let one pass.
Moves(w, history, t, w2, history2, t2, braking, forgets) ==
    \/ /\ history2 = history /\ t <= t2
       /\ w2 = w \/ (forgets /\ w2 = << >>)
    \/ /\ history2 = history /\ t2 = t
       /\ braking /\ ~Allows(w, t) /\ w2 = DropStale(w, t)
    \/ /\ history2 = Append(history, t) /\ t2 = t
       /\ braking => Allows(w, t) /\ w2 = Append(DropStale(w, t), t)

\* What becomes of windows and histories that were in order.
Moved(w, history, t, w2, history2, t2, braking, forgets) ==
    /\ Ordered(history, t) => Ordered(history2, t2)
    /\ braking /\ Tracks(w, history) => Tracks(w2, history2)
    /\ braking /\ ~forgets /\ Complete(w, history, t) /\ Within(history) =>
         Complete(w2, history2, t2) /\ Within(history2)

LEMMA WithinOneMore ==
  ASSUME NEW history \in Seq(Nat), NEW t \in Nat, Within(history),
         Recent(Append(history, t), t) <= BrakeLimit
  PROVE  Within(Append(history, t))
<1> DEFINE longer == Append(history, t)
<1>1. /\ DOMAIN longer = 1 .. Len(history) + 1
      /\ Len(longer) = Len(history) + 1 /\ Len(history) \in Nat
      /\ longer[Len(history) + 1] = t
      /\ \A i \in 1 .. Len(history) : longer[i] = history[i]
      /\ longer \in Seq(Nat)
  BY AppendProperties
<1> HIDE DEF longer
<1>2. SubSeq(longer, 1, Len(history) + 1) = longer
  BY <1>1, SubSeqFull
<1>3. ASSUME NEW i \in 1 .. Len(history)
      PROVE  SubSeq(longer, 1, i) = SubSeq(history, 1, i)
  <2>1. i \in Nat /\ i <= Len(history)
    BY <1>1
  <2>2. /\ \A j \in 1 .. i : longer[j] \in Nat /\ history[j] \in Nat
        /\ \A j \in 1 .. i : longer[j] = history[j]
    <3> SUFFICES ASSUME NEW j \in 1 .. i
                 PROVE  longer[j] = history[j] /\ history[j] \in Nat
      OBVIOUS
    <3>1. j \in 1 .. Len(history)
      BY <1>1, <2>1
    <3> QED BY <1>1, <3>1
  <2>3. /\ Len(SubSeq(longer, 1, i)) = i /\ Len(SubSeq(history, 1, i)) = i
        /\ SubSeq(longer, 1, i) \in Seq(Nat) /\ SubSeq(history, 1, i) \in Seq(Nat)
        /\ \A j \in 1 .. i : SubSeq(longer, 1, i)[j] = longer[j]
        /\ \A j \in 1 .. i : SubSeq(history, 1, i)[j] = history[j]
    BY <2>1, <2>2
  <2> QED BY <2>2, <2>3, SeqEqual
<1>4. \A i \in 1 .. Len(history) : Recent(SubSeq(history, 1, i), history[i]) <= BrakeLimit
  BY DEF Within
<1>5. \A i \in 1 .. Len(history) + 1 :
        Recent(SubSeq(longer, 1, i), longer[i]) <= BrakeLimit
  <2> TAKE i \in 1 .. Len(history) + 1
  <2>1. CASE i = Len(history) + 1
    BY <1>1, <1>2, <2>1 DEF longer
  <2>2. CASE i \in 1 .. Len(history)
    BY <1>1, <1>3, <1>4, <2>2
  <2> QED BY <1>1, <2>1, <2>2
<1> QED BY <1>1, <1>5 DEF Within, longer

LEMMA BrakeMoves ==
  ASSUME NEW w \in Seq(Nat), NEW history \in Seq(Nat), NEW t \in Nat,
         NEW w2, NEW history2, NEW t2 \in Nat, NEW braking, NEW forgets,
         Moves(w, history, t, w2, history2, t2, braking, forgets)
  PROVE  Moved(w, history, t, w2, history2, t2, braking, forgets)
<1>1. CASE history2 = history /\ t <= t2 /\ (w2 = w \/ (forgets /\ w2 = << >>))
  <2>1. Ordered(history, t) => Ordered(history, t2)
    BY <1>1, LaterStill
  <2>2. EndOf(<< >>, history, Len(history))
    BY DEF EndOf
  <2>3. Tracks(<< >>, history)
    BY <2>2 DEF Tracks
  <2>4. Complete(w, history, t) => Complete(w, history, t2)
    <3>1. \A n \in Nat : EndOf(w, history, n) => n \in 0 .. Len(history)
      BY DEF EndOf
    <3> QED BY <1>1, <3>1, LaterStill DEF Complete
  <2> QED BY <1>1, <2>1, <2>3, <2>4 DEF Moved
<1>2. CASE history2 = history /\ t2 = t /\ w2 = DropStale(w, t)
  <2>1. Tracks(w, history) => Tracks(w2, history)
    BY <1>2, PoppedIsStale DEF Tracks
  <2>2. Complete(w, history, t) => Complete(w2, history, t)
    BY <1>2, PoppedIsStale DEF Complete
  <2> QED BY <1>2, <2>1, <2>2 DEF Moved
<1>3. CASE /\ history2 = Append(history, t) /\ t2 = t
           /\ braking => Allows(w, t) /\ w2 = Append(DropStale(w, t), t)
  <2>1. Ordered(history, t) => Ordered(history2, t2)
    BY <1>3, PassEntered
  <2>2. DropStale(w, t) \in Seq(Nat)
    BY DropStaleType
  <2>3. ASSUME braking, Tracks(w, history) PROVE Tracks(w2, history2)
    <3>1. PICK n \in Nat : EndOf(w, history, n)
      BY <2>3 DEF Tracks
    <3>2. PICK p \in Nat : EndOf(DropStale(w, t), history, p)
      BY <3>1, PoppedIsStale
    <3>3. w2 = Append(DropStale(w, t), t)
      BY <1>3, <2>3
    <3>4. EndOf(Append(DropStale(w, t), t), Append(history, t), p)
      BY <2>2, <3>2, PassEntered
    <3> QED BY <1>3, <3>3, <3>4 DEF Tracks
  <2>4. ASSUME braking, Complete(w, history, t), Within(history)
        PROVE  Complete(w2, history2, t2) /\ Within(history2)
    <3>1. PICK n \in Nat : EndOf(w, history, n) /\ OutOfWindow(history, n, t)
      BY <2>4 DEF Complete
    <3>2. PICK p \in Nat : EndOf(DropStale(w, t), history, p) /\ OutOfWindow(history, p, t)
      BY <3>1, PoppedIsStale
    <3>3. Complete(w2, history2, t2)
      BY <1>3, <2>2, <2>4, <3>2, PassEntered DEF Complete
    <3>4. Recent(Append(history, t), t) <= BrakeLimit
      BY <1>3, <2>4, <3>1, RoomForOne
    <3> QED BY <1>3, <2>4, <3>3, <3>4, WithinOneMore
  <2> QED BY <2>1, <2>3, <2>4 DEF Moved
<1> QED BY <1>1, <1>2, <1>3 DEF Moves

\* The windows and the histories of a broker, per direction.
Directions == {"up", "local"}
Brakes(d) == IF d = "up" THEN BrakesUpward ELSE BrakesLocal
Window(b, d, k, q) ==
    IF d = "up" THEN brake_count_up[b][k][q] ELSE brake_count_local[b][k][q]
Passes(b, d, k, q) == passed[b][d][k][q]

LEMMA WindowTypes ==
  ASSUME TypeOK, NEW b \in Brokers, NEW d \in Directions, NEW k \in Keys,
         NEW q \in Quadrants
  PROVE  Window(b, d, k, q) \in Seq(Nat) /\ Passes(b, d, k, q) \in Seq(Nat)
<1>1. Window(b, d, k, q) \in Seq(Nat)
  BY DEF TypeOK, BrakeTypes, Windows, Window
<1>2. passed[b][d] \in Windows
  BY DEF TypeOK, HistoryTypes, Directions
<1> QED BY <1>1, <1>2 DEF Windows, Passes

\* A kill, or a cleanup that finds an expired group, erases windows.
Forgets ==
    \E b \in Brokers :
      Crash(b) \/ (Sweep(b) /\ CleanupDue(b) /\ Expired(b) # {})

\* What every step does to every window and its history.
BrakeStep(b, d, k, q) ==
    Moves(Window(b, d, k, q), Passes(b, d, k, q), now,
          Window(b, d, k, q)', Passes(b, d, k, q)', now', Brakes(d), Forgets)
BrakeSteps ==
    \A b \in Brokers : \A d \in Directions : \A k \in Keys : \A q \in Quadrants :
      BrakeStep(b, d, k, q)

\* A step that leaves histories and windows.
LEMMA StillBrakes ==
  ASSUME TypeOK, UNCHANGED <<brakeVars, passed>>, now' = now \/ now' = now + 1
  PROVE  BrakeSteps
<1>1. now \in Nat /\ now <= now'
  BY DEF TypeOK, ProcessTypes
<1> QED BY <1>1 DEF BrakeSteps, BrakeStep, Moves, Window, Passes, brakeVars

\* handlePublish: one history and one window per direction.
LEMMA PublishBrakes ==
  ASSUME TypeOK, NEW b \in Brokers, NEW m \in PublishMsg, NEW from, NEW upIn,
         NEW downIn, HandlePublish(b, m, from, upIn, downIn)
  PROVE  BrakeSteps
<1>1. PICK k \in Keys : k = PubKey(b, m, from)
  BY PubKeyType
<1>2. PICK q \in Quadrants : q = Hemisphere(m.pos)
  BY HemisphereType DEF PublishMsg
<1> DEFINE upward == PassesUp(b, k, m, from)
           local == PassesLocal(b, k, m)
           goes(d) == IF d = "up" THEN upward ELSE local
           asked(d) == IF d = "up" THEN Climbs(b, from) /\ BrakesUpward
                       ELSE subscribers[b][k] # << >> /\ BrakesLocal
<1>3. /\ brake_count_up' = [brake_count_up EXCEPT ![b] =
           Consult(@, Climbs(b, from) /\ BrakesUpward, k, q)]
      /\ brake_count_local' = [brake_count_local EXCEPT ![b] =
           Consult(@, subscribers[b][k] # << >> /\ BrakesLocal, k, q)]
      /\ passed' = PassedAfter(b, k, q, upward, local)
      /\ now' = now
  BY <1>1, <1>2 DEF HandlePublish, LoopBody
<1>4. /\ now \in Nat
      /\ brake_count_up \in [Brokers -> [Keys -> [Quadrants -> Seq(Nat)]]]
      /\ brake_count_local \in [Brokers -> [Keys -> [Quadrants -> Seq(Nat)]]]
      /\ passed \in [Brokers -> [Directions -> [Keys -> [Quadrants -> Seq(Nat)]]]]
  BY DEF TypeOK, ProcessTypes, BrakeTypes, HistoryTypes, Windows, Directions
<1>5. ASSUME NEW d \in Directions
      PROVE  /\ goes(d) => (Brakes(d) => asked(d) /\ Allows(Window(b, d, k, q), now))
             /\ ~goes(d) /\ asked(d) => Brakes(d) /\ ~Allows(Window(b, d, k, q), now)
  <2>1. CASE d = "up"
    BY <1>2, <2>1 DEF PassesUp, Brakes, Window
  <2>2. CASE d = "local"
    BY <1>2, <2>2 DEF PassesLocal, Brakes, Window
  <2> QED BY <2>1, <2>2 DEF Directions
<1> HIDE DEF upward, local
<1>6. ASSUME NEW a \in Brokers, NEW d \in Directions, NEW l \in Keys, NEW r \in Quadrants
      PROVE  Passes(a, d, l, r)' =
               IF a = b /\ l = k /\ r = q /\ goes(d) THEN Append(Passes(a, d, l, r), now)
               ELSE Passes(a, d, l, r)
  <2>1. CASE a # b
    BY <1>3, <1>4, <2>1 DEF PassedAfter, Passes
  <2>2. CASE a = b
    <3>1. passed'[b][d] = IF goes(d)
                          THEN [passed[b][d] EXCEPT ![k][q] = Append(@, now)]
                          ELSE passed[b][d]
      BY <1>3, <1>4 DEF PassedAfter, Directions
    <3>2. passed[b][d] \in [Keys -> [Quadrants -> Seq(Nat)]]
      BY <1>4
    <3> QED BY <2>2, <3>1, <3>2 DEF Passes
  <2> QED BY <2>1, <2>2
<1>7. ASSUME NEW a \in Brokers, NEW d \in Directions, NEW l \in Keys, NEW r \in Quadrants
      PROVE  Window(a, d, l, r)' =
               IF a = b /\ l = k /\ r = q /\ asked(d)
               THEN Consulted(Window(a, d, l, r), now) ELSE Window(a, d, l, r)
  <2>1. brake_count_up'[a][l][r] =
          IF a = b /\ l = k /\ r = q /\ asked("up")
          THEN Consulted(brake_count_up[a][l][r], now) ELSE brake_count_up[a][l][r]
    <3>1. brake_count_up'[b] = IF asked("up")
                         THEN [brake_count_up[b] EXCEPT ![k][q] = Consulted(@, now)]
                         ELSE brake_count_up[b]
      BY <1>3, <1>4 DEF Consult
    <3>2. a # b => brake_count_up'[a] = brake_count_up[a]
      BY <1>3, <1>4
    <3>3. brake_count_up[b] \in [Keys -> [Quadrants -> Seq(Nat)]]
      BY <1>4
    <3> HIDE DEF asked
    <3>4. CASE asked("up")
      BY <3>1, <3>2, <3>3, <3>4
    <3>5. CASE ~asked("up")
      BY <3>1, <3>2, <3>5
    <3> QED BY <3>4, <3>5
  <2>2. brake_count_local'[a][l][r] =
          IF a = b /\ l = k /\ r = q /\ asked("local")
          THEN Consulted(brake_count_local[a][l][r], now) ELSE brake_count_local[a][l][r]
    <3>1. brake_count_local'[b] = IF asked("local")
                         THEN [brake_count_local[b] EXCEPT ![k][q] = Consulted(@, now)]
                         ELSE brake_count_local[b]
      BY <1>3, <1>4 DEF Consult
    <3>2. a # b => brake_count_local'[a] = brake_count_local[a]
      BY <1>3, <1>4
    <3>3. brake_count_local[b] \in [Keys -> [Quadrants -> Seq(Nat)]]
      BY <1>4
    <3> HIDE DEF asked
    <3>4. CASE asked("local")
      BY <3>1, <3>2, <3>3, <3>4
    <3>5. CASE ~asked("local")
      BY <3>1, <3>2, <3>5
    <3> QED BY <3>4, <3>5
  <2>3. CASE d = "up"
    BY <2>1, <2>3 DEF Window
  <2>4. CASE d = "local"
    BY <2>2, <2>4 DEF Window
  <2> QED BY <2>3, <2>4 DEF Directions
<1> HIDE DEF goes, asked
<1> SUFFICES ASSUME NEW a \in Brokers, NEW d \in Directions, NEW l \in Keys,
                    NEW r \in Quadrants
             PROVE  BrakeStep(a, d, l, r)
  BY DEF BrakeSteps
<1>8. CASE ~(a = b /\ l = k /\ r = q)
  <2>1. Passes(a, d, l, r)' = Passes(a, d, l, r)
    BY <1>6, <1>8
  <2>2. Window(a, d, l, r)' = Window(a, d, l, r)
    BY <1>7, <1>8
  <2>3. now <= now'
    BY <1>3, <1>4
  <2> QED BY <2>1, <2>2, <2>3 DEF BrakeStep, Moves
<1>9. CASE a = b /\ l = k /\ r = q
  <2> DEFINE w == Window(b, d, k, q)
  <2>1. CASE goes(d)
    <3>1. Passes(b, d, k, q)' = Append(Passes(b, d, k, q), now)
      BY <1>6, <2>1
    <3>2. Brakes(d) => Allows(w, now) /\ Window(b, d, k, q)' = Consulted(w, now)
      BY <1>5, <1>7, <2>1
    <3>3. Brakes(d) =>
            Allows(w, now) /\ Window(b, d, k, q)' = Append(DropStale(w, now), now)
      BY <3>2 DEF Consulted
    <3> QED BY <1>3, <1>9, <3>1, <3>3 DEF BrakeStep, Moves
  <2>2. CASE ~goes(d) /\ asked(d)
    <3>1. Passes(b, d, k, q)' = Passes(b, d, k, q)
      BY <1>6, <2>2
    <3>2. /\ Brakes(d) /\ ~Allows(w, now) /\ Window(b, d, k, q)' = Consulted(w, now)
      BY <1>5, <1>7, <2>2
    <3>3. Window(b, d, k, q)' = DropStale(w, now)
      BY <3>2 DEF Consulted
    <3> QED BY <1>3, <1>9, <3>1, <3>2, <3>3 DEF BrakeStep, Moves
  <2>3. CASE ~goes(d) /\ ~asked(d)
    <3>1. Passes(b, d, k, q)' = Passes(b, d, k, q) /\ Window(b, d, k, q)' = w
      BY <1>6, <1>7, <2>3
    <3>2. now <= now'
      BY <1>3, <1>4
    <3> QED BY <1>9, <3>1, <3>2 DEF BrakeStep, Moves
  <2> QED BY <2>1, <2>2, <2>3
<1> QED BY <1>8, <1>9

\* A kill and a cleanup leave each window or erase it.
LEMMA ErasedWindows ==
  ASSUME TypeOK, NEW b \in Brokers, Crash(b) \/ Sweep(b)
  PROVE  BrakeSteps
<1>1. /\ now \in Nat
      /\ brake_count_up \in [Brokers -> [Keys -> [Quadrants -> Seq(Nat)]]]
      /\ brake_count_local \in [Brokers -> [Keys -> [Quadrants -> Seq(Nat)]]]
  BY DEF TypeOK, ProcessTypes, BrakeTypes, Windows
<1>2. UNCHANGED <<now, passed>>
  BY DEF Crash, Sweep, worldVars, historyVars
<1>3. ASSUME NEW a \in Brokers, NEW k \in Keys, NEW q \in Quadrants
      PROVE  /\ \/ brake_count_up'[a][k][q] = brake_count_up[a][k][q]
                \/ Forgets /\ brake_count_up'[a][k][q] = << >>
             /\ \/ brake_count_local'[a][k][q] = brake_count_local[a][k][q]
                \/ Forgets /\ brake_count_local'[a][k][q] = << >>
  <2>1. CASE Crash(b)
    <3>1. /\ brake_count_up' = [brake_count_up EXCEPT ![b] = EmptyWindows]
          /\ brake_count_local' = [brake_count_local EXCEPT ![b] = EmptyWindows]
      BY <2>1 DEF Crash
    <3>2. Forgets
      BY <2>1 DEF Forgets
    <3> QED BY <1>1, <3>1, <3>2 DEF EmptyWindows
  <2>2. CASE Sweep(b) /\ CleanupDue(b)
    <3>1. PICK dead \in SUBSET Keys : dead = Expired(b)
      BY DEF Expired
    <3>2. PICK none : none = [r \in Quadrants |-> << >>]
      OBVIOUS
    <3>3. /\ brake_count_up' = Without(brake_count_up, b, dead, none)
          /\ brake_count_local' = Without(brake_count_local, b, dead, none)
      BY <2>2, <3>1, <3>2 DEF Sweep, cleanupExpired
    <3>4. dead # {} => Forgets
      BY <2>2, <3>1 DEF Forgets
    <3> QED BY <1>1, <3>2, <3>3, <3>4 DEF Without
  <2>3. CASE Sweep(b) /\ ~CleanupDue(b)
    BY <2>3 DEF Sweep
  <2> QED BY <2>1, <2>2, <2>3
<1> SUFFICES ASSUME NEW a \in Brokers, NEW d \in Directions, NEW k \in Keys,
                    NEW q \in Quadrants
             PROVE  BrakeStep(a, d, k, q)
  BY DEF BrakeSteps
<1>4. \/ Window(a, d, k, q)' = Window(a, d, k, q)
      \/ Forgets /\ Window(a, d, k, q)' = << >>
  BY <1>3 DEF Window
<1>5. Passes(a, d, k, q)' = Passes(a, d, k, q) /\ now' = now /\ now <= now
  BY <1>1, <1>2 DEF Passes
<1> QED BY <1>4, <1>5 DEF BrakeStep, Moves

\* The other steps are still.
LEMMA NextBrakes ==
  ASSUME TypeOK, [Next]_vars
  PROVE  BrakeSteps
<1>1. CASE Publishing
  BY <1>1, Published, PublishBrakes
  DEF Publishing, ChildPublish, ParentPublish
<1>2. CASE \E b \in Brokers : Crash(b) \/ Sweep(b)
  BY <1>2, ErasedWindows
<1>3. ASSUME NEW b \in Brokers, Starts(b) PROVE BrakeSteps
  <2>1. UNCHANGED <<brakeVars, passed, now>>
    BY <1>3 DEF Starts, Bind, GenerateKey, WriteKeyFile, UnlinkFullKeyFile,
    WriteFullKeyFile, LoadKey, FailFast,
       tableVars, worldVars, historyVars
  <2> QED BY <2>1, StillBrakes
<1>4. ASSUME NEW b \in Brokers,
             \/ Hello(b) \/ ChildSubscribe(b) \/ ChildRegion(b) \/ HelloAck(b)
             \/ EpollTimeout(b) \/ StatsRequest(b) \/ LoseUp(b) \/ LoseDown(b)
      PROVE  BrakeSteps
  <2>1. Hello(b) \/ ChildSubscribe(b) \/ ChildRegion(b) => UNCHANGED <<brakeVars, passed, now>>
    BY DEF Hello, ChildSubscribe, ChildRegion, LoopBody, historyVars
  <2>2. HelloAck(b) \/ EpollTimeout(b) \/ StatsRequest(b)
          => UNCHANGED <<brakeVars, passed, now>>
    BY DEF HelloAck, EpollTimeout, StatsRequest, LoopBody, historyVars
  <2>3. LoseUp(b) \/ LoseDown(b) => UNCHANGED <<brakeVars, passed, now>>
    BY DEF LoseUp, LoseDown, tableVars, historyVars
  <2> QED BY <1>4, <2>1, <2>2, <2>3, StillBrakes
<1>5. CASE FromClients /\ ~Publishing
  <2>1. \A s : ClientSubscribe(s) => UNCHANGED <<brakeVars, passed, now>>
    BY DEF ClientSubscribe, LoopBody
  <2>2. \A h : Heartbeat(h) => UNCHANGED <<brakeVars, passed, now>>
    BY DEF Heartbeat, LoopBody
  <2> QED BY <1>5, <2>1, <2>2, StillBrakes DEF FromClients, Publishing
<1>6. CASE Tick \/ UNCHANGED vars
  <2>1. UNCHANGED <<brakeVars, passed>> /\ (now' = now \/ now' = now + 1)
    BY <1>6 DEF Tick, vars, tableVars, worldVars, historyVars
  <2> QED BY <2>1, StillBrakes
<1> QED
  BY <1>1, <1>2, <1>3, <1>4, <1>5, <1>6 DEF Next, FromChild, FromParent, Publishing

\* What b counts as braked in direction d.
Braked(b, d) == IF d = "up" THEN stat[b].braked_up ELSE stat[b].braked_local

\* handlePublish counts a publication as braked in a direction only when the
\* window of its own key and quadrant is full.
LEMMA PublishCounts ==
  ASSUME TypeOK, NEW b \in Brokers, NEW m \in PublishMsg, NEW from, NEW upIn,
         NEW downIn, HandlePublish(b, m, from, upIn, downIn),
         NEW a \in Brokers, NEW d \in Directions, Braked(a, d)' > Braked(a, d)
  PROVE  /\ a = b /\ Brakes(d)
         /\ \E k \in Keys : \E q \in Quadrants :
              /\ k = PubKey(b, m, from) /\ q = Hemisphere(m.pos)
              /\ ~Allows(Window(a, d, k, q), now)
<1>1. PICK k \in Keys : k = PubKey(b, m, from)
  BY PubKeyType
<1>2. PICK q \in Quadrants : q = Hemisphere(m.pos)
  BY HemisphereType DEF PublishMsg
<1>3. PICK hit : stat' = [stat EXCEPT ![b] = StatAfter(b, k, m, from, hit)]
  BY <1>1 DEF HandlePublish
<1>4. stat \in [Brokers -> [Counters -> Nat]]
  BY DEF TypeOK, Stats
<1>5. a = b
  <2> SUFFICES ASSUME a # b PROVE FALSE
    OBVIOUS
  <2>1. stat'[a] = stat[a]
    BY <1>3, <1>4
  <2>2. stat[a].braked_up \in Nat /\ stat[a].braked_local \in Nat
    BY <1>4 DEF Counters
  <2> QED BY <2>1, <2>2 DEF Braked
<1>6. /\ stat'[b].braked_up = stat[b].braked_up
                                + Bit(Climbs(b, from) /\ ~PassesUp(b, k, m, from))
      /\ stat'[b].braked_local = stat[b].braked_local
                                + Bit(subscribers[b][k] # << >> /\ ~PassesLocal(b, k, m))
  BY <1>3, <1>4 DEF StatAfter, CountUp, Counters
<1>7. stat[b].braked_up \in Nat /\ stat[b].braked_local \in Nat
  BY <1>4 DEF Counters
<1>8. CASE d = "up"
  <2>1. Climbs(b, from) /\ ~PassesUp(b, k, m, from)
    BY <1>5, <1>6, <1>7, <1>8 DEF Braked, Bit
  <2>2. BrakesUpward /\ ~Allows(brake_count_up[b][k][q], now)
    BY <1>2, <2>1 DEF PassesUp
  <2> QED BY <1>1, <1>2, <1>5, <1>8, <2>2 DEF Brakes, Window
<1>9. CASE d = "local"
  <2>1. subscribers[b][k] # << >> /\ ~PassesLocal(b, k, m)
    BY <1>5, <1>6, <1>7, <1>9 DEF Braked, Bit
  <2>2. BrakesLocal /\ ~Allows(brake_count_local[b][k][q], now)
    BY <1>2, <2>1 DEF PassesLocal
  <2> QED BY <1>1, <1>2, <1>5, <1>9, <2>2 DEF Brakes, Window
<1> QED BY <1>8, <1>9 DEF Directions

\* Nothing else counts as braked.
LEMMA OthersCount ==
  ASSUME TypeOK, [Next]_vars, ~Publishing, NEW a \in Brokers, NEW d \in Directions
  PROVE  ~(Braked(a, d)' > Braked(a, d))
<1>1. /\ stat \in [Brokers -> [Counters -> Nat]]
      /\ {"braked_up", "braked_local"} \subseteq Counters
  BY DEF TypeOK, Stats, Counters
<1>2. Braked(a, d) \in Nat
  BY <1>1 DEF Braked
<1>3. ASSUME UNCHANGED stat PROVE ~(Braked(a, d)' > Braked(a, d))
  BY <1>2, <1>3 DEF Braked
<1>4. ASSUME NEW b \in Brokers, stat' = [stat EXCEPT ![b].sub_received = @ + 1]
      PROVE  ~(Braked(a, d)' > Braked(a, d))
  <2>1. stat[b] \in [Counters -> Nat] /\ stat[a] \in [Counters -> Nat]
    BY <1>1
  <2>2. stat'[a].braked_up = stat[a].braked_up /\ stat'[a].braked_local = stat[a].braked_local
    BY <1>1, <1>4, <2>1
  <2> QED BY <1>2, <2>2 DEF Braked
<1>5. ASSUME NEW s \in Subscriptions, ClientSubscribe(s)
      PROVE  ~(Braked(a, d)' > Braked(a, d))
  <2>1. s.broker \in Brokers
    BY BrokerAssumption DEF SubscriptionType
  <2> QED BY <1>4, <1>5, <2>1 DEF ClientSubscribe
<1>6. \A h : Heartbeat(h) => UNCHANGED stat
  BY DEF Heartbeat
<1>7. ASSUME NEW c \in Brokers, ChildSubscribe(c)
      PROVE  ~(Braked(a, d)' > Braked(a, d))
  <2>1. Parent[c] \in Brokers
    BY <1>7, BrokerAssumption DEF ChildSubscribe, Bound
  <2> QED BY <1>4, <1>7, <2>1 DEF ChildSubscribe
<1>8. ASSUME NEW b \in Brokers, StatsRequest(b)
      PROVE  ~(Braked(a, d)' > Braked(a, d))
  <2>1. stat' = [stat EXCEPT ![b].sub_groups = Cardinality(Groups(b)),
                             ![b].he_mode = Bit(he_enabled(b))]
    BY <1>8 DEF StatsRequest
  <2>2. stat[b] \in [Counters -> Nat] /\ stat[a] \in [Counters -> Nat]
    BY <1>1
  <2>3. stat'[a].braked_up = stat[a].braked_up /\ stat'[a].braked_local = stat[a].braked_local
    BY <1>1, <2>1, <2>2
  <2> QED BY <1>2, <2>3 DEF Braked
<1>9. ASSUME NEW b \in Brokers, Crash(b) PROVE ~(Braked(a, d)' > Braked(a, d))
  <2>1. stat' = [stat EXCEPT ![b] = ZeroStats]
    BY <1>9 DEF Crash
  <2>2. Braked(a, d)' = Braked(a, d) \/ Braked(a, d)' = 0
    BY <1>1, <2>1 DEF Braked, ZeroStats
  <2> QED BY <1>2, <2>2
<1>10. ASSUME NEW b \in Brokers,
              \/ Starts(b) \/ Hello(b) \/ ChildRegion(b) \/ HelloAck(b) \/ Sweep(b)
              \/ EpollTimeout(b) \/ LoseUp(b) \/ LoseDown(b)
       PROVE  UNCHANGED stat
  <2>1. Starts(b) => UNCHANGED stat
    BY DEF Starts, Bind, GenerateKey, WriteKeyFile, UnlinkFullKeyFile,
    WriteFullKeyFile, LoadKey, FailFast,
           tableVars
  <2>2. Hello(b) \/ ChildRegion(b) \/ HelloAck(b) => UNCHANGED stat
    BY DEF Hello, ChildRegion, HelloAck
  <2>3. Sweep(b) \/ EpollTimeout(b) => UNCHANGED stat
    BY DEF Sweep, EpollTimeout
  <2>4. LoseUp(b) \/ LoseDown(b) => UNCHANGED stat
    BY DEF LoseUp, LoseDown, tableVars
  <2> QED BY <1>10, <2>1, <2>2, <2>3, <2>4
<1>11. CASE Tick \/ UNCHANGED vars
  <2>1. UNCHANGED stat
    BY <1>11 DEF Tick, vars, tableVars
  <2> QED BY <1>3, <2>1
<1> QED
  BY <1>3, <1>5, <1>6, <1>7, <1>8, <1>9, <1>10, <1>11
  DEF Next, FromClients, FromChild, FromParent, Publishing

\* The inductive invariant: every window is an end of its history.
BrakeInv ==
    \A b \in Brokers : \A d \in Directions : \A k \in Keys : \A q \in Quadrants :
      /\ Ordered(Passes(b, d, k, q), now)
      /\ Brakes(d) => Tracks(Window(b, d, k, q), Passes(b, d, k, q))

LEMMA BrakeInvInit == Init => BrakeInv
<1> SUFFICES ASSUME Init, NEW b \in Brokers, NEW d \in Directions, NEW k \in Keys,
                    NEW q \in Quadrants
             PROVE  /\ Ordered(Passes(b, d, k, q), now)
                    /\ Tracks(Window(b, d, k, q), Passes(b, d, k, q))
  BY DEF BrakeInv
<1>1. Passes(b, d, k, q) = << >> /\ Window(b, d, k, q) = << >>
  BY DEF Init, Passes, Window, Directions, EmptyWindows
<1>2. Ordered(<< >>, now) /\ EndOf(<< >>, << >>, 0)
  BY DEF Ordered, EndOf
<1> QED BY <1>1, <1>2 DEF Tracks

LEMMA BrakeInvNext == ASSUME TypeOK, TypeOK', BrakeInv, [Next]_vars PROVE BrakeInv'
<1>1. BrakeSteps
  BY NextBrakes
<1> SUFFICES ASSUME NEW b \in Brokers, NEW d \in Directions, NEW k \in Keys,
                    NEW q \in Quadrants
             PROVE  /\ Ordered(Passes(b, d, k, q)', now')
                    /\ Brakes(d) => Tracks(Window(b, d, k, q)', Passes(b, d, k, q)')
  BY DEF BrakeInv, Brakes, BrakesUpward, BrakesLocal
<1>2. /\ Window(b, d, k, q) \in Seq(Nat) /\ Passes(b, d, k, q) \in Seq(Nat)
      /\ now \in Nat /\ now' \in Nat
  BY WindowTypes DEF TypeOK, ProcessTypes
<1>3. Moves(Window(b, d, k, q), Passes(b, d, k, q), now,
            Window(b, d, k, q)', Passes(b, d, k, q)', now', Brakes(d), Forgets)
  BY <1>1 DEF BrakeSteps, BrakeStep
<1>4. /\ Ordered(Passes(b, d, k, q), now)
      /\ Brakes(d) => Tracks(Window(b, d, k, q), Passes(b, d, k, q))
  BY DEF BrakeInv
<1>5. Moved(Window(b, d, k, q), Passes(b, d, k, q), now,
            Window(b, d, k, q)', Passes(b, d, k, q)', now', Brakes(d), Forgets)
  BY <1>2, <1>3, BrakeMoves
<1> QED BY <1>4, <1>5 DEF Moved

\* b files a publication whose own key and quadrant have brake_limit passes in
\* direction d within the window.
BrakedByItsOwn(b, d) ==
    \E k \in Keys :
      /\ Filed(b, k)
      /\ Recent(Passes(b, d, k, Hemisphere(Newest(b, k).pos)), now) >= BrakeLimit

LEMMA BrakedFull ==
  ASSUME TypeOK, BrakeInv, RouteInv, [Next]_vars, NEW b \in Brokers,
         NEW d \in Directions, Braked(b, d)' > Braked(b, d)
  PROVE  BrakedByItsOwn(b, d)
<1>1. Publishing
  BY OthersCount
<1>2. PICK a \in Brokers, m \in PublishMsg : \E from, upIn, downIn :
        HandlePublish(a, m, from, upIn, downIn) /\ New(a, m)
  BY <1>1, HandledNew
<1>3. PICK from, upIn, downIn : HandlePublish(a, m, from, upIn, downIn)
  BY <1>2
<1>4. PICK k \in Keys, q \in Quadrants :
        /\ b = a /\ Brakes(d) /\ k = PubKey(a, m, from) /\ q = Hemisphere(m.pos)
        /\ ~Allows(Window(b, d, k, q), now)
  BY <1>3, PublishCounts
<1>5. Filed(b, k) /\ Hemisphere(Newest(b, k).pos) = q
  <2>1. Filed(b, k) /\ Newest(b, k) = [pos |-> m.pos, id |-> m.id, bn |-> m.bn]
    BY <1>2, <1>3, <1>4, HandledFiled
  <2> QED BY <1>4, <2>1
<1>6. /\ Window(b, d, k, q) \in Seq(Nat) /\ Passes(b, d, k, q) \in Seq(Nat) /\ now \in Nat
  BY WindowTypes DEF TypeOK, ProcessTypes
<1>7. PICK n \in Nat : EndOf(Window(b, d, k, q), Passes(b, d, k, q), n)
  BY <1>4 DEF BrakeInv, Tracks
<1>8. Ordered(Passes(b, d, k, q), now)
  BY DEF BrakeInv
<1>9. Len(DropStale(Window(b, d, k, q), now)) <= Recent(Passes(b, d, k, q), now)
  BY <1>6, <1>7, <1>8, FullWindow
<1>10. ~(Len(DropStale(Window(b, d, k, q), now)) < BrakeLimit)
  BY <1>4 DEF Allows
<1>11. Len(DropStale(Window(b, d, k, q), now)) \in Nat
  BY <1>6, DropStaleType
<1>12. Recent(Passes(b, d, k, q), now) \in Nat
  BY <1>6, RecentNat
<1>13. Recent(Passes(b, d, k, q), now) >= BrakeLimit
  BY <1>9, <1>10, <1>11, <1>12, BrakeAssumption
<1> QED BY <1>5, <1>13 DEF BrakedByItsOwn

\* A publication is held back only when brake_limit others filed under its own
\* key and from its own quadrant passed in its direction within the window,
\* through cleanups, kills and restarts: the windows of the two directions are
\* independent, and the local one is spent only on publications somebody
\* subscribes to.
THEOREM BrakesOnlyWhenFull == Spec => BrakedOnlyAtLimit
<1>1. TypeOK /\ BrakeInv /\ RouteInv /\ [Next]_vars =>
        [\A b \in Brokers :
           /\ stat'[b].braked_up > stat[b].braked_up =>
                \E k \in Keys : /\ Filed(b, k)
                               /\ Recent(passed[b]["up"][k][Hemisphere(Newest(b, k).pos)],
                                         now) >= BrakeLimit
           /\ stat'[b].braked_local > stat[b].braked_local =>
                \E k \in Keys : /\ Filed(b, k)
                               /\ Recent(passed[b]["local"][k][Hemisphere(Newest(b, k).pos)],
                                         now) >= BrakeLimit]_stat
  <2> SUFFICES ASSUME TypeOK, BrakeInv, RouteInv, [Next]_vars, NEW b \in Brokers
               PROVE  /\ Braked(b, "up")' > Braked(b, "up") => BrakedByItsOwn(b, "up")
                      /\ Braked(b, "local")' > Braked(b, "local")
                           => BrakedByItsOwn(b, "local")
    BY DEF Braked, BrakedByItsOwn, Passes
  <2>1. "up" \in Directions /\ "local" \in Directions
    BY DEF Directions
  <2> QED BY <2>1, BrakedFull
<1>2. TypeOK /\ TypeOK' /\ BrakeInv /\ [Next]_vars => BrakeInv'
  BY BrakeInvNext
<1> QED
  BY <1>1, <1>2, BrakeInvInit, RoutesKnown, TypeCorrect, PTL DEF Spec, BrakedOnlyAtLimit

\* The same, where windows hold all that still counts.
RateInv ==
    \A b \in Brokers : \A d \in Directions : \A k \in Keys : \A q \in Quadrants :
      Brakes(d) => /\ Complete(Window(b, d, k, q), Passes(b, d, k, q), now)
                   /\ Within(Passes(b, d, k, q))

\* As long as no broker is killed and no group expires, at most brake_limit
\* publications of a service and quadrant pass in any window of
\* brake_window_sec (brakeAllows).  Both exceptions are real: they erase the
\* windows.
THEOREM RateHolds == Spec /\ [][~Forgets]_vars => []BrakeRate
<1>1. Init => RateInv
  <2> SUFFICES ASSUME Init, NEW b \in Brokers, NEW d \in Directions, NEW k \in Keys,
                      NEW q \in Quadrants
               PROVE  /\ Complete(Window(b, d, k, q), Passes(b, d, k, q), now)
                      /\ Within(Passes(b, d, k, q))
    BY DEF RateInv
  <2>1. Passes(b, d, k, q) = << >> /\ Window(b, d, k, q) = << >>
    BY DEF Init, Passes, Window, Directions, EmptyWindows
  <2>2. EndOf(<< >>, << >>, 0) /\ OutOfWindow(<< >>, 0, now) /\ Within(<< >>)
    BY DEF EndOf, OutOfWindow, Within
  <2> QED BY <2>1, <2>2 DEF Complete
<1>2. TypeOK /\ TypeOK' /\ RateInv /\ [Next]_vars /\ [~Forgets]_vars => RateInv'
  <2> SUFFICES ASSUME TypeOK, TypeOK', RateInv, [Next]_vars, [~Forgets]_vars,
                      NEW b \in Brokers, NEW d \in Directions, NEW k \in Keys,
                      NEW q \in Quadrants, Brakes(d)
               PROVE  /\ Complete(Window(b, d, k, q)', Passes(b, d, k, q)', now')
                      /\ Within(Passes(b, d, k, q)')
    BY DEF RateInv, Brakes, BrakesUpward, BrakesLocal
  <2>1. /\ Complete(Window(b, d, k, q), Passes(b, d, k, q), now)
        /\ Within(Passes(b, d, k, q))
    BY DEF RateInv
  <2>2. CASE UNCHANGED vars
    <3>1. UNCHANGED <<brakeVars, passed, now>>
      BY <2>2 DEF vars, tableVars, worldVars, historyVars
    <3> QED BY <2>1, <3>1 DEF Window, Passes, brakeVars
  <2>3. CASE ~Forgets
    <3>1. BrakeSteps
      BY NextBrakes
    <3>2. /\ Window(b, d, k, q) \in Seq(Nat) /\ Passes(b, d, k, q) \in Seq(Nat)
          /\ now \in Nat /\ now' \in Nat
      BY WindowTypes DEF TypeOK, ProcessTypes
    <3>3. Moves(Window(b, d, k, q), Passes(b, d, k, q), now,
                Window(b, d, k, q)', Passes(b, d, k, q)', now', Brakes(d), Forgets)
      BY <3>1 DEF BrakeSteps, BrakeStep
    <3>4. Moved(Window(b, d, k, q), Passes(b, d, k, q), now,
                Window(b, d, k, q)', Passes(b, d, k, q)', now', Brakes(d), Forgets)
      BY <3>2, <3>3, BrakeMoves
    <3> QED BY <2>1, <2>3, <3>4 DEF Moved
  <2> QED BY <2>2, <2>3
<1>3. RateInv => BrakeRate
  <2> SUFFICES ASSUME RateInv, NEW b \in Brokers, NEW k \in Keys, NEW q \in Quadrants
               PROVE  /\ BrakesUpward => Within(passed[b]["up"][k][q])
                      /\ BrakesLocal => Within(passed[b]["local"][k][q])
    BY DEF BrakeRate, Within
  <2>1. "up" \in Directions /\ "local" \in Directions /\ "up" # "local"
    BY DEF Directions
  <2> QED BY <2>1 DEF RateInv, Brakes, Passes
<1> QED BY <1>1, <1>2, <1>3, TypeCorrect, PTL DEF Spec

-----------------------------------------------------------------------------
\* Sums over the brokers, the way MapThenSumSet computes them.

\* The table that MapThenSumSet computes its sum with: one element after the
\* other leaves the set.
Some(s) == CHOOSE x \in s : TRUE
Row(it, F, s) == IF s = {} THEN 0 ELSE F[Some(s)] + it[s \ {Some(s)}]
SumTable(it, F) == it = [s \in SUBSET Brokers |-> Row(it, F, s)]

\* The sum of F over all brokers.
Total(F) == (CHOOSE it : SumTable(it, F))[Brokers]

\* Sizes of sets of brokers.
LEMMA Sizes ==
  /\ \A s \in SUBSET Brokers : Cardinality(s) \in Nat /\ Cardinality(s) <= Cardinality(Brokers)
  /\ \A s \in SUBSET Brokers : \A x \in s : Cardinality(s \ {x}) = Cardinality(s) - 1
  /\ \A s \in SUBSET Brokers : s # {} => Some(s) \in s
  /\ \A s \in SUBSET Brokers : Cardinality(s) = 0 => s = {}
<1>1. IsFiniteSet(Brokers)
  BY BrokerAssumption
<1>2. ASSUME NEW s \in SUBSET Brokers
      PROVE  /\ Cardinality(s) \in Nat /\ Cardinality(s) <= Cardinality(Brokers)
             /\ IsFiniteSet(s)
             /\ Cardinality(s) = 0 => s = {}
  BY <1>1, FS_Subset, FS_CardinalityType, FS_EmptySet
<1>3. ASSUME NEW s \in SUBSET Brokers, NEW x \in s
      PROVE  Cardinality(s \ {x}) = Cardinality(s) - 1
  BY <1>2, FS_RemoveElement
<1>4. ASSUME NEW s \in SUBSET Brokers, s # {} PROVE Some(s) \in s
  BY <1>4 DEF Some
<1> QED BY <1>2, <1>3, <1>4

\* The sum of a set is that of the set without one element, plus that element's.
InRows(it, F) ==
    \A s \in SUBSET Brokers : s # {} => it[s] = F[Some(s)] + it[s \ {Some(s)}]

\* A table by its rows.
LEMMA TableRows ==
  ASSUME NEW F, NEW it
  PROVE  SumTable(it, F) =>
           /\ it[{}] = 0
           /\ InRows(it, F)
<1> SUFFICES ASSUME SumTable(it, F)
             PROVE  \A s \in SUBSET Brokers : it[s] = Row(it, F, s)
  BY DEF Row, InRows
<1> QED BY DEF SumTable

\* Rows make a table.
LEMMA RowsTable ==
  ASSUME NEW F, NEW it \in [SUBSET Brokers -> Int], it[{}] = 0,
         \A s \in SUBSET Brokers :
            s # {} => it[s] = F[Some(s)] + it[s \ {Some(s)}]
  PROVE  SumTable(it, F)
<1>1. \A s \in SUBSET Brokers : it[s] = Row(it, F, s)
  BY DEF Row
<1> QED BY <1>1 DEF SumTable

\* Two tables of one function agree.
LEMMA OneTable ==
  ASSUME NEW F, NEW it, NEW jt, SumTable(it, F), SumTable(jt, F)
  PROVE  it = jt
<1> DEFINE Apart == {n \in Nat : \E s \in SUBSET Brokers :
                        Cardinality(s) = n /\ it[s] # jt[s]}
<1>1. CASE Apart = {}
  <2>1. \A s \in SUBSET Brokers : it[s] = jt[s]
    BY <1>1, Sizes
  <2> QED BY <2>1 DEF SumTable
<1>2. CASE Apart # {}
  <2>1. PICK n \in Apart : \A m \in Apart : n <= m
    <3>1. Apart \in SUBSET Nat
      OBVIOUS
    <3> HIDE DEF Apart
    <3> QED BY <1>2, <3>1, LeastElement
  <2>2. PICK s \in SUBSET Brokers : Cardinality(s) = n /\ it[s] # jt[s]
    BY <2>1
  <2>3. s # {}
    BY <2>2, TableRows
  <2>4. PICK x : x = Some(s) /\ x \in s
    BY <2>2, <2>3, Sizes
  <2>5. Cardinality(s \ {x}) = n - 1 /\ Cardinality(s \ {x}) \in Nat
    BY <2>2, <2>4, Sizes
  <2>6. it[s \ {x}] = jt[s \ {x}]
    <3>1. n - 1 \notin Apart
      BY <2>1
    <3> QED BY <2>5, <3>1
  <2>7. it[s] = F[x] + it[s \ {x}] /\ jt[s] = F[x] + jt[s \ {x}]
    <3>1. InRows(it, F) /\ InRows(jt, F)
      BY TableRows
    <3>2. Some(s) = x
      BY <2>4
    <3>3. it[s] = F[x] + it[s \ {x}]
      <4>1. it[s] = F[Some(s)] + it[s \ {Some(s)}]
        BY <2>2, <2>3, <3>1, Zenon DEF InRows
      <4> QED BY <3>2, <4>1, Zenon
    <3>4. jt[s] = F[x] + jt[s \ {x}]
      <4>1. jt[s] = F[Some(s)] + jt[s \ {Some(s)}]
        BY <2>2, <2>3, <3>1, Zenon DEF InRows
      <4> QED BY <3>2, <4>1, Zenon
    <3> QED BY <3>3, <3>4
  <2> QED BY <2>2, <2>6, <2>7
<1> QED BY <1>1, <1>2

\* There is one: it grows with the size of the sets.
Small(n) == {s \in SUBSET Brokers : Cardinality(s) <= n}
Upto(it, F, n) ==
    it[{}] = 0 /\ \A s \in Small(n) : s # {} => it[s] = F[Some(s)] + it[s \ {Some(s)}]

\* Rows for the sets of one size more.
LEMMA OneMoreRow ==
  ASSUME NEW F \in [Brokers -> Int], NEW n \in Nat,
         NEW it \in [SUBSET Brokers -> Int], Upto(it, F, n)
  PROVE  \E jt \in [SUBSET Brokers -> Int] : Upto(jt, F, n + 1)
<1> DEFINE jt == [s \in SUBSET Brokers |->
             IF s = {} THEN 0 ELSE F[Some(s)] + it[s \ {Some(s)}]]
<1>1. jt \in [SUBSET Brokers -> Int]
  <2>1. ASSUME NEW s \in SUBSET Brokers, s # {}
        PROVE  F[Some(s)] + it[s \ {Some(s)}] \in Int
    <3>1. Some(s) \in Brokers /\ s \ {Some(s)} \in SUBSET Brokers
      BY <2>1, Sizes
    <3> QED BY <3>1
  <2> QED BY <2>1
<1>2. jt[{}] = 0
  OBVIOUS
<1>3. \A s \in Small(n) : jt[s] = it[s]
  BY DEF Upto, Small
<1>4. ASSUME NEW s \in Small(n + 1), s # {}
      PROVE  jt[s] = F[Some(s)] + jt[s \ {Some(s)}]
  <2>1. Some(s) \in s /\ s \in SUBSET Brokers /\ Cardinality(s) <= n + 1
    BY <1>4, Sizes DEF Small
  <2>2. Cardinality(s \ {Some(s)}) = Cardinality(s) - 1 /\ Cardinality(s) \in Nat
    BY <2>1, Sizes
  <2>3. s \ {Some(s)} \in Small(n)
    BY <2>1, <2>2 DEF Small
  <2>4. jt[s \ {Some(s)}] = it[s \ {Some(s)}]
    BY <1>3, <2>3
  <2> QED BY <1>4, <2>1, <2>4
<1> HIDE DEF jt
<1> QED BY <1>1, <1>2, <1>4 DEF Upto

\* Size by size, rows for all sets.
LEMMA TableExists ==
  ASSUME NEW F \in [Brokers -> Int]
  PROVE  \E it \in [SUBSET Brokers -> Int] : SumTable(it, F)
<1> DEFINE Built(n) == \E it \in [SUBSET Brokers -> Int] : Upto(it, F, n)
           Missing == {n \in Nat : ~Built(n)}
<1>1. \A n \in Nat : Built(n) => Built(n + 1)
  BY OneMoreRow
<1>2. Built(0)
  <2> DEFINE it == [s \in SUBSET Brokers |-> 0]
  <2>1. it \in [SUBSET Brokers -> Int] /\ it[{}] = 0
    OBVIOUS
  <2>2. \A s \in Small(0) : s = {}
    BY Sizes DEF Small
  <2> HIDE DEF it
  <2> QED BY <2>1, <2>2 DEF Upto
<1> HIDE DEF Built
<1>3. CASE Missing = {}
  <2>1. Cardinality(Brokers) \in Nat
    BY Sizes
  <2>2. PICK it \in [SUBSET Brokers -> Int] : Upto(it, F, Cardinality(Brokers))
    BY <1>3, <2>1 DEF Built
  <2>3. \A s \in SUBSET Brokers : s \in Small(Cardinality(Brokers))
    BY Sizes DEF Small
  <2> QED BY <2>2, <2>3, RowsTable DEF Upto
<1>4. CASE Missing # {}
  <2>1. PICK n \in Missing : \A m \in Missing : n <= m
    <3>1. Missing \in SUBSET Nat
      OBVIOUS
    <3> HIDE DEF Missing
    <3> QED BY <1>4, <3>1, LeastElement
  <2>2. n \in Nat /\ ~Built(n) /\ n # 0
    BY <1>2, <2>1
  <2>3. n - 1 \in Nat /\ n - 1 \notin Missing /\ (n - 1) + 1 = n
    BY <2>1, <2>2
  <2>4. Built(n - 1)
    BY <2>3
  <2>5. Built((n - 1) + 1)
    BY <1>1, <2>3, <2>4
  <2> QED BY <2>2, <2>3, <2>5
<1> QED BY <1>3, <1>4

\* The sum by its table.
LEMMA TotalTable ==
  ASSUME NEW F \in [Brokers -> Int]
  PROVE  /\ \E it \in [SUBSET Brokers -> Int] : SumTable(it, F) /\ Total(F) = it[Brokers]
         /\ \A it : SumTable(it, F) => Total(F) = it[Brokers]
<1>1. PICK it \in [SUBSET Brokers -> Int] : SumTable(it, F)
  BY TableExists
<1>2. SumTable(CHOOSE jt : SumTable(jt, F), F)
  BY <1>1, Zenon
<1>3. \A jt : SumTable(jt, F) => (CHOOSE kt : SumTable(kt, F)) = jt
  BY <1>2, OneTable
<1> QED BY <1>1, <1>3 DEF Total

\* The sum of values that each change by what happens at b, on arrival in T and
\* on departure from S.
Changed(F, G, n, b, T, S) ==
    \A x \in Brokers :
      G[x] = F[x] + (IF x = b THEN n ELSE 0) + (IF x \in T THEN 1 ELSE 0)
                  - (IF x \in S THEN 1 ELSE 0)

\* By how much the sum changes then.
LEMMA TotalChange ==
  ASSUME NEW F \in [Brokers -> Int], NEW G \in [Brokers -> Int], NEW n \in Int,
         NEW b \in Brokers, NEW T \in SUBSET Brokers, NEW S \in SUBSET Brokers,
         Changed(F, G, n, b, T, S)
  PROVE  Total(G) = Total(F) + n + Cardinality(T) - Cardinality(S)
<1>1. PICK it \in [SUBSET Brokers -> Int] : SumTable(it, F) /\ Total(F) = it[Brokers]
  BY TotalTable
<1>2. \A s \in SUBSET Brokers : /\ Cardinality(s \cap T) \in Nat
                                /\ Cardinality(s \cap S) \in Nat
  <2>1. \A s \in SUBSET Brokers : s \cap T \in SUBSET Brokers /\ s \cap S \in SUBSET Brokers
    OBVIOUS
  <2> QED BY <2>1, Sizes
<1> DEFINE jt == [s \in SUBSET Brokers |->
              it[s] + (IF b \in s THEN n ELSE 0) + Cardinality(s \cap T)
                    - Cardinality(s \cap S)]
<1>3. jt[{}] = 0
  <2>1. it[{}] = 0
    BY <1>1, TableRows
  <2>2. {} \cap T = {} /\ {} \cap S = {} /\ Cardinality({}) = 0
    BY FS_EmptySet
  <2> QED BY <2>1, <2>2
<1>4. ASSUME NEW s \in SUBSET Brokers, s # {}, NEW x, x = Some(s)
      PROVE  jt[s] = G[x] + jt[s \ {x}]
  <2>1. x \in s
    BY <1>4, Sizes
  <2>2. it[s] = F[x] + it[s \ {x}]
    <3>1. InRows(it, F)
      BY <1>1, TableRows
    <3> QED BY <1>4, <3>1 DEF InRows
  <2>3. ASSUME NEW U \in SUBSET Brokers
        PROVE  Cardinality(s \cap U) = Cardinality((s \ {x}) \cap U) + (IF x \in U THEN 1 ELSE 0)
    <3>0. s \cap U \in SUBSET Brokers /\ Cardinality(s \cap U) \in Nat
      <4>1. s \cap U \in SUBSET Brokers
        OBVIOUS
      <4> QED BY <4>1, Sizes
    <3>1. CASE x \in U
      <4>1. (s \ {x}) \cap U = (s \cap U) \ {x} /\ x \in s \cap U
        BY <2>1, <3>1
      <4>2. Cardinality((s \cap U) \ {x}) = Cardinality(s \cap U) - 1
        BY <3>0, <4>1, Sizes
      <4>3. Cardinality((s \ {x}) \cap U) = Cardinality(s \cap U) - 1
        BY <4>1, <4>2
      <4> QED BY <3>0, <3>1, <4>3
    <3>2. CASE x \notin U
      <4>1. (s \ {x}) \cap U = s \cap U
        BY <3>2
      <4>2. Cardinality((s \ {x}) \cap U) = Cardinality(s \cap U)
        BY <4>1
      <4> QED BY <3>0, <3>2, <4>2
    <3> QED BY <3>1, <3>2
  <2>4. /\ Cardinality(s \cap T) = Cardinality((s \ {x}) \cap T) + (IF x \in T THEN 1 ELSE 0)
        /\ Cardinality(s \cap S) = Cardinality((s \ {x}) \cap S) + (IF x \in S THEN 1 ELSE 0)
    BY <2>3
  <2>5. G[x] = F[x] + (IF x = b THEN n ELSE 0) + (IF x \in T THEN 1 ELSE 0)
                     - (IF x \in S THEN 1 ELSE 0)
    BY <2>1 DEF Changed
  <2>6. (IF b \in s THEN n ELSE 0)
          = (IF b \in s \ {x} THEN n ELSE 0) + (IF x = b THEN n ELSE 0)
    BY <2>1
  <2>7. /\ s \ {x} \in SUBSET Brokers /\ it[s \ {x}] \in Int /\ F[x] \in Int
        /\ Cardinality((s \ {x}) \cap T) \in Nat /\ Cardinality((s \ {x}) \cap S) \in Nat
    BY <1>2, <2>1
  <2>8. /\ jt[s] = it[s] + (IF b \in s THEN n ELSE 0) + Cardinality(s \cap T)
                      - Cardinality(s \cap S)
        /\ jt[s \ {x}] = it[s \ {x}] + (IF b \in s \ {x} THEN n ELSE 0)
                            + Cardinality((s \ {x}) \cap T) - Cardinality((s \ {x}) \cap S)
    BY <2>7
  <2>9. /\ (IF b \in s \ {x} THEN n ELSE 0) \in Int /\ (IF x = b THEN n ELSE 0) \in Int
        /\ (IF x \in T THEN 1 ELSE 0) \in Int /\ (IF x \in S THEN 1 ELSE 0) \in Int
    OBVIOUS
  <2> HIDE DEF jt
  <2> QED BY <2>2, <2>4, <2>5, <2>6, <2>7, <2>8, <2>9
<1>5. SumTable(jt, G)
  <2>1. jt \in [SUBSET Brokers -> Int]
    <3>1. \A s \in SUBSET Brokers :
            it[s] + (IF b \in s THEN n ELSE 0) + Cardinality(s \cap T)
                  - Cardinality(s \cap S) \in Int
      <4> TAKE s \in SUBSET Brokers
      <4>1. it[s] \in Int /\ (IF b \in s THEN n ELSE 0) \in Int
        OBVIOUS
      <4>2. Cardinality(s \cap T) \in Nat /\ Cardinality(s \cap S) \in Nat
        BY <1>2
      <4> QED BY <4>1, <4>2
    <3> QED BY <3>1
  <2> HIDE DEF jt
  <2>2. \A s \in SUBSET Brokers : s # {} => jt[s] = G[Some(s)] + jt[s \ {Some(s)}]
    BY <1>4
  <2> QED BY <1>3, <2>1, <2>2, RowsTable
<1>6. Total(G) = jt[Brokers]
  <2> HIDE DEF jt
  <2> QED BY <1>5, TotalTable
<1>7. Brokers \cap T = T /\ Brokers \cap S = S /\ Brokers \in SUBSET Brokers
  OBVIOUS
<1> QED BY <1>1, <1>6, <1>7

\* Sums add up.
LEMMA TotalAdds ==
  ASSUME NEW F \in [Brokers -> Int], NEW G \in [Brokers -> Int],
         NEW H \in [Brokers -> Int], \A x \in Brokers : H[x] = F[x] + G[x]
  PROVE  Total(H) = Total(F) + Total(G)
<1>1. PICK it \in [SUBSET Brokers -> Int] : SumTable(it, F) /\ Total(F) = it[Brokers]
  BY TotalTable
<1>2. PICK kt \in [SUBSET Brokers -> Int] : SumTable(kt, G) /\ Total(G) = kt[Brokers]
  BY TotalTable
<1> DEFINE jt == [s \in SUBSET Brokers |-> it[s] + kt[s]]
<1>3. jt[{}] = 0
  <2>1. it[{}] = 0 /\ kt[{}] = 0
    BY <1>1, <1>2, TableRows
  <2> QED BY <2>1
<1>4. ASSUME NEW s \in SUBSET Brokers, s # {}, NEW x, x = Some(s)
      PROVE  jt[s] = H[x] + jt[s \ {x}]
  <2>1. x \in s
    BY <1>4, Sizes
  <2>2. it[s] = F[x] + it[s \ {x}] /\ kt[s] = G[x] + kt[s \ {x}]
    <3>1. InRows(it, F) /\ InRows(kt, G)
      BY <1>1, <1>2, TableRows
    <3> QED BY <1>4, <3>1 DEF InRows
  <2> QED BY <2>1, <2>2
<1>5. SumTable(jt, H)
  <2>1. jt \in [SUBSET Brokers -> Int]
    BY <1>1, <1>2
  <2> HIDE DEF jt
  <2>2. \A s \in SUBSET Brokers : s # {} => jt[s] = H[Some(s)] + jt[s \ {Some(s)}]
    BY <1>4
  <2> QED BY <1>3, <2>1, <2>2, RowsTable
<1>6. Total(H) = jt[Brokers]
  <2> HIDE DEF jt
  <2> QED BY <1>5, TotalTable
<1> QED BY <1>1, <1>2, <1>6

-----------------------------------------------------------------------------
\* The books of the tree: who received what, who sent it on, what is on its way.

\* Publications in a channel, what a broker sent on, and what reached it or will.
Waiting(channel) == Cardinality(InFlight(channel, "PUBLISH"))
PassedOn(st, b) == st[b].forward_up + st[b].forward_down
Reaching(st, upward, downward, b) ==
    st[b].pub_received + Waiting(upward[b]) + Waiting(downward[b])
Balance(st, upward, downward, b) == Reaching(st, upward, downward, b) - PassedOn(st, b)

\* The tables of the two sums of TrafficConserved.
PassedOnTable(it, st) ==
    it = [s \in SUBSET Brokers |->
            IF s = {} THEN 0
            ELSE LET x == CHOOSE x \in s : TRUE
                 IN  (st[x].forward_up + st[x].forward_down) + it[s \ {x}]]
ReachingTable(it, st, upward, downward) ==
    it = [s \in SUBSET Brokers |->
            IF s = {} THEN 0
            ELSE LET x == CHOOSE x \in s : TRUE
                 IN  (st[x].pub_received
                         + Cardinality(InFlight(upward[x], "PUBLISH"))
                         + Cardinality(InFlight(downward[x], "PUBLISH"))) + it[s \ {x}]]
Conserved(st, upward, downward, pubs) ==
    pubs + (CHOOSE it : PassedOnTable(it, st))[Brokers]
      = (CHOOSE it : ReachingTable(it, st, upward, downward))[Brokers]

\* TrafficConserved speaks of these two tables.
LEMMA ConservedTables ==
  /\ TrafficConserved <=> Conserved(stat, up, down, spent.pubs)
  /\ TrafficConserved' <=> Conserved(stat', up', down', spent'.pubs)
<1>1. TrafficConserved <=> Conserved(stat, up, down, spent.pubs)
  BY DEF TrafficConserved, Conserved, PassedOnTable, ReachingTable,
         SetsExt!MapThenSumSet, SetsExt!MapThenFoldSet
<1>2. TrafficConserved' <=> Conserved(stat', up', down', spent'.pubs)
  BY DEF TrafficConserved, Conserved, PassedOnTable, ReachingTable, InFlight,
         SetsExt!MapThenSumSet, SetsExt!MapThenFoldSet
<1> QED BY <1>1, <1>2

\* The left table adds up what the brokers sent on.
LEMMA PassedOnTotal ==
  ASSUME NEW st, NEW F \in [Brokers -> Int], \A b \in Brokers : F[b] = PassedOn(st, b)
  PROVE  (CHOOSE it : PassedOnTable(it, st))[Brokers] = Total(F)
<1>1. ASSUME NEW it PROVE PassedOnTable(it, st) <=> SumTable(it, F)
  <2>1. \A s \in SUBSET Brokers :
          (IF s = {} THEN 0
            ELSE LET x == CHOOSE x \in s : TRUE
                 IN  (st[x].forward_up + st[x].forward_down) + it[s \ {x}])
          = Row(it, F, s)
    <3> TAKE s \in SUBSET Brokers
    <3>1. CASE s = {}
      BY <3>1 DEF Row
    <3>2. CASE s # {}
      <4>1. Some(s) \in Brokers
        BY <3>2, Sizes
      <4>2. F[Some(s)] = st[Some(s)].forward_up + st[Some(s)].forward_down
        BY <4>1 DEF PassedOn
      <4> QED BY <3>2, <4>2, Zenon DEF Row, Some
    <3> QED BY <3>1, <3>2
  <2> QED BY <2>1 DEF PassedOnTable, SumTable
<1>2. PICK it : SumTable(it, F)
  BY TableExists
<1>3. PassedOnTable(CHOOSE jt : PassedOnTable(jt, st), st)
  BY <1>1, <1>2, Zenon
<1> QED BY <1>1, <1>3, TotalTable

\* The right table adds up what reached them or will.
LEMMA ReachingTotal ==
  ASSUME NEW st, NEW upward, NEW downward, NEW F \in [Brokers -> Int],
         \A b \in Brokers : F[b] = Reaching(st, upward, downward, b)
  PROVE  (CHOOSE it : ReachingTable(it, st, upward, downward))[Brokers] = Total(F)
<1>1. ASSUME NEW it PROVE ReachingTable(it, st, upward, downward) <=> SumTable(it, F)
  <2>1. \A s \in SUBSET Brokers :
          (IF s = {} THEN 0
            ELSE LET x == CHOOSE x \in s : TRUE
                 IN  (st[x].pub_received
                         + Cardinality(InFlight(upward[x], "PUBLISH"))
                         + Cardinality(InFlight(downward[x], "PUBLISH"))) + it[s \ {x}])
          = Row(it, F, s)
    <3> TAKE s \in SUBSET Brokers
    <3>1. CASE s = {}
      BY <3>1 DEF Row
    <3>2. CASE s # {}
      <4>1. Some(s) \in Brokers
        BY <3>2, Sizes
      <4>2. F[Some(s)] = st[Some(s)].pub_received
                         + Cardinality(InFlight(upward[Some(s)], "PUBLISH"))
                         + Cardinality(InFlight(downward[Some(s)], "PUBLISH"))
        BY <4>1 DEF Reaching, Waiting
      <4> QED BY <3>2, <4>2, Zenon DEF Row, Some
    <3> QED BY <3>1, <3>2
  <2> QED BY <2>1 DEF ReachingTable, SumTable
<1>2. PICK it : SumTable(it, F)
  BY TableExists
<1>3. ReachingTable(CHOOSE jt : ReachingTable(jt, st, upward, downward), st, upward, downward)
  BY <1>1, <1>2, Zenon
<1> QED BY <1>1, <1>3, TotalTable

\* A channel's publications are counted by a number.
LEMMA WaitingNat ==
  ASSUME NEW M, NEW s \in Seq(M)
  PROVE  IsFiniteSet(InFlight(s, "PUBLISH")) /\ Waiting(s) \in Nat
<1>1. InFlight(s, "PUBLISH") \subseteq 1 .. Len(s) /\ Len(s) \in Nat
  BY DEF InFlight
<1>2. IsFiniteSet(1 .. Len(s))
  BY <1>1, FS_Interval
<1> QED BY <1>1, <1>2, FS_Subset, FS_CardinalityType DEF Waiting

\* One more datagram.
LEMMA WaitingAppend ==
  ASSUME NEW M, NEW s \in Seq(M), NEW m \in M
  PROVE  Waiting(Append(s, m)) = Waiting(s) + (IF m.type = "PUBLISH" THEN 1 ELSE 0)
<1> DEFINE n == Len(s) + 1
           t == Append(s, m)
<1>1. /\ \A i \in DOMAIN s : t[i] = s[i] /\ i # n
      /\ DOMAIN t = DOMAIN s \cup {n} /\ t[n] = m
  OBVIOUS
<1> HIDE DEF n, t
<1>2. InFlight(t, "PUBLISH") =
        IF m.type = "PUBLISH" THEN InFlight(s, "PUBLISH") \cup {n} ELSE InFlight(s, "PUBLISH")
  BY <1>1 DEF InFlight
<1>3. n \notin InFlight(s, "PUBLISH")
  BY <1>1 DEF InFlight
<1>4. IsFiniteSet(InFlight(s, "PUBLISH")) /\ Waiting(s) \in Nat
  BY WaitingNat
<1>5. Cardinality(InFlight(s, "PUBLISH") \cup {n}) = Cardinality(InFlight(s, "PUBLISH")) + 1
  BY <1>3, <1>4, FS_AddElement
<1>6. CASE m.type = "PUBLISH"
  <2>1. Cardinality(InFlight(t, "PUBLISH")) = Cardinality(InFlight(s, "PUBLISH")) + 1
    BY <1>2, <1>5, <1>6
  <2> QED BY <1>6, <2>1 DEF Waiting, t
<1>7. CASE m.type # "PUBLISH"
  <2>1. InFlight(t, "PUBLISH") = InFlight(s, "PUBLISH")
    BY <1>2, <1>7
  <2> QED BY <1>4, <1>7, <2>1 DEF Waiting, t
<1> QED BY <1>6, <1>7

\* The head is taken.
LEMMA WaitingTail ==
  ASSUME NEW M, NEW s \in Seq(M), s # << >>
  PROVE  Waiting(Tail(s)) = Waiting(s) - (IF Head(s).type = "PUBLISH" THEN 1 ELSE 0)
<1>1. /\ Tail(s) \in Seq(M)
      /\ \A i : i \in DOMAIN Tail(s) <=> i \in Nat \ {0} /\ i + 1 \in DOMAIN s
      /\ \A i \in DOMAIN Tail(s) : Tail(s)[i] = s[i + 1]
      /\ Head(s) = s[1] /\ 1 \in DOMAIN s /\ DOMAIN s \subseteq Nat \ {0}
  BY HeadTailProperties
<1> DEFINE A == InFlight(Tail(s), "PUBLISH")
           B == InFlight(s, "PUBLISH") \ {1}
           f == [i \in A |-> i + 1]
<1>2. A \subseteq Nat \ {0} /\ \A i \in A : i + 1 \in B
  BY <1>1 DEF InFlight
<1>3. \A j \in B : j - 1 \in A /\ (j - 1) + 1 = j
  BY <1>1 DEF InFlight
<1> HIDE DEF A, B
<1>4. f \in Bijection(A, B)
  <2>1. f \in [A -> B]
    BY <1>2
  <2>2. \A i, j \in A : f[i] = f[j] => i = j
    BY <1>2
  <2>3. \A j \in B : \E i \in A : f[i] = j
    BY <1>3
  <2> HIDE DEF f
  <2>4. IsInjective(f)
    BY <2>1, <2>2 DEF IsInjective
  <2> QED BY <2>1, <2>3, <2>4 DEF Bijection, Injection, Surjection
<1>5. IsFiniteSet(A) /\ IsFiniteSet(InFlight(s, "PUBLISH")) /\ Waiting(s) \in Nat
  BY <1>1, WaitingNat DEF A
<1>6. Cardinality(B) = Cardinality(A)
  BY <1>4, <1>5, FS_Bijection DEF ExistsBijection
<1>7. Cardinality(B) = Waiting(s) - (IF 1 \in InFlight(s, "PUBLISH") THEN 1 ELSE 0)
  <2> DEFINE all == InFlight(s, "PUBLISH")
  <2> HIDE DEF all
  <2>1. IsFiniteSet(all) /\ Cardinality(all) \in Nat /\ B = all \ {1}
    BY <1>5 DEF all, B, Waiting
  <2>2. Cardinality(all \ {1}) = IF 1 \in all THEN Cardinality(all) - 1 ELSE Cardinality(all)
    BY <2>1, FS_RemoveElement
  <2>3. Cardinality(B) = Cardinality(all) - (IF 1 \in all THEN 1 ELSE 0)
    BY <2>1, <2>2
  <2> QED BY <2>3 DEF all, Waiting
<1>8. 1 \in InFlight(s, "PUBLISH") <=> Head(s).type = "PUBLISH"
  BY <1>1 DEF InFlight
<1> QED BY <1>6, <1>7, <1>8 DEF Waiting, A

\* Datagrams that are no publications.
LEMMA WaitingJoin ==
  ASSUME NEW M, NEW s \in Seq(M), NEW t \in Seq(M), NoCopies(t)
  PROVE  Waiting(s \o t) = Waiting(s)
<1>1. \A i : i \in DOMAIN (s \o t) <=>
               i \in DOMAIN s \/ (i \in Nat /\ i - Len(s) \in DOMAIN t)
  OBVIOUS
<1>2. /\ \A i \in DOMAIN s : (s \o t)[i] = s[i]
      /\ \A i \in DOMAIN (s \o t) : i \notin DOMAIN s =>
            i - Len(s) \in DOMAIN t /\ (s \o t)[i] = t[i - Len(s)]
  OBVIOUS
<1>3. \A i \in DOMAIN t : t[i].type # "PUBLISH"
  BY DEF NoCopies, InFlight
<1>4. InFlight(s \o t, "PUBLISH") = InFlight(s, "PUBLISH")
  BY <1>1, <1>2, <1>3 DEF InFlight
<1> QED BY <1>4 DEF Waiting

\* The types that counting needs.
Counted(st, upward, downward) ==
    /\ st \in [Brokers -> Stats]
    /\ upward \in [Brokers -> Seq(UpMsg)] /\ downward \in [Brokers -> Seq(DownMsg)]

\* All that is counted is a number.
LEMMA CountedNat ==
  ASSUME NEW st, NEW upward, NEW downward, Counted(st, upward, downward), NEW b \in Brokers
  PROVE  /\ PassedOn(st, b) \in Nat /\ Reaching(st, upward, downward, b) \in Nat
         /\ Waiting(upward[b]) \in Nat /\ Waiting(downward[b]) \in Nat
         /\ Balance(st, upward, downward, b) \in Int
<1>1. Waiting(upward[b]) \in Nat /\ Waiting(downward[b]) \in Nat
  BY WaitingNat DEF Counted
<1>2. /\ st[b].forward_up \in Nat /\ st[b].forward_down \in Nat /\ st[b].pub_received \in Nat
  BY DEF Counted, Stats, Counters
<1> QED BY <1>1, <1>2 DEF PassedOn, Reaching, Balance

\* Conservation by the sum of the balances.
LEMMA ConservedTotal ==
  ASSUME NEW st, NEW upward, NEW downward, Counted(st, upward, downward), NEW pubs \in Nat,
         NEW N \in [Brokers -> Int],
         \A b \in Brokers : N[b] = Balance(st, upward, downward, b)
  PROVE  /\ Total(N) \in Int
         /\ Conserved(st, upward, downward, pubs) <=> pubs = Total(N)
<1>1. PICK F \in [Brokers -> Int] : \A b \in Brokers : F[b] = PassedOn(st, b)
  <2> DEFINE F == [b \in Brokers |-> PassedOn(st, b)]
  <2>1. F \in [Brokers -> Int]
    BY CountedNat
  <2> QED BY <2>1
<1>2. PICK H \in [Brokers -> Int] :
        \A b \in Brokers : H[b] = Reaching(st, upward, downward, b)
  <2> DEFINE H == [b \in Brokers |-> Reaching(st, upward, downward, b)]
  <2>1. H \in [Brokers -> Int]
    BY CountedNat
  <2> QED BY <2>1
<1>3. \A b \in Brokers : H[b] = F[b] + N[b]
  BY <1>1, <1>2, CountedNat DEF Balance
<1>4. Total(H) = Total(F) + Total(N)
  BY <1>3, TotalAdds
<1>5. Total(F) \in Int /\ Total(H) \in Int /\ Total(N) \in Int
  BY TotalTable
<1>6. Conserved(st, upward, downward, pubs) <=> pubs + Total(F) = Total(H)
  <2>1. (CHOOSE it : PassedOnTable(it, st))[Brokers] = Total(F)
    BY <1>1, PassedOnTotal
  <2>2. (CHOOSE it : ReachingTable(it, st, upward, downward))[Brokers] = Total(H)
    BY <1>2, ReachingTotal
  <2> QED BY <2>1, <2>2, Zenon DEF Conserved
<1> QED BY <1>4, <1>5, <1>6

\* One publication handled by b: one received, copies for T, taken from the queue of S.
Exchanged(st, upward, downward, st2, upward2, downward2, b, T, S) ==
    \A x \in Brokers :
      Balance(st2, upward2, downward2, x)
        = Balance(st, upward, downward, x)
            + (IF x = b THEN 1 - Cardinality(T) ELSE 0)
            + (IF x \in T THEN 1 ELSE 0) - (IF x \in S THEN 1 ELSE 0)

\* Such a step keeps the books if the publishers' count grows by what no queue held.
LEMMA ConservedStep ==
  ASSUME NEW st, NEW upward, NEW downward, Counted(st, upward, downward), NEW pubs \in Nat,
         NEW st2, NEW upward2, NEW downward2, Counted(st2, upward2, downward2),
         NEW pubs2 \in Nat,
         NEW b \in Brokers, NEW T \in SUBSET Brokers, NEW S \in SUBSET Brokers,
         Exchanged(st, upward, downward, st2, upward2, downward2, b, T, S),
         pubs2 = pubs + 1 - Cardinality(S),
         Conserved(st, upward, downward, pubs)
  PROVE  Conserved(st2, upward2, downward2, pubs2)
<1>1. PICK N \in [Brokers -> Int] :
        \A x \in Brokers : N[x] = Balance(st, upward, downward, x)
  <2> DEFINE N == [x \in Brokers |-> Balance(st, upward, downward, x)]
  <2>1. N \in [Brokers -> Int]
    BY CountedNat
  <2> QED BY <2>1
<1>2. PICK M \in [Brokers -> Int] :
        \A x \in Brokers : M[x] = Balance(st2, upward2, downward2, x)
  <2> DEFINE M == [x \in Brokers |-> Balance(st2, upward2, downward2, x)]
  <2>1. M \in [Brokers -> Int]
    BY CountedNat
  <2> QED BY <2>1
<1>3. Cardinality(T) \in Nat /\ Cardinality(S) \in Nat
  BY BrokerAssumption, FS_Subset, FS_CardinalityType
<1>4. PICK n \in Int : n = 1 - Cardinality(T)
  BY <1>3
<1>5. Total(M) = Total(N) + n + Cardinality(T) - Cardinality(S)
  <2>1. Changed(N, M, n, b, T, S)
    BY <1>1, <1>2, <1>4 DEF Changed, Exchanged
  <2> QED BY <2>1, TotalChange
<1>6. Total(N) \in Int /\ pubs = Total(N)
  BY <1>1, ConservedTotal
<1>7. pubs2 = Total(M)
  BY <1>3, <1>4, <1>5, <1>6
<1> QED BY <1>2, <1>7, ConservedTotal

-----------------------------------------------------------------------------
\* Steps that handle no publication leave the count of those that wait.

\* Nothing is lost, nobody is killed, parents start first.
Undisturbed == MaxLosses = 0 /\ Killable = {} /\ ParentFirst

\* A broker that does not run has not said or been told anything yet.
Silent(c) ==
    /\ down[c] = << >>
    /\ has_parent(c) => up[c] = << >> /\ children[Parent[c]][c] = NoChild
IdleInv == \A c \in Brokers : phase[c] # "running" => Silent(c)

Steady ==
    /\ \A c \in Brokers : /\ Waiting(up'[c]) = Waiting(up[c])
                          /\ Waiting(down'[c]) = Waiting(down[c])
    /\ spent'.pubs = spent.pubs

\* A head that is no publication is taken.
LEMMA SteadyTaken ==
  ASSUME NEW M, NEW channels \in [Brokers -> Seq(M)], NEW c \in Brokers,
         channels[c] # << >>, Head(channels[c]).type # "PUBLISH", NEW x \in Brokers
  PROVE  Waiting([channels EXCEPT ![c] = Tail(@)][x]) = Waiting(channels[x])
<1>1. Waiting(Tail(channels[c])) = Waiting(channels[c])
  <2>1. Waiting(channels[c]) \in Nat
    BY WaitingNat
  <2>2. Waiting(Tail(channels[c])) = Waiting(channels[c]) - 0
    BY WaitingTail
  <2> QED BY <2>1, <2>2
<1> QED BY <1>1

\* Datagrams that are no publications are sent.
LEMMA SteadyToParent ==
  ASSUME NEW channels \in [Brokers -> Seq(UpMsg)], NEW b \in Brokers,
         NEW msgs \in Seq(UpMsg), NoCopies(msgs), NEW c \in Brokers
  PROVE  Waiting(ToParent(channels, b, msgs)[c]) = Waiting(channels[c])
<1>1. Waiting(channels[b] \o msgs) = Waiting(channels[b])
  BY WaitingJoin
<1> QED BY <1>1 DEF ToParent

\* SUBSCRIBE, from a client or a child.
LEMMA SubscribeSteady ==
  ASSUME TypeOK,
         (\E s \in Subscriptions : ClientSubscribe(s))
           \/ \E c \in Brokers : ChildSubscribe(c)
  PROVE  Steady
<1>1. up \in [Brokers -> Seq(UpMsg)]
  BY DEF TypeOK, NetworkTypes
<1>2. ASSUME NEW s \in Subscriptions, ClientSubscribe(s)
      PROVE  Steady
  <2> DEFINE b == s.broker
             region == Merge(my_region[b], RegionOf(s.pos))
             msgs == RegionUpdates(b, region) \o Relay(b, SubKey(b, s))
  <2>1. s \in SubscriptionType /\ b \in Brokers /\ s.pos \in Points
    BY BrokerAssumption DEF SubscriptionType
  <2>2. region \in RegionType
    BY <2>1, RegionOfType, MergeType DEF TypeOK, OverlayTypes
  <2>3. RegionUpdates(b, region) \in Seq(UpMsg) /\ Relay(b, SubKey(b, s)) \in Seq(UpMsg)
    BY <2>1, <2>2, RegionUpdatesType, RelayType, SubKeyType
  <2>4. msgs \in Seq(UpMsg) /\ NoCopies(msgs)
    BY <2>3, NoCopiesJoin, NoCopiesOf
  <2>5. up' = ToParent(up, b, msgs) /\ UNCHANGED <<down, spent>>
    BY <1>2 DEF ClientSubscribe
  <2> HIDE DEF msgs, b, region
  <2>6. \A c \in Brokers : Waiting(up'[c]) = Waiting(up[c])
    BY <1>1, <2>1, <2>4, <2>5, SteadyToParent
  <2> QED BY <2>5, <2>6 DEF Steady
<1>3. ASSUME NEW c \in Brokers, ChildSubscribe(c)
      PROVE  Steady
  <2> DEFINE b == Parent[c]
             k == Head(up[c]).key
             taken == [up EXCEPT ![c] = Tail(@)]
  <2>1. /\ b \in Brokers /\ up[c] # << >> /\ Head(up[c]).type = "SUBSCRIBE"
        /\ UNCHANGED <<down, spent>>
        /\ up' = ToParent(taken, b, Relay(b, k)) \/ up' = taken
    BY <1>3, BrokerAssumption DEF ChildSubscribe, Bound, groupVars
  <2>2. taken \in [Brokers -> Seq(UpMsg)]
        /\ \A x \in Brokers : Waiting(taken[x]) = Waiting(up[x])
    BY <1>1, <2>1, TakenType, SteadyTaken
  <2>3. k \in Keys
    BY <1>1, <2>1, HeadTailProperties, UpMsgTypes DEF SubscribeMsg
  <2>4. Relay(b, k) \in Seq(UpMsg) /\ NoCopies(Relay(b, k))
    BY <2>1, <2>3, RelayType, NoCopiesOf
  <2> HIDE DEF taken, k, b
  <2>5. \A x \in Brokers : Waiting(ToParent(taken, b, Relay(b, k))[x]) = Waiting(taken[x])
    BY <2>1, <2>2, <2>4, SteadyToParent
  <2>6. \A x \in Brokers : Waiting(up'[x]) = Waiting(taken[x])
    BY <2>1, <2>5
  <2> QED BY <2>1, <2>2, <2>6 DEF Steady
<1> QED BY <1>2, <1>3

\* HELLO and REGION_UPDATE.
LEMMA RegionsSteady ==
  ASSUME TypeOK, NEW c \in Brokers, Hello(c) \/ ChildRegion(c)
  PROVE  Steady
<1> DEFINE b == Parent[c]
           m == Head(up[c])
           taken == [up EXCEPT ![c] = Tail(@)]
<1>1. up \in [Brokers -> Seq(UpMsg)] /\ down \in [Brokers -> Seq(DownMsg)]
  BY DEF TypeOK, NetworkTypes
<1>2. b \in Brokers /\ up[c] # << >> /\ m.type # "PUBLISH" /\ UNCHANGED spent
  BY BrokerAssumption DEF Hello, ChildRegion, Bound, groupVars
<1>3. taken \in [Brokers -> Seq(UpMsg)]
      /\ \A x \in Brokers : Waiting(taken[x]) = Waiting(up[x])
  BY <1>1, <1>2, TakenType, SteadyTaken
<1>4. CASE Hello(c)
  <2> DEFINE ack == [type |-> "HELLO_ACK", id |-> b]
  <2>1. Waiting(Append(down[c], ack)) = Waiting(down[c])
    <3>1. ack \in DownMsg /\ ack.type # "PUBLISH"
      BY <1>2 DEF DownMsg, HelloAckMsg
    <3>2. down[c] \in Seq(DownMsg) /\ Waiting(down[c]) \in Nat
      BY <1>1, WaitingNat
    <3> HIDE DEF ack
    <3>3. Waiting(Append(down[c], ack)) = Waiting(down[c]) + 0
      BY <3>1, <3>2, WaitingAppend
    <3> QED BY <3>2, <3>3
  <2>2. \A x \in Brokers : Waiting(down'[x]) = Waiting(down[x])
    BY <1>1, <1>4, <2>1 DEF Hello
  <2>3. up' = taken
    BY <1>4 DEF Hello
  <2> QED BY <1>2, <1>3, <2>2, <2>3 DEF Steady
<1>5. CASE ChildRegion(c)
  <2>1. PICK region \in RegionType :
          up' = taken \/ up' = ToParent(taken, b, RegionUpdates(b, region))
    BY <1>5, RegionTravels
  <2>2. RegionUpdates(b, region) \in Seq(UpMsg) /\ NoCopies(RegionUpdates(b, region))
    BY <1>2, RegionUpdatesType, NoCopiesOf
  <2>3. UNCHANGED down
    BY <1>5 DEF ChildRegion
  <2> HIDE DEF taken, b, m
  <2>4. \A x \in Brokers :
          Waiting(ToParent(taken, b, RegionUpdates(b, region))[x]) = Waiting(taken[x])
    BY <1>2, <1>3, <2>2, SteadyToParent
  <2>5. \A x \in Brokers : Waiting(up'[x]) = Waiting(taken[x])
    BY <2>1, <2>4
  <2> QED BY <1>2, <1>3, <2>3, <2>5 DEF Steady
<1> QED BY <1>4, <1>5

\* A broker starts; one that fails to has an empty socket.
LEMMA StartsSteady ==
  ASSUME TypeOK, Undisturbed, OrderInv, IdleInv, NEW b \in Brokers, Starts(b)
  PROVE  Steady
<1>1. /\ up \in [Brokers -> Seq(UpMsg)] /\ down \in [Brokers -> Seq(DownMsg)]
  BY DEF TypeOK, NetworkTypes
<1>2. CASE Bind(b) \/ GenerateKey(b) \/ WriteKeyFile(b) \/ UnlinkFullKeyFile(b)
  BY <1>2 DEF Bind, GenerateKey, WriteKeyFile, UnlinkFullKeyFile, worldVars, Steady
<1>3. CASE WriteFullKeyFile(b) \/ LoadKey(b)
  <2> DEFINE hello == << [type |-> "HELLO", id |-> b, pos |-> Home[b]] >>
  <2>1. hello \in Seq(UpMsg)
    <3>1. [type |-> "HELLO", id |-> b, pos |-> Home[b]] \in UpMsg
      BY BrokerAssumption DEF UpMsg, HelloMsg
    <3> QED BY <3>1
  <2>2. up' = ToParent(up, b, hello) /\ UNCHANGED <<down, spent>>
    BY <1>3 DEF WriteFullKeyFile, LoadKey, Started
  <2>3. NoCopies(hello)
    BY NoCopiesOf
  <2> HIDE DEF hello
  <2> QED BY <1>1, <2>1, <2>2, <2>3, SteadyToParent DEF Steady
<1>4. CASE FailFast(b)
  <2>1. Vanish(b) /\ UNCHANGED spent /\ phase[b] = "bound"
    BY <1>4 DEF FailFast
  <2>2. \A c \in Brokers : has_parent(c) /\ Parent[c] = b => phase[c] = "down"
    BY <2>1, BrokerAssumption DEF OrderInv, KeptByOrder, Undisturbed
  <2>3. \A c \in Brokers : Parent[c] = b => up[c] = << >>
    <3> SUFFICES ASSUME NEW c \in Brokers, Parent[c] = b PROVE up[c] = << >>
      OBVIOUS
    <3>1. has_parent(c)
      BY BrokerAssumption DEF has_parent
    <3> QED BY <2>2, <3>1 DEF IdleInv, Silent
  <2>4. down[b] = << >>
    BY <2>1 DEF IdleInv, Silent
  <2>5. up' = up /\ down' = down
    BY <1>1, <2>1, <2>3, <2>4 DEF Vanish
  <2> QED BY <2>1, <2>5 DEF Steady
<1> QED BY <1>2, <1>3, <1>4 DEF Starts

\* Every step that handles no publication.
LEMMA OthersSteady ==
  ASSUME TypeOK, Undisturbed, OrderInv, IdleInv, [Next]_vars, ~Publishing
  PROVE  Steady
<1>1. /\ up \in [Brokers -> Seq(UpMsg)] /\ down \in [Brokers -> Seq(DownMsg)]
      /\ spent \in Budgets
  BY DEF TypeOK, NetworkTypes
<1>2. CASE \E h \in Beats : Heartbeat(h)
  <2>1. spent'.pubs = spent.pubs /\ UNCHANGED <<up, down>>
    BY <1>1, <1>2 DEF Heartbeat, Budgets
  <2> QED BY <2>1 DEF Steady
<1>3. CASE Tick \/ UNCHANGED vars
  BY <1>3 DEF Tick, vars, worldVars, Steady
<1>4. ASSUME NEW b \in Brokers, HelloAck(b) PROVE Steady
  BY <1>1, <1>4, SteadyTaken DEF HelloAck, Steady
<1>5. ASSUME NEW b \in Brokers, Sweep(b) \/ EpollTimeout(b) \/ StatsRequest(b) PROVE Steady
  BY <1>5 DEF Sweep, EpollTimeout, StatsRequest, worldVars, Steady
<1>6. ASSUME NEW b \in Brokers PROVE ~Crash(b) /\ ~LoseUp(b) /\ ~LoseDown(b)
  BY <1>1 DEF Crash, LoseUp, LoseDown, Undisturbed, Budgets
<1> QED
  BY <1>2, <1>3, <1>4, <1>5, <1>6, SubscribeSteady, RegionsSteady, StartsSteady
  DEF Next, FromClients, FromChild, FromParent, Publishing

\* Nor do they count anything as received or forwarded.
SameTraffic(a) ==
    /\ stat'[a].pub_received = stat[a].pub_received
    /\ stat'[a].forward_up = stat[a].forward_up
    /\ stat'[a].forward_down = stat[a].forward_down

\* None of them counts a publication.
LEMMA OthersSameTraffic ==
  ASSUME TypeOK, Undisturbed, [Next]_vars, ~Publishing, NEW a \in Brokers
  PROVE  SameTraffic(a)
<1>1. /\ stat \in [Brokers -> [Counters -> Nat]]
      /\ {"pub_received", "forward_up", "forward_down"} \subseteq Counters
  BY DEF TypeOK, Stats, Counters
<1>2. ASSUME UNCHANGED stat PROVE SameTraffic(a)
  BY <1>2 DEF SameTraffic
<1>3. ASSUME NEW b \in Brokers, stat' = [stat EXCEPT ![b].sub_received = @ + 1]
      PROVE  SameTraffic(a)
  <2>1. stat[b] \in [Counters -> Nat] /\ stat[a] \in [Counters -> Nat]
    BY <1>1
  <2> QED BY <1>1, <1>3, <2>1 DEF SameTraffic
<1>4. ASSUME NEW s \in Subscriptions, ClientSubscribe(s)
      PROVE  SameTraffic(a)
  <2>1. s.broker \in Brokers
    BY BrokerAssumption DEF SubscriptionType
  <2> QED BY <1>3, <1>4, <2>1 DEF ClientSubscribe
<1>5. \A h : Heartbeat(h) => UNCHANGED stat
  BY DEF Heartbeat
<1>6. ASSUME NEW c \in Brokers, ChildSubscribe(c)
      PROVE  SameTraffic(a)
  <2>1. Parent[c] \in Brokers
    BY <1>6, BrokerAssumption DEF ChildSubscribe, Bound
  <2> QED BY <1>3, <1>6, <2>1 DEF ChildSubscribe
<1>7. ASSUME NEW b \in Brokers, StatsRequest(b)
      PROVE  SameTraffic(a)
  <2>1. stat' = [stat EXCEPT ![b].sub_groups = Cardinality(Groups(b)),
                             ![b].he_mode = Bit(he_enabled(b))]
    BY <1>7 DEF StatsRequest
  <2>2. stat[b] \in [Counters -> Nat] /\ stat[a] \in [Counters -> Nat]
    BY <1>1
  <2> QED BY <1>1, <2>1, <2>2 DEF SameTraffic
<1>8. ASSUME NEW b \in Brokers PROVE ~Crash(b)
  BY DEF Crash, Undisturbed
<1>9. ASSUME NEW b \in Brokers,
              \/ Starts(b) \/ Hello(b) \/ ChildRegion(b) \/ HelloAck(b) \/ Sweep(b)
              \/ EpollTimeout(b) \/ LoseUp(b) \/ LoseDown(b)
       PROVE  UNCHANGED stat
  <2>1. Starts(b) => UNCHANGED stat
    BY DEF Starts, Bind, GenerateKey, WriteKeyFile, UnlinkFullKeyFile,
    WriteFullKeyFile, LoadKey, FailFast,
           tableVars
  <2>2. Hello(b) \/ ChildRegion(b) \/ HelloAck(b) => UNCHANGED stat
    BY DEF Hello, ChildRegion, HelloAck
  <2>3. Sweep(b) \/ EpollTimeout(b) => UNCHANGED stat
    BY DEF Sweep, EpollTimeout
  <2>4. LoseUp(b) \/ LoseDown(b) => UNCHANGED stat
    BY DEF LoseUp, LoseDown, tableVars
  <2> QED BY <1>9, <2>1, <2>2, <2>3, <2>4
<1>10. CASE Tick \/ UNCHANGED vars
  <2>1. UNCHANGED stat
    BY <1>10 DEF Tick, vars, tableVars
  <2> QED BY <1>2, <2>1
<1> QED
  BY <1>2, <1>4, <1>5, <1>6, <1>7, <1>8, <1>9, <1>10
  DEF Next, FromClients, FromChild, FromParent, Publishing

\* Without a publication handled, the books stay as they are.
LEMMA ConservedKept ==
  ASSUME NEW st, NEW upward, NEW downward, Counted(st, upward, downward), NEW pubs \in Nat,
         NEW st2, NEW upward2, NEW downward2, Counted(st2, upward2, downward2),
         \A x \in Brokers : Balance(st2, upward2, downward2, x) = Balance(st, upward, downward, x),
         Conserved(st, upward, downward, pubs)
  PROVE  Conserved(st2, upward2, downward2, pubs)
<1>1. PICK N \in [Brokers -> Int] :
        \A x \in Brokers : N[x] = Balance(st, upward, downward, x)
  <2> DEFINE N == [x \in Brokers |-> Balance(st, upward, downward, x)]
  <2>1. N \in [Brokers -> Int]
    BY CountedNat
  <2> QED BY <2>1
<1>2. pubs = Total(N)
  BY <1>1, ConservedTotal
<1> QED BY <1>1, <1>2, ConservedTotal

\* A child's interest is only on record while the child runs.
LEMMA ToldRun ==
  ASSUME TypeOK, OwnChildren, IdleInv, NEW b \in Brokers, NEW k \in Keys, NEW m, NEW from,
         NEW c \in Told(b, k, m, from)
  PROVE  c \in Brokers /\ Parent[c] = b /\ phase[c] = "running"
<1>1. c \in child_active[b][k] /\ children[b][c] # NoChild
  BY DEF Told, Interested, Known
<1>2. c \in Brokers /\ Parent[c] = b
  BY <1>1 DEF TypeOK, OverlayTypes, OwnChildren
<1> QED BY <1>1, <1>2, BrokerAssumption DEF IdleInv, Silent, has_parent

\* Who runs has a parent that runs.
LEMMA ParentRuns ==
  ASSUME Undisturbed, OrderInv, NEW b \in Brokers, has_parent(b), phase[b] # "down"
  PROVE  Bound(Parent[b]) /\ phase[Parent[b]] = "running"
BY DEF OrderInv, KeptByOrder, Undisturbed, Bound, has_parent

\* What handlePublish adds to the counters.
LEMMA PublishTraffic ==
  ASSUME TypeOK, NEW b \in Brokers, NEW m \in PublishMsg, NEW from, NEW upIn,
         NEW downIn, HandlePublish(b, m, from, upIn, downIn),
         NEW k \in Keys, k = PubKey(b, m, from)
  PROVE  /\ stat'[b].pub_received = stat[b].pub_received + 1
         /\ stat'[b].forward_up = stat[b].forward_up + Bit(PassesUp(b, k, m, from))
         /\ stat'[b].forward_down = stat[b].forward_down + Cardinality(Told(b, k, m, from))
         /\ \A x \in Brokers \ {b} : stat'[x] = stat[x]
<1>1. PICK hit : stat' = [stat EXCEPT ![b] = StatAfter(b, k, m, from, hit)]
  BY DEF HandlePublish
<1>2. stat \in [Brokers -> [Counters -> Nat]]
  BY DEF TypeOK, Stats
<1>3. stat'[b] = StatAfter(b, k, m, from, hit) /\ \A x \in Brokers \ {b} : stat'[x] = stat[x]
  BY <1>1, <1>2
<1>4. {"pub_received", "forward_up", "forward_down"} \subseteq Counters
  BY DEF Counters
<1>5. /\ StatAfter(b, k, m, from, hit).pub_received = stat[b].pub_received + 1
      /\ StatAfter(b, k, m, from, hit).forward_up
           = stat[b].forward_up + Bit(PassesUp(b, k, m, from))
      /\ StatAfter(b, k, m, from, hit).forward_down
           = stat[b].forward_down + Cardinality(Told(b, k, m, from))
  BY <1>4 DEF StatAfter, CountUp
<1> QED BY <1>3, <1>5

\* What a publication adds to a broker's channels.
Enqueues(b, k, m, from, upIn, downIn, x) ==
    /\ Waiting(up'[x]) = Waiting(upIn[x])
         + (IF x = b THEN Bit(PassesUp(b, k, m, from)) ELSE 0)
    /\ Waiting(down'[x]) = Waiting(downIn[x])
         + (IF x \in Told(b, k, m, from) THEN 1 ELSE 0)

\* What handlePublish puts into the channels, when every receiver is there.
LEMMA PublishChannels ==
  ASSUME TypeOK, Undisturbed, OrderInv, OwnChildren, IdleInv, NEW b \in Brokers,
         phase[b] = "running", NEW m \in PublishMsg, NEW from,
         NEW upIn \in [Brokers -> Seq(UpMsg)], NEW downIn \in [Brokers -> Seq(DownMsg)],
         HandlePublish(b, m, from, upIn, downIn),
         NEW k \in Keys, k = PubKey(b, m, from), NEW x \in Brokers
  PROVE  Enqueues(b, k, m, from, upIn, downIn, x)
<1> DEFINE fwd == Forward(k, m)
           told == Told(b, k, m, from)
<1>1. fwd \in UpMsg /\ fwd \in DownMsg /\ fwd.type = "PUBLISH"
  <2>1. k \in Keys /\ fwd \in UpMsg \cap DownMsg
    BY PublishSpreads
  <2> QED BY <2>1 DEF Forward
<1>2. /\ up' = IF PassesUp(b, k, m, from) THEN ToParent(upIn, b, <<fwd>>) ELSE upIn
      /\ down' = [c \in Brokers |-> IF c \in told /\ Bound(c) THEN Append(downIn[c], fwd)
                                     ELSE downIn[c]]
  BY DEF HandlePublish, Forward
<1>3. upIn[b] \o <<fwd>> = Append(upIn[b], fwd)
  BY <1>1
<1>4. \A c \in told : Bound(c)
  BY ToldRun, BrokerAssumption DEF Bound
<1>5. PassesUp(b, k, m, from) => has_parent(b) /\ Bound(Parent[b])
  BY ParentRuns DEF PassesUp, Climbs
<1>6. /\ Waiting(upIn[x]) \in Nat /\ Waiting(downIn[x]) \in Nat
      /\ Waiting(Append(upIn[x], fwd)) = Waiting(upIn[x]) + 1
      /\ Waiting(Append(downIn[x], fwd)) = Waiting(downIn[x]) + 1
  <2> HIDE DEF fwd
  <2>1. /\ Waiting(upIn[x]) \in Nat /\ Waiting(downIn[x]) \in Nat
    BY WaitingNat
  <2>2. Waiting(Append(upIn[x], fwd)) = Waiting(upIn[x]) + 1
    BY <1>1, WaitingAppend
  <2>3. Waiting(Append(downIn[x], fwd)) = Waiting(downIn[x]) + 1
    BY <1>1, WaitingAppend
  <2> QED BY <2>1, <2>2, <2>3
<1> HIDE DEF fwd, told
<1>7. up'[x] = IF x = b /\ PassesUp(b, k, m, from) THEN Append(upIn[x], fwd) ELSE upIn[x]
  BY <1>2, <1>3, <1>5 DEF ToParent
<1>8. down'[x] = IF x \in told THEN Append(downIn[x], fwd) ELSE downIn[x]
  BY <1>2, <1>4
<1>9. Waiting(up'[x]) = Waiting(upIn[x])
              + (IF x = b THEN Bit(PassesUp(b, k, m, from)) ELSE 0)
  BY <1>6, <1>7 DEF Bit
<1>10. Waiting(down'[x]) = Waiting(downIn[x]) + (IF x \in told THEN 1 ELSE 0)
  BY <1>6, <1>8
<1> QED BY <1>9, <1>10, Zenon DEF told, Enqueues

\* One broker's books before and after: r more received, p more forwarded up, q
\* down, and t more copies on their way to it.
Accounted(st, upward, downward, st2, upward2, downward2, x, r, p, q, t) ==
    /\ r \in Nat /\ p \in Nat /\ q \in Nat /\ t \in Nat
    /\ st[x].pub_received \in Nat /\ st[x].forward_up \in Nat /\ st[x].forward_down \in Nat
    /\ Waiting(upward[x]) \in Nat /\ Waiting(downward[x]) \in Nat
    /\ st2[x].pub_received = st[x].pub_received + r
    /\ st2[x].forward_up = st[x].forward_up + p
    /\ st2[x].forward_down = st[x].forward_down + q
    /\ Waiting(upward2[x]) = Waiting(upward[x]) + p
    /\ Waiting(downward2[x]) = Waiting(downward[x]) + t

\* Its balance.
LEMMA BalanceOfOne ==
  ASSUME NEW st, NEW upward, NEW downward, NEW st2, NEW upward2, NEW downward2, NEW x,
         NEW r, NEW p, NEW q, NEW t,
         Accounted(st, upward, downward, st2, upward2, downward2, x, r, p, q, t)
  PROVE  Balance(st2, upward2, downward2, x)
           = Balance(st, upward, downward, x) + r - q + t
BY DEF Accounted, Balance, Reaching, PassedOn

\* Its books: one received, one sent for each copy, one on the way to each told.
LEMMA PublishBalance ==
  ASSUME TypeOK, TypeOK', Undisturbed, OrderInv, OwnChildren, IdleInv, NEW b \in Brokers,
         phase[b] = "running", NEW m \in PublishMsg, NEW from,
         NEW upIn \in [Brokers -> Seq(UpMsg)], NEW downIn \in [Brokers -> Seq(DownMsg)],
         HandlePublish(b, m, from, upIn, downIn)
  PROVE  \E told, none \in SUBSET Brokers :
            none = {} /\ Exchanged(stat, upIn, downIn, stat', up', down', b, told, none)
<1>1. PICK k \in Keys : k = PubKey(b, m, from)
  BY PubKeyType
<1>2. PICK told : told = Told(b, k, m, from)
  OBVIOUS
<1>3. told \in SUBSET Brokers /\ Cardinality(told) \in Nat
  BY <1>2, ToldRun, CountTypes
<1>4. SUFFICES ASSUME NEW none, none = {}
                PROVE  Exchanged(stat, upIn, downIn, stat', up', down', b, told, none)
  BY <1>3
<1> SUFFICES ASSUME NEW x \in Brokers
             PROVE  Balance(stat', up', down', x)
                      = Balance(stat, upIn, downIn, x)
                          + (IF x = b THEN 1 - Cardinality(told) ELSE 0)
                          + (IF x \in told THEN 1 ELSE 0) - (IF x \in none THEN 1 ELSE 0)
  BY Zenon DEF Exchanged
<1>5. PICK r : r = (IF x = b THEN 1 ELSE 0)
  OBVIOUS
<1>6. PICK p : p = (IF x = b THEN Bit(PassesUp(b, k, m, from)) ELSE 0)
  OBVIOUS
<1>7. PICK q : q = (IF x = b THEN Cardinality(told) ELSE 0)
  OBVIOUS
<1>8. PICK t : t = (IF x \in told THEN 1 ELSE 0)
  OBVIOUS
<1>9. r \in Nat /\ p \in Nat /\ q \in Nat /\ t \in Nat
  BY <1>3, <1>5, <1>6, <1>7, <1>8 DEF Bit
<1>10. Waiting(up'[x]) = Waiting(upIn[x]) + p /\ Waiting(down'[x]) = Waiting(downIn[x]) + t
  <2>1. Enqueues(b, k, m, from, upIn, downIn, x)
    BY <1>1, PublishChannels
  <2> QED BY <1>2, <1>6, <1>8, <2>1, Zenon DEF Enqueues
<1>11. stat[x].pub_received \in Nat /\ stat[x].forward_up \in Nat /\ stat[x].forward_down \in Nat
  BY DEF TypeOK, Stats, Counters
<1>12. /\ stat'[x].pub_received = stat[x].pub_received + r
      /\ stat'[x].forward_up = stat[x].forward_up + p
      /\ stat'[x].forward_down = stat[x].forward_down + q
  <2>1. CASE x = b
    <3>1. r = 1 /\ p = Bit(PassesUp(b, k, m, from)) /\ q = Cardinality(told)
      BY <1>5, <1>6, <1>7, <2>1
    <3>2. /\ stat'[b].pub_received = stat[b].pub_received + 1
          /\ stat'[b].forward_up = stat[b].forward_up + Bit(PassesUp(b, k, m, from))
          /\ stat'[b].forward_down = stat[b].forward_down + Cardinality(Told(b, k, m, from))
      BY <1>1, PublishTraffic
    <3> QED BY <1>2, <2>1, <3>1, <3>2, Zenon
  <2>2. CASE x # b
    <3>1. r = 0 /\ p = 0 /\ q = 0
      BY <1>5, <1>6, <1>7, <2>2
    <3>2. stat'[x] = stat[x]
      BY <1>1, <2>2, PublishTraffic
    <3> QED BY <1>11, <3>1, <3>2
  <2> QED BY <2>1, <2>2
<1>13. Balance(stat', up', down', x) = Balance(stat, upIn, downIn, x) + r - q + t
  <2>1. Waiting(upIn[x]) \in Nat
    BY WaitingNat
  <2>2. Waiting(downIn[x]) \in Nat
    BY WaitingNat
  <2>3. Accounted(stat, upIn, downIn, stat', up', down', x, r, p, q, t)
    BY <1>10, <1>11, <1>12, <1>9, <2>1, <2>2, Zenon DEF Accounted
  <2> QED BY <2>3, BalanceOfOne
<1>14. Balance(stat, upIn, downIn, x) \in Int
  <2>1. Counted(stat, upIn, downIn)
    BY DEF Counted, TypeOK
  <2> QED BY <2>1, CountedNat
<1>15. CASE x = b
  <2>1. r = 1 /\ q = Cardinality(told)
    BY <1>5, <1>7, <1>15
  <2> QED BY <1>3, <1>13, <1>14, <1>15, <1>8, <1>4, <2>1
<1>16. CASE x # b
  <2>1. r = 0 /\ q = 0
    BY <1>5, <1>7, <1>16
  <2> QED BY <1>13, <1>14, <1>16, <1>8, <1>4, <2>1
<1> QED BY <1>15, <1>16

\* A channel whose head is a publication, taken.
LEMMA WaitingTaken ==
  ASSUME NEW M, NEW channels \in [Brokers -> Seq(M)], NEW c \in Brokers,
         channels[c] # << >>, Head(channels[c]).type = "PUBLISH", NEW x \in Brokers
  PROVE  Waiting([channels EXCEPT ![c] = Tail(@)][x])
           = Waiting(channels[x]) - (IF x = c THEN 1 ELSE 0)
<1>1. Waiting(channels[c]) \in Nat /\ Waiting(channels[x]) \in Nat
  BY WaitingNat
<1>2. Waiting(Tail(channels[c])) = Waiting(channels[c]) - 1
  BY WaitingTail
<1> QED BY <1>1, <1>2

\* The publication was taken from the queues of S.
LEMMA ExchangedTaken ==
  ASSUME NEW st, NEW upward, NEW downward, NEW upward1, NEW downward1,
         NEW st2, NEW upward2, NEW downward2, NEW b \in Brokers,
         NEW told \in SUBSET Brokers, NEW none, none = {}, NEW S,
         \A x \in Brokers : Balance(st, upward, downward, x) \in Int,
         \A x \in Brokers :
           Balance(st, upward1, downward1, x)
             = Balance(st, upward, downward, x) - (IF x \in S THEN 1 ELSE 0),
         Exchanged(st, upward1, downward1, st2, upward2, downward2, b, told, none)
  PROVE  Exchanged(st, upward, downward, st2, upward2, downward2, b, told, S)
<1>1. Cardinality(told) \in Nat
  BY BrokerAssumption, FS_Subset, FS_CardinalityType
<1> SUFFICES ASSUME NEW x \in Brokers
             PROVE  Balance(st2, upward2, downward2, x)
                      = Balance(st, upward, downward, x)
                          + (IF x = b THEN 1 - Cardinality(told) ELSE 0)
                          + (IF x \in told THEN 1 ELSE 0) - (IF x \in S THEN 1 ELSE 0)
  BY Zenon DEF Exchanged
<1>2. Balance(st2, upward2, downward2, x)
        = Balance(st, upward1, downward1, x)
            + (IF x = b THEN 1 - Cardinality(told) ELSE 0)
            + (IF x \in told THEN 1 ELSE 0) - (IF x \in none THEN 1 ELSE 0)
  BY Zenon DEF Exchanged
<1> QED BY <1>1, <1>2

\* The channels with one publication less in the queue of c.
OneTaken(st, upward, downward, upward1, downward1, c) ==
    \A x \in Brokers :
      /\ st[x].pub_received \in Nat /\ PassedOn(st, x) \in Nat
      /\ Waiting(upward[x]) \in Nat /\ Waiting(downward[x]) \in Nat
      /\ Waiting(upward1[x]) \in Nat /\ Waiting(downward1[x]) \in Nat
      /\ Waiting(upward1[x]) + Waiting(downward1[x])
           = Waiting(upward[x]) + Waiting(downward[x]) - (IF x = c THEN 1 ELSE 0)

\* The balances before the publication was taken.
LEMMA BalanceTaken ==
  ASSUME NEW st, NEW upward, NEW downward, NEW upward1, NEW downward1, NEW c, NEW x \in Brokers,
         OneTaken(st, upward, downward, upward1, downward1, c)
  PROVE  Balance(st, upward1, downward1, x)
           = Balance(st, upward, downward, x) - (IF x = c THEN 1 ELSE 0)
<1>1. CASE x = c
  BY <1>1 DEF OneTaken, Balance, Reaching
<1>2. CASE x # c
  BY <1>2 DEF OneTaken, Balance, Reaching
<1> QED BY <1>1, <1>2

\* A publication handled keeps the books, whoever sent it.
LEMMA PublishConserves ==
  ASSUME TypeOK, TypeOK', Undisturbed, OrderInv, OwnChildren, IdleInv, TrafficConserved,
         Publishing
  PROVE  TrafficConserved'
<1>1. /\ Counted(stat, up, down) /\ Counted(stat', up', down')
      /\ spent.pubs \in Nat /\ spent'.pubs \in Nat
      /\ up \in [Brokers -> Seq(UpMsg)] /\ down \in [Brokers -> Seq(DownMsg)]
  BY DEF Counted, TypeOK, NetworkTypes, Budgets
<1>2. Conserved(stat, up, down, spent.pubs)
  BY ConservedTables
<1>3. SUFFICES Conserved(stat', up', down', spent'.pubs)
  BY ConservedTables
<1>4. ASSUME NEW b \in Brokers, NEW S \in SUBSET Brokers, NEW told \in SUBSET Brokers,
             Exchanged(stat, up, down, stat', up', down', b, told, S),
             spent'.pubs = spent.pubs + 1 - Cardinality(S)
      PROVE  Conserved(stat', up', down', spent'.pubs)
  BY <1>1, <1>2, <1>4, ConservedStep
<1>5. \A x \in Brokers :
        /\ Balance(stat, up, down, x) \in Int /\ PassedOn(stat, x) \in Nat
        /\ Waiting(up[x]) \in Nat /\ Waiting(down[x]) \in Nat
        /\ stat[x].pub_received \in Nat
  BY <1>1, CountedNat DEF TypeOK, Stats, Counters
<1>6. ASSUME NEW p \in Publications, ClientPublish(p)
      PROVE  Conserved(stat', up', down', spent'.pubs)
  <2>1. PICK b \in Brokers, m \in PublishMsg :
          /\ phase[b] = "running" /\ HandlePublish(b, m, NoBroker, up, down)
          /\ spent'.pubs = spent.pubs + 1
    <3>1. spent'.pubs = spent.pubs + 1
      BY <1>6 DEF ClientPublish, TypeOK, NetworkTypes, Budgets
    <3> QED BY <1>6, <3>1, Published DEF AtEpoll
  <2>2. PICK told \in SUBSET Brokers, none \in SUBSET Brokers :
          none = {} /\ Exchanged(stat, up, down, stat', up', down', b, told, none)
    BY <1>1, <2>1, PublishBalance
  <2>3. spent'.pubs = spent.pubs + 1 - Cardinality(none)
    <3>1. Cardinality(none) = 0
      BY <2>2, FS_EmptySet
    <3> QED BY <1>1, <2>1, <3>1
  <2> QED BY <1>4, <2>2, <2>3
<1>7. ASSUME NEW b \in Brokers, NEW m \in PublishMsg, NEW from, NEW S, NEW c \in Brokers,
             S = {c}, NEW upIn \in [Brokers -> Seq(UpMsg)],
             NEW downIn \in [Brokers -> Seq(DownMsg)],
             HandlePublish(b, m, from, upIn, downIn), phase[b] = "running",
             OneTaken(stat, up, down, upIn, downIn, c),
             UNCHANGED spent
      PROVE  Conserved(stat', up', down', spent'.pubs)
  <2>1. PICK told \in SUBSET Brokers, none \in SUBSET Brokers :
          none = {} /\ Exchanged(stat, upIn, downIn, stat', up', down', b, told, none)
    BY <1>7, PublishBalance
  <2>2. ASSUME NEW x \in Brokers
        PROVE  Balance(stat, upIn, downIn, x)
                 = Balance(stat, up, down, x) - (IF x \in S THEN 1 ELSE 0)
    <3>1. Balance(stat, upIn, downIn, x)
            = Balance(stat, up, down, x) - (IF x = c THEN 1 ELSE 0)
      BY <1>7, BalanceTaken
    <3> QED BY <1>7, <3>1
  <2>3. Exchanged(stat, up, down, stat', up', down', b, told, S)
    BY <1>5, <2>1, <2>2, ExchangedTaken
  <2>4. spent'.pubs = spent.pubs + 1 - Cardinality(S)
    <3>1. Cardinality(S) = 1
      BY <1>7, FS_Singleton
    <3> QED BY <1>1, <1>7, <3>1
  <2> QED BY <1>4, <1>7, <2>3, <2>4
<1>8. ASSUME NEW c \in Brokers, ChildPublish(c)
      PROVE  Conserved(stat', up', down', spent'.pubs)
  <2> DEFINE taken == [up EXCEPT ![c] = Tail(@)]
  <2>1. /\ Parent[c] \in Brokers /\ Head(up[c]) \in PublishMsg /\ phase[Parent[c]] = "running"
        /\ up[c] # << >> /\ Head(up[c]).type = "PUBLISH"
        /\ HandlePublish(Parent[c], Head(up[c]), c, taken, down) /\ UNCHANGED spent
    BY <1>8, Published DEF ChildPublish, AtEpoll
  <2>2. taken \in [Brokers -> Seq(UpMsg)]
    BY <1>1, <2>1, TakenType
  <2>3. ASSUME NEW x \in Brokers
        PROVE  /\ Waiting(taken[x]) = Waiting(up[x]) - (IF x = c THEN 1 ELSE 0)
               /\ Waiting(taken[x]) \in Nat
    <3>1. Waiting(taken[x]) = Waiting(up[x]) - (IF x = c THEN 1 ELSE 0)
      BY <1>1, <2>1, WaitingTaken
    <3> HIDE DEF taken
    <3>2. taken[x] \in Seq(UpMsg)
      BY <2>2
    <3> QED BY <3>1, <3>2, WaitingNat
  <2> HIDE DEF taken
  <2>4. OneTaken(stat, up, down, taken, down, c)
    BY <1>5, <2>3 DEF OneTaken
  <2> QED BY <1>1, <1>7, <2>1, <2>2, <2>4
<1>9. ASSUME NEW b \in Brokers, ParentPublish(b)
      PROVE  Conserved(stat', up', down', spent'.pubs)
  <2> DEFINE taken == [down EXCEPT ![b] = Tail(@)]
  <2>1. /\ Head(down[b]) \in PublishMsg /\ phase[b] = "running"
        /\ down[b] # << >> /\ Head(down[b]).type = "PUBLISH"
        /\ HandlePublish(b, Head(down[b]), Parent[b], up, taken) /\ UNCHANGED spent
    BY <1>9, Published DEF ParentPublish, AtEpoll
  <2>2. taken \in [Brokers -> Seq(DownMsg)]
    BY <1>1, <2>1, TakenType
  <2>3. ASSUME NEW x \in Brokers
        PROVE  /\ Waiting(taken[x]) = Waiting(down[x]) - (IF x = b THEN 1 ELSE 0)
               /\ Waiting(taken[x]) \in Nat
    <3>1. Waiting(taken[x]) = Waiting(down[x]) - (IF x = b THEN 1 ELSE 0)
      BY <1>1, <2>1, WaitingTaken
    <3> HIDE DEF taken
    <3>2. taken[x] \in Seq(DownMsg)
      BY <2>2
    <3> QED BY <3>1, <3>2, WaitingNat
  <2> HIDE DEF taken
  <2>4. OneTaken(stat, up, down, up, taken, b)
    BY <1>5, <2>3 DEF OneTaken
  <2> QED BY <1>1, <1>7, <2>1, <2>2, <2>4
<1> QED BY <1>6, <1>8, <1>9 DEF Publishing

\* What handles no publication leaves the balances alone.
LEMMA OthersConserve ==
  ASSUME TypeOK, TypeOK', Undisturbed, OrderInv, IdleInv, TrafficConserved,
         [Next]_vars, ~Publishing
  PROVE  TrafficConserved'
<1>1. /\ Counted(stat, up, down) /\ Counted(stat', up', down') /\ spent.pubs \in Nat
  BY DEF Counted, TypeOK, NetworkTypes, Budgets
<1>2. Steady /\ \A x \in Brokers : SameTraffic(x)
  BY OthersSteady, OthersSameTraffic
<1>3. \A x \in Brokers : Balance(stat', up', down', x) = Balance(stat, up, down, x)
  BY <1>2 DEF Steady, SameTraffic, Balance, Reaching, PassedOn
<1>4. PICK st2, upward2, downward2 : st2 = stat' /\ upward2 = up' /\ downward2 = down'
  OBVIOUS
<1>5. /\ Counted(st2, upward2, downward2)
      /\ \A x \in Brokers : Balance(st2, upward2, downward2, x) = Balance(stat, up, down, x)
  BY <1>1, <1>3, <1>4, Zenon
<1>6. Conserved(stat, up, down, spent.pubs)
  BY ConservedTables
<1>7. Conserved(st2, upward2, downward2, spent.pubs)
  BY <1>1, <1>5, <1>6, ConservedKept
<1>8. Conserved(stat', up', down', spent'.pubs)
  BY <1>2, <1>4, <1>7, Zenon DEF Steady
<1> QED BY <1>8, ConservedTables

-----------------------------------------------------------------------------
\* What has not run was not there for anyone.
Unheard(c) == Silent(c) /\ phase[c] # "running" /\ AllSigned /\ OwnChildren

\* A publication is told to children that run.
LEMMA PublishUnheard ==
  ASSUME TypeOK, IdleInv, NEW c \in Brokers, Unheard(c), Publishing
  PROVE  Silent(c)'
<1>1. ASSUME NEW b \in Brokers, phase[b] = "running", NEW m, NEW from,
             NEW k \in Keys, k = PubKey(b, m, from), NEW upIn, NEW downIn,
             upIn[c] = up[c], downIn[c] = down[c],
             upIn \in [Brokers -> Seq(UpMsg)], HandlePublish(b, m, from, upIn, downIn)
      PROVE  Silent(c)'
  <2>1. c # b
    BY <1>1 DEF Unheard
  <2>2. c \notin Told(b, k, m, from)
    BY <1>1, ToldRun DEF Unheard
  <2>3. down'[c] = down[c]
    BY <1>1, <2>2 DEF HandlePublish
  <2>4. up'[c] = up[c]
    BY <1>1, <2>1 DEF HandlePublish, ToParent
  <2>5. ASSUME has_parent(c) PROVE children'[Parent[c]][c] = children[Parent[c]][c]
    <3>1. Parent[c] \in Brokers
      BY <2>5, BrokerAssumption DEF has_parent
    <3>2. children' = [children EXCEPT ![b] = ChildrenAfter(b, m, Told(b, k, m, from))]
      BY <1>1 DEF HandlePublish
    <3> QED BY <2>2, <3>1, <3>2 DEF ChildrenAfter, TypeOK, OverlayTypes
  <2> QED BY <2>3, <2>4, <2>5 DEF Silent, Unheard, has_parent
<1>2. up \in [Brokers -> Seq(UpMsg)] /\ down \in [Brokers -> Seq(DownMsg)]
  BY DEF TypeOK, NetworkTypes
<1>3. ASSUME NEW p \in Publications, ClientPublish(p) PROVE Silent(c)'
  <2>1. PICK m \in PublishMsg :
          /\ p.broker \in Brokers /\ phase[p.broker] = "running"
          /\ HandlePublish(p.broker, m, NoBroker, up, down)
    BY <1>3, Published DEF AtEpoll
  <2>2. PubKey(p.broker, m, NoBroker) \in Keys
    BY <2>1, PubKeyType
  <2> QED BY <1>1, <1>2, <2>1, <2>2
<1>4. ASSUME NEW x \in Brokers, ChildPublish(x) PROVE Silent(c)'
  <2>1. /\ Parent[x] \in Brokers /\ phase[Parent[x]] = "running" /\ Head(up[x]) \in PublishMsg
        /\ up[x] # << >> /\ has_parent(x)
        /\ HandlePublish(Parent[x], Head(up[x]), x, [up EXCEPT ![x] = Tail(@)], down)
    BY <1>4, Published DEF ChildPublish, AtEpoll, Bound, has_parent
  <2>2. PubKey(Parent[x], Head(up[x]), x) \in Keys
    BY <2>1, PubKeyType
  <2>3. x # c
    BY <2>1 DEF Unheard, Silent
  <2>4. PICK upIn : upIn = [up EXCEPT ![x] = Tail(@)]
    OBVIOUS
  <2>5. upIn \in [Brokers -> Seq(UpMsg)] /\ upIn[c] = up[c]
    BY <1>2, <2>1, <2>3, <2>4, TakenType
  <2>6. HandlePublish(Parent[x], Head(up[x]), x, upIn, down)
    BY <2>1, <2>4, Zenon
  <2> QED BY <1>1, <2>1, <2>2, <2>5, <2>6
<1>5. ASSUME NEW x \in Brokers, ParentPublish(x) PROVE Silent(c)'
  <2>1. /\ phase[x] = "running" /\ Head(down[x]) \in PublishMsg /\ down[x] # << >>
        /\ HandlePublish(x, Head(down[x]), Parent[x], up, [down EXCEPT ![x] = Tail(@)])
    BY <1>5, Published DEF ParentPublish, AtEpoll
  <2>2. PubKey(x, Head(down[x]), Parent[x]) \in Keys
    BY <2>1, PubKeyType
  <2>3. x # c
    BY <2>1 DEF Unheard
  <2>4. PICK downIn : downIn = [down EXCEPT ![x] = Tail(@)]
    OBVIOUS
  <2>5. downIn[c] = down[c]
    BY <1>2, <2>3, <2>4
  <2>6. HandlePublish(x, Head(down[x]), Parent[x], up, downIn)
    BY <2>1, <2>4, Zenon
  <2> QED BY <1>1, <1>2, <2>1, <2>2, <2>5, <2>6
<1> QED BY <1>3, <1>4, <1>5 DEF Publishing

\* SUBSCRIBE is handled and relayed by brokers that run.
LEMMA SubscribeUnheard ==
  ASSUME TypeOK, NEW c \in Brokers, Unheard(c),
         (\E s \in Subscriptions : ClientSubscribe(s))
           \/ \E x \in Brokers : ChildSubscribe(x)
  PROVE  Silent(c)'
<1>1. up \in [Brokers -> Seq(UpMsg)]
  BY DEF TypeOK, NetworkTypes
<1>2. ASSUME NEW s \in Subscriptions, ClientSubscribe(s) PROVE Silent(c)'
  <2>1. /\ s.broker \in Brokers /\ phase[s.broker] = "running" /\ UNCHANGED <<children, down>>
    BY <1>2, BrokerAssumption DEF SubscriptionType, ClientSubscribe, AtEpoll
  <2>2. PICK msgs : up' = ToParent(up, s.broker, msgs)
    BY <1>2 DEF ClientSubscribe
  <2>3. up'[c] = up[c]
    BY <1>1, <2>1, <2>2 DEF ToParent, Unheard
  <2> QED BY <2>1, <2>3 DEF Silent, Unheard, has_parent
<1>3. ASSUME NEW x \in Brokers, ChildSubscribe(x) PROVE Silent(c)'
  <2>1. /\ Parent[x] \in Brokers /\ phase[Parent[x]] = "running" /\ up[x] # << >>
        /\ has_parent(x) /\ UNCHANGED <<children, down>>
    BY <1>3, BrokerAssumption DEF ChildSubscribe, AtEpoll, Bound, has_parent
  <2>2. x # c /\ Parent[x] # c
    BY <2>1 DEF Unheard, Silent
  <2>3. PICK taken : taken = [up EXCEPT ![x] = Tail(@)]
    OBVIOUS
  <2>4. taken \in [Brokers -> Seq(UpMsg)] /\ taken[c] = up[c]
    BY <1>1, <2>1, <2>2, <2>3, TakenType
  <2>5. PICK msgs : up' = taken \/ up' = ToParent(taken, Parent[x], msgs)
    BY <1>3, <2>3 DEF ChildSubscribe
  <2>6. up'[c] = up[c]
    BY <2>2, <2>4, <2>5 DEF ToParent
  <2> QED BY <2>1, <2>6 DEF Silent, Unheard, has_parent
<1> QED BY <1>2, <1>3

\* HELLO and REGION_UPDATE concern the child that sent them.
LEMMA RegionsUnheard ==
  ASSUME TypeOK, NEW c \in Brokers, Unheard(c), NEW x \in Brokers, Hello(x) \/ ChildRegion(x)
  PROVE  Silent(c)'
<1>1. /\ up \in [Brokers -> Seq(UpMsg)] /\ down \in [Brokers -> Seq(DownMsg)]
      /\ children \in [Brokers -> [Brokers -> ChildBroker \cup {NoChild}]]
  BY DEF TypeOK, NetworkTypes, OverlayTypes
<1>2. /\ Parent[x] \in Brokers /\ phase[Parent[x]] = "running" /\ up[x] # << >>
      /\ has_parent(x) /\ Head(up[x]).type \in {"HELLO", "REGION_UPDATE"}
  BY BrokerAssumption DEF Hello, ChildRegion, AtEpoll, Bound, has_parent
<1>3. x # c /\ Parent[x] # c
  BY <1>2 DEF Unheard, Silent
<1>4. Head(up[x]).id = x
  <2>1. 1 \in DOMAIN up[x] /\ up[x][1] = Head(up[x])
    BY <1>1, <1>2
  <2> QED BY <1>2, <2>1 DEF Unheard, AllSigned, Signed
<1>5. PICK taken : taken = [up EXCEPT ![x] = Tail(@)]
  OBVIOUS
<1>6. taken \in [Brokers -> Seq(UpMsg)] /\ taken[c] = up[c]
  BY <1>1, <1>2, <1>3, <1>5, TakenType
<1>7. up'[c] = up[c]
  <2>1. PICK msgs : up' = taken \/ up' = ToParent(taken, Parent[x], msgs)
    BY <1>5 DEF Hello, ChildRegion
  <2> QED BY <1>3, <1>6, <2>1 DEF ToParent
<1>8. down'[c] = down[c]
  BY <1>1, <1>3 DEF Hello, ChildRegion
<1>9. ASSUME has_parent(c) PROVE children'[Parent[c]][c] = children[Parent[c]][c]
  <2>1. Parent[c] \in Brokers
    BY <1>9, BrokerAssumption DEF has_parent
  <2>2. PICK record : \/ UNCHANGED children
                      \/ children' = [children EXCEPT ![Parent[x]] =
                                        [children[Parent[x]] EXCEPT ![x] = record]]
    <3>1. CASE Hello(x)
      BY <1>4, <3>1 DEF Hello
    <3>2. CASE ChildRegion(x)
      BY <1>4, <3>2 DEF ChildRegion
    <3> QED BY <3>1, <3>2
  <2>3. CASE children' = [children EXCEPT ![Parent[x]] =
                            [children[Parent[x]] EXCEPT ![x] = record]]
    <3>1. CASE Parent[c] = Parent[x]
      <4>1. children'[Parent[c]] = [children[Parent[c]] EXCEPT ![x] = record]
        BY <1>1, <2>1, <2>3, <3>1
      <4>2. children[Parent[c]] \in [Brokers -> ChildBroker \cup {NoChild}]
        BY <1>1, <2>1
      <4> QED BY <1>3, <4>1, <4>2
    <3>2. CASE Parent[c] # Parent[x]
      BY <1>1, <2>1, <2>3, <3>2
    <3> QED BY <3>1, <3>2
  <2> QED BY <2>2, <2>3
<1> QED BY <1>7, <1>8, <1>9 DEF Silent, Unheard, has_parent

\* A broker that starts speaks when it runs.
LEMMA StartsUnheard ==
  ASSUME TypeOK, NEW c \in Brokers, Unheard(c), phase'[c] # "running",
         NEW x \in Brokers, Starts(x)
  PROVE  Silent(c)'
<1>1. /\ up \in [Brokers -> Seq(UpMsg)] /\ down \in [Brokers -> Seq(DownMsg)]
      /\ phase \in [Brokers -> Phases]
  BY DEF TypeOK, NetworkTypes, ProcessTypes
<1>2. UNCHANGED children
  BY DEF Starts, Bind, GenerateKey, WriteKeyFile, UnlinkFullKeyFile,
    WriteFullKeyFile, LoadKey, FailFast,
         tableVars, overlayVars
<1>3. CASE Bind(x) \/ GenerateKey(x) \/ WriteKeyFile(x) \/ UnlinkFullKeyFile(x)
  <2>1. UNCHANGED <<up, down>>
    BY <1>3 DEF Bind, GenerateKey, WriteKeyFile, UnlinkFullKeyFile, worldVars
  <2> QED BY <1>2, <2>1 DEF Silent, Unheard, has_parent
<1>4. CASE WriteFullKeyFile(x) \/ LoadKey(x)
  <2>1. UNCHANGED down /\ phase' = [phase EXCEPT ![x] = "running"]
    BY <1>4 DEF WriteFullKeyFile, LoadKey, Started
  <2>2. x # c
    BY <1>1, <2>1
  <2>3. PICK msgs : up' = ToParent(up, x, msgs)
    BY <1>4 DEF WriteFullKeyFile, LoadKey, Started
  <2>4. up'[c] = up[c]
    BY <2>2, <2>3 DEF ToParent
  <2> QED BY <1>2, <2>1, <2>4 DEF Silent, Unheard, has_parent
<1>5. CASE FailFast(x)
  <2>1. Vanish(x)
    BY <1>5 DEF FailFast
  <2>2. up'[c] = up[c] \/ up'[c] = << >>
    BY <1>1, <2>1 DEF Vanish
  <2>3. down'[c] = down[c] \/ down'[c] = << >>
    BY <1>1, <2>1 DEF Vanish
  <2> QED BY <1>2, <2>2, <2>3 DEF Silent, Unheard, has_parent
<1> QED BY <1>3, <1>4, <1>5 DEF Starts

\* A broker is silent until it runs.
LEMMA IdleKept ==
  ASSUME TypeOK, Undisturbed, AllSigned, OwnChildren, IdleInv, [Next]_vars
  PROVE  IdleInv'
<1> SUFFICES ASSUME NEW c \in Brokers, phase'[c] # "running"
             PROVE  Silent(c)'
  BY DEF IdleInv
<1>1. ASSUME NEW b \in Brokers PROVE ~Crash(b) /\ ~LoseUp(b) /\ ~LoseDown(b)
  BY DEF Crash, LoseUp, LoseDown, Undisturbed, TypeOK, NetworkTypes, Budgets
<1>2. phase[c] # "running"
  BY <1>1, PhaseSteps
<1>3. Unheard(c)
  BY <1>2 DEF IdleInv, Unheard
<1>4. ASSUME UNCHANGED <<up, down, children>> PROVE Silent(c)'
  BY <1>3, <1>4 DEF Unheard, Silent, has_parent
<1>5. (\E h \in Beats : Heartbeat(h)) \/ Tick \/ UNCHANGED vars => UNCHANGED <<up, down, children>>
  BY DEF Heartbeat, Tick, vars, tableVars, overlayVars, worldVars
<1>6. ASSUME NEW b \in Brokers, Sweep(b) \/ EpollTimeout(b) \/ StatsRequest(b)
      PROVE  Silent(c)'
  <2>1. UNCHANGED <<up, down, children>>
    BY <1>6 DEF Sweep, EpollTimeout, StatsRequest, overlayVars, worldVars
  <2> QED BY <1>4, <2>1
<1>7. ASSUME NEW b \in Brokers, HelloAck(b) PROVE Silent(c)'
  <2>1. b # c /\ UNCHANGED <<up, children>> /\ down' = [down EXCEPT ![b] = Tail(@)]
    BY <1>2, <1>7 DEF HelloAck, AtEpoll, overlayVars
  <2>2. down'[c] = down[c]
    BY <2>1 DEF TypeOK, NetworkTypes
  <2> QED BY <1>3, <2>1, <2>2 DEF Unheard, Silent, has_parent
<1> QED
  BY <1>1, <1>3, <1>4, <1>5, <1>6, <1>7, PublishUnheard, SubscribeUnheard, RegionsUnheard,
     StartsUnheard
  DEF Next, FromClients, FromChild, FromParent, Publishing

\* The inductive invariant.
TrafficInv == InterestInv /\ OwnChildren /\ IdleInv /\ TrafficConserved

\* In a deployment where nothing is lost or killed and parents start first, the
\* counters of the whole tree add up at every moment, for every tree: what
\* publishers sent and brokers forwarded is received or on its way (handlePublish,
\* stats_).
THEOREM TrafficAddsUp == ASSUME Undisturbed PROVE Spec => []TrafficConserved
<1>1. Init => TrafficInv
  <2> SUFFICES ASSUME Init PROVE TrafficInv
    OBVIOUS
  <2>1. InterestInv /\ OwnChildren
    BY InterestStarts DEF Init, OwnChildren
  <2>2. IdleInv
    BY BrokerAssumption DEF Init, IdleInv, Silent, has_parent
  <2>3. TypeOK
    BY InitTypes
  <2>4. Counted(stat, up, down) /\ spent.pubs = 0
    BY <2>3 DEF Counted, TypeOK, NetworkTypes, Init
  <2>5. \A b \in Brokers : PassedOn(stat, b) = 0 /\ Reaching(stat, up, down, b) = 0
    <3> SUFFICES ASSUME NEW b \in Brokers
                 PROVE  PassedOn(stat, b) = 0 /\ Reaching(stat, up, down, b) = 0
      OBVIOUS
    <3>1. up[b] = << >> /\ down[b] = << >> /\ stat[b] = ZeroStats
      BY DEF Init
    <3>2. InFlight(<< >>, "PUBLISH") = {}
      BY DEF InFlight
    <3>3. Waiting(up[b]) = 0 /\ Waiting(down[b]) = 0
      BY <3>1, <3>2, FS_EmptySet DEF Waiting
    <3>4. stat[b].pub_received = 0 /\ stat[b].forward_up = 0 /\ stat[b].forward_down = 0
      BY <3>1 DEF ZeroStats, Counters
    <3> QED BY <3>3, <3>4 DEF PassedOn, Reaching
  <2>6. Conserved(stat, up, down, spent.pubs)
    <3>1. PICK F : F = [b \in Brokers |-> 0]
      OBVIOUS
    <3>2. F \in [Brokers -> Int]
      BY <3>1
    <3>3. (CHOOSE it : PassedOnTable(it, stat))[Brokers] = Total(F)
      BY <2>5, <3>1, <3>2, PassedOnTotal
    <3>4. (CHOOSE it : ReachingTable(it, stat, up, down))[Brokers] = Total(F)
      BY <2>5, <3>1, <3>2, ReachingTotal
    <3>5. Total(F) \in Int
      BY <3>2, TotalTable
    <3>6. 0 + Total(F) = Total(F)
      BY <3>5
    <3> QED BY <2>4, <3>3, <3>4, <3>6, Zenon DEF Conserved
  <2> QED BY <2>1, <2>2, <2>6, ConservedTables DEF TrafficInv
<1>2. TypeOK /\ TypeOK' /\ TrafficInv /\ [Next]_vars => TrafficInv'
  <2> SUFFICES ASSUME TypeOK, TypeOK', TrafficInv, [Next]_vars PROVE TrafficInv'
    OBVIOUS
  <2>1. InterestInv /\ AllSigned /\ OrderInv /\ OwnChildren /\ IdleInv /\ TrafficConserved
    BY DEF TrafficInv, InterestInv
  <2>2. InterestInv' /\ OwnChildren' /\ IdleInv'
    BY <2>1, NextInterest, ChildrenOwned, IdleKept
  <2>3. TrafficConserved'
    BY <2>1, PublishConserves, OthersConserve
  <2> QED BY <2>2, <2>3 DEF TrafficInv
<1>3. TrafficInv => TrafficConserved
  BY DEF TrafficInv
<1> QED BY <1>1, <1>2, <1>3, TypeCorrect, PTL DEF Spec
=============================================================================
