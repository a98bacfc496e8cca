---------------------------- MODULE BrokerFaults ----------------------------
(***************************************************************************)
(* What survives any order of starting, kills and losses, proved for every *)
(* tree of brokers: a child on record as interested is known, a blinded    *)
(* publication is never filed in plaintext under require_he, clients never *)
(* blind with a key older than a broker's, and a group lives as long as it *)
(* is mentioned and at most a bounded time longer.                         *)
(*                                                                         *)
(* Then the links from child to parent, where the hypotheses are about what*)
(* may be killed and lost: the interest of a child is filed by its parent  *)
(* or on its way, and the region a parent has on record for a leaf covers  *)
(* the leaf's subscribers once nothing about it is on its way.             *)
(***************************************************************************)
EXTENDS BrokerProperties, BrokerTypes

-----------------------------------------------------------------------------
\* Known children.

\* Records that do not disappear keep every interested child known.
RecordsKept ==
    /\ \A b, c \in Brokers : children[b][c] # NoChild => children'[b][c] # NoChild
    /\ UNCHANGED child_active

LEMMA RecordsStay ==
  ASSUME ActiveChildrenKnown, RecordsKept, TypeOK
  PROVE  ActiveChildrenKnown'
BY DEF RecordsKept, ActiveChildrenKnown, TypeOK, OverlayTypes

\* handlePublish rewrites the records of children it knows.
LEMMA PublishKnows ==
  ASSUME TypeOK, NEW b \in Brokers, NEW m \in PublishMsg,
         NEW from, NEW upIn, NEW downIn, HandlePublish(b, m, from, upIn, downIn)
  PROVE  RecordsKept
<1> DEFINE k == PubKey(b, m, from)
           told == Told(b, k, m, from)
<1>1. /\ children' = [children EXCEPT ![b] = ChildrenAfter(b, m, told)]
      /\ UNCHANGED child_active
  BY DEF HandlePublish
<1> k \in Keys
  BY PubKeyType DEF PublishMsg
<1>2. \A c \in told : [children[b][c] EXCEPT
                         !.closest_quad[QuadOf(b, c, m)] = QuadDist(b, c, m)]
                       # NoChild
  <2> TAKE c \in told
  <2>1. c \in Interested(b, k, from)
    BY DEF Told
  <2>2. /\ children[b][c] \in ChildBroker
        /\ QuadOf(b, c, m) \in Quadrants
        /\ QuadDist(b, c, m) \in Nat
    BY <2>1, ConsideredTypes
  <2>3. [children[b][c] EXCEPT !.closest_quad[QuadOf(b, c, m)] = QuadDist(b, c, m)]
          \in ChildBroker
    BY <2>2 DEF ChildBroker
  <2> QED BY <2>3, NoChildAssumption
<1>3. \A c \in Brokers : children[b][c] # NoChild
                            => ChildrenAfter(b, m, told)[c] # NoChild
  <2> HIDE DEF told
  <2> QED BY <1>2 DEF ChildrenAfter
<1>4. \A a, c \in Brokers : children[a][c] # NoChild => children'[a][c] # NoChild
  <2> HIDE DEF told
  <2> QED BY <1>1, <1>3 DEF TypeOK, OverlayTypes
<1> QED BY <1>1, <1>4 DEF RecordsKept

\* HELLO makes a record, REGION_UPDATE changes one.
LEMMA RegionsKnow ==
  ASSUME TypeOK, NEW c \in Brokers, Hello(c) \/ ChildRegion(c)
  PROVE  /\ RecordsKept
         /\ Hello(c) => children'[Parent[c]][Head(up[c]).id] # NoChild
<1> DEFINE b == Parent[c]
           m == Head(up[c])
<1>1. b \in Brokers /\ up[c] # << >> /\ UNCHANGED child_active
  BY BrokerAssumption DEF Hello, ChildRegion, Bound
<1> children[b] \in [Brokers -> ChildBroker \cup {NoChild}]
  BY <1>1 DEF TypeOK, OverlayTypes
<1>2. m \in UpMsg
  BY <1>1, HeadTailProperties DEF TypeOK, NetworkTypes
<1> HIDE DEF m
<1>3. CASE Hello(c)
  <2>1. m \in HelloMsg
    BY <1>2, <1>3, UpMsgTypes DEF Hello, m
  <2>2. children' = [children EXCEPT ![b] = [@ EXCEPT ![m.id] = HelloChild(b, m)]]
    BY <1>3 DEF Hello, m
  <2>3. HelloChild(b, m) \in ChildBroker
    <3>1. m.id \in Brokers /\ m.pos \in Points
      BY <2>1 DEF HelloMsg
    <3>2. RegionOf(m.pos) \in RegionType
      BY <3>1, RegionOfType
    <3>3. children[b][m.id] \in ChildBroker \cup {NoChild} /\ DoubleMax \in Nat
      BY <1>1, <3>1 DEF TypeOK, OverlayTypes, DoubleMax
    <3> QED BY <3>1, <3>2, <3>3 DEF HelloChild, ChildBroker
  <2>4. \A a, x \in Brokers : children[a][x] # NoChild => children'[a][x] # NoChild
    BY <1>1, <2>1, <2>2, <2>3, NoChildAssumption DEF TypeOK, OverlayTypes, HelloMsg
  <2>5. children'[b][m.id] # NoChild
    BY <1>1, <2>1, <2>2, <2>3, NoChildAssumption DEF TypeOK, OverlayTypes, HelloMsg
  <2> QED BY <1>1, <2>4, <2>5 DEF RecordsKept, m
<1>4. CASE ChildRegion(c)
  <2>1. m \in RegionMsg
    BY <1>2, <1>4, UpMsgTypes DEF ChildRegion, m
  <2>2. ASSUME children[b][m.id] = NoChild PROVE RecordsKept
    <3>1. UNCHANGED children
      BY <1>4, <2>2 DEF ChildRegion, m
    <3> QED BY <1>1, <3>1 DEF RecordsKept
  <2>3. ASSUME children[b][m.id] # NoChild PROVE RecordsKept
    <3>1. children' = [children EXCEPT ![b] =
                         [children[b] EXCEPT ![m.id] =
                            [children[b][m.id] EXCEPT !.region = m.region]]]
      BY <1>4, <2>3 DEF ChildRegion, m
    <3>2. m.id \in Brokers /\ m.region \in RegionType
      BY <2>1 DEF RegionMsg
    <3>3. children[b][m.id] \in ChildBroker
      BY <1>1, <2>3, <3>2 DEF TypeOK, OverlayTypes
    <3>4. [children[b][m.id] EXCEPT !.region = m.region] # NoChild
      BY <3>2, <3>3, NoChildAssumption DEF ChildBroker
    <3>5. \A a, x \in Brokers : children[a][x] # NoChild => children'[a][x] # NoChild
      BY <1>1, <3>1, <3>2, <3>4 DEF TypeOK, OverlayTypes
    <3> QED BY <1>1, <3>5 DEF RecordsKept
  <2>4. ~Hello(c)
    BY <1>4 DEF ChildRegion, Hello
  <2>5. RecordsKept
    BY <2>2, <2>3
  <2> QED BY <2>4, <2>5
<1> QED BY <1>3, <1>4

\* A relayed SUBSCRIBE is filed for known children only.
LEMMA SubscribeKnows ==
  ASSUME TypeOK, ActiveChildrenKnown, NEW c \in Brokers, ChildSubscribe(c)
  PROVE  ActiveChildrenKnown'
<1>1. Parent[c] \in Brokers /\ Head(up[c]).key \in Keys
  <2>1. up[c] # << >> /\ Head(up[c]).type = "SUBSCRIBE" /\ up[c] \in Seq(UpMsg)
    BY DEF ChildSubscribe, TypeOK, NetworkTypes
  <2>2. Head(up[c]) \in SubscribeMsg
    BY <2>1, HeadTailProperties, UpMsgTypes
  <2> QED BY <2>2, BrokerAssumption DEF ChildSubscribe, Bound, SubscribeMsg
<1>2. UNCHANGED children
  BY DEF ChildSubscribe
<1>3. CASE Known(Parent[c], c)
  <2>1. child_active' = [child_active EXCEPT ![Parent[c]][Head(up[c]).key] = @ \cup {c}]
    BY <1>3 DEF ChildSubscribe
  <2> QED
    BY <1>1, <1>2, <1>3, <2>1 DEF ActiveChildrenKnown, Known, TypeOK, OverlayTypes
<1>4. CASE ~Known(Parent[c], c)
  BY <1>2, <1>4 DEF ChildSubscribe, ActiveChildrenKnown
<1> QED BY <1>3, <1>4

\* A kill forgets the children and their interest together.
LEMMA CrashKnows ==
  ASSUME TypeOK, ActiveChildrenKnown, NEW b \in Brokers, Crash(b)
  PROVE  ActiveChildrenKnown'
<1>1. /\ children' = [children EXCEPT ![b] = [c \in Brokers |-> NoChild]]
      /\ child_active' = [child_active EXCEPT ![b] = [k \in Keys |-> {}]]
  BY DEF Crash
<1> QED BY <1>1 DEF ActiveChildrenKnown, TypeOK, OverlayTypes

\* The steps that touch neither.
LEMMA OthersKnow ==
  ASSUME NEW b \in Brokers,
         \/ Starts(b) \/ HelloAck(b) \/ Sweep(b) \/ EpollTimeout(b) \/ StatsRequest(b)
         \/ LoseUp(b) \/ LoseDown(b)
  PROVE  UNCHANGED <<children, child_active>>
<1>1. Starts(b) => UNCHANGED <<children, child_active>>
  BY DEF Starts, Bind, GenerateKey, WriteKeyFile, UnlinkFullKeyFile,
    WriteFullKeyFile, LoadKey, FailFast,
         tableVars, overlayVars
<1>2. HelloAck(b) \/ Sweep(b) \/ EpollTimeout(b) \/ StatsRequest(b)
        => UNCHANGED <<children, child_active>>
  BY DEF HelloAck, Sweep, EpollTimeout, StatsRequest, overlayVars
<1>3. LoseUp(b) \/ LoseDown(b) => UNCHANGED <<children, child_active>>
  BY DEF LoseUp, LoseDown, tableVars, overlayVars
<1> QED BY <1>1, <1>2, <1>3

\* A publication that is handled is a typed one.
LEMMA Published ==
  ASSUME TypeOK
  PROVE  /\ \A p \in Publications : ClientPublish(p) =>
              /\ p.broker \in Brokers /\ AtEpoll(p.broker)
              /\ \E m \in PublishMsg : /\ FromPublisher(p, m)
                                    /\ HandlePublish(p.broker, m, NoBroker, up, down)
         /\ \A c \in Brokers : ChildPublish(c) =>
              Parent[c] \in Brokers /\ Head(up[c]) \in PublishMsg
         /\ \A b \in Brokers : ParentPublish(b) => Head(down[b]) \in PublishMsg
<1>1. ASSUME NEW p \in Publications, ClientPublish(p)
      PROVE  /\ p.broker \in Brokers /\ AtEpoll(p.broker)
             /\ \E m \in PublishMsg : /\ FromPublisher(p, m)
                                   /\ HandlePublish(p.broker, m, NoBroker, up, down)
  BY <1>1, ByClient DEF ClientPublish
<1>2. ASSUME NEW c \in Brokers, ChildPublish(c)
      PROVE  Parent[c] \in Brokers /\ Head(up[c]) \in PublishMsg
  <2>1. up[c] # << >> /\ Head(up[c]).type = "PUBLISH" /\ up[c] \in Seq(UpMsg)
    BY <1>2 DEF ChildPublish, TypeOK, NetworkTypes
  <2> QED
    BY <1>2, <2>1, HeadTailProperties, UpMsgTypes, BrokerAssumption
    DEF ChildPublish, Bound
<1>3. ASSUME NEW b \in Brokers, ParentPublish(b)
      PROVE  Head(down[b]) \in PublishMsg
  <2>1. down[b] # << >> /\ Head(down[b]).type = "PUBLISH" /\ down[b] \in Seq(DownMsg)
    BY <1>3 DEF ParentPublish, TypeOK, NetworkTypes
  <2> QED BY <2>1, HeadTailProperties, DownMsgTypes
<1> QED BY <1>1, <1>2, <1>3

LEMMA NextKnows ==
  ASSUME TypeOK, ActiveChildrenKnown, [Next]_vars
  PROVE  ActiveChildrenKnown'
<1>1. ASSUME UNCHANGED <<children, child_active>> PROVE ActiveChildrenKnown'
  BY <1>1 DEF ActiveChildrenKnown
<1>2. CASE FromClients
  <2>1. CASE \E s \in Subscriptions : ClientSubscribe(s)
    BY <1>1, <2>1 DEF ClientSubscribe
  <2>2. CASE \E p \in Publications : ClientPublish(p)
    BY <2>2, Published, PublishKnows, RecordsStay
  <2>3. CASE \E h \in Beats : Heartbeat(h)
    BY <1>1, <2>3 DEF Heartbeat, overlayVars
  <2> QED BY <1>2, <2>1, <2>2, <2>3 DEF FromClients
<1>3. ASSUME NEW b \in Brokers,
             \/ Starts(b) \/ HelloAck(b) \/ Sweep(b) \/ EpollTimeout(b) \/ StatsRequest(b)
             \/ LoseUp(b) \/ LoseDown(b)
      PROVE  ActiveChildrenKnown'
  BY <1>1, <1>3, OthersKnow
<1>4. ASSUME NEW c \in Brokers, FromChild(c) PROVE ActiveChildrenKnown'
  BY <1>4, RegionsKnow, SubscribeKnows, Published, PublishKnows, RecordsStay
  DEF FromChild, ChildPublish
<1>5. ASSUME NEW b \in Brokers, ParentPublish(b) PROVE ActiveChildrenKnown'
  BY <1>5, Published, PublishKnows, RecordsStay DEF ParentPublish
<1>6. CASE Tick \/ UNCHANGED vars
  BY <1>1, <1>6 DEF Tick, vars, tableVars, overlayVars
<1> QED
  BY <1>2, <1>3, <1>4, <1>5, <1>6, CrashKnows DEF Next, FromParent

\* child_active_ only ever names children that have an address to forward to.
THEOREM InterestIsOfKnownChildren == Spec => []ActiveChildrenKnown
<1>1. Init => ActiveChildrenKnown
  BY DEF Init, ActiveChildrenKnown
<1>2. TypeOK /\ ActiveChildrenKnown /\ [Next]_vars => ActiveChildrenKnown'
  BY NextKnows
<1> QED BY <1>1, <1>2, TypeCorrect, PTL DEF Spec
-----------------------------------------------------------------------------
\* The key files.

\* All brokers share the files of one root.
OneRoot == \A a, b \in Brokers : ~has_parent(a) /\ ~has_parent(b) => a = b

\* No key is newer than the last one made.
MadeKeys ==
    /\ key_file <= keys_made /\ full_key_file <= keys_made
    /\ \A b \in Brokers : he_key[b] <= keys_made
    /\ \A key \in client_keys : key <= keys_made

\* Only a root that holds the last key made writes files, and from the end of
\* fclose on the brokers' file holds that key, at last the clients' file too.
KeyInv ==
    /\ MadeKeys
    /\ \A b \in Brokers : phase[b] \in {"writing", "published", "sharing"} => ~has_parent(b)
    /\ \A r \in Brokers : ~has_parent(r) =>
         /\ phase[r] \in {"writing", "published", "sharing", "running"}
              => he_key[r] = keys_made
         /\ phase[r] \in {"published", "sharing", "running"} => key_file = keys_made
         /\ phase[r] = "running" => full_key_file = keys_made
    /\ key_file # NoKey => \A key \in client_keys : key <= key_file

\* Neither a process nor a file changes outside starts and kills.
LEMMA OnlyStartsAndKills ==
  ASSUME [Next]_vars, ~ \E b \in Brokers : Starts(b) \/ Crash(b)
  PROVE  UNCHANGED <<phase, he_key, fileVars>>
<1>1. CASE FromClients
  <2>1. \A s : ClientSubscribe(s) => LoopBody(s.broker)
    BY DEF ClientSubscribe
  <2>2. \A p : ClientPublish(p) => LoopBody(p.broker)
    BY DEF ClientPublish, HandlePublish
  <2>3. \A h : Heartbeat(h) => LoopBody(h.broker)
    BY DEF Heartbeat
  <2> QED BY <1>1, <2>1, <2>2, <2>3 DEF FromClients, LoopBody
<1>2. ASSUME NEW c \in Brokers, FromChild(c) \/ FromParent(c)
      PROVE  UNCHANGED <<phase, he_key, fileVars>>
  <2>1. Hello(c) \/ ChildSubscribe(c) \/ ChildRegion(c) => LoopBody(Parent[c])
    BY DEF Hello, ChildSubscribe, ChildRegion
  <2>2. ChildPublish(c) => LoopBody(Parent[c])
    BY DEF ChildPublish, HandlePublish
  <2>3. HelloAck(c) \/ ParentPublish(c) => LoopBody(c)
    BY DEF HelloAck, ParentPublish, HandlePublish
  <2> QED BY <1>2, <2>1, <2>2, <2>3 DEF FromChild, FromParent, LoopBody
<1>3. ASSUME NEW b \in Brokers,
             \/ Sweep(b) \/ EpollTimeout(b) \/ StatsRequest(b) \/ LoseUp(b) \/ LoseDown(b)
      PROVE  UNCHANGED <<phase, he_key, fileVars>>
  BY <1>3 DEF Sweep, EpollTimeout, StatsRequest, LoseUp, LoseDown, LoopBody, loopVars,
              tableVars, worldVars
<1>4. CASE Tick \/ UNCHANGED vars
  BY <1>4 DEF Tick, vars, loopVars, tableVars, worldVars
<1> QED BY <1>1, <1>2, <1>3, <1>4 DEF Next

\* A root's start replaces the files; a broker's start loads what is there.
LEMMA StartsKeys ==
  ASSUME OneRoot, TypeOK, KeyInv, NEW b \in Brokers, Starts(b)
  PROVE  KeyInv'
<1>1. /\ phase \in [Brokers -> Phases]
      /\ he_key \in [Brokers -> Nat]
      /\ key_file \in Nat /\ full_key_file \in Nat /\ keys_made \in Nat
      /\ client_keys \in SUBSET Nat
  BY DEF TypeOK, ProcessTypes
<1>2. CASE Bind(b) \/ FailFast(b)
  <2>1. UNCHANGED <<he_key, fileVars>> /\ phase' = [phase EXCEPT ![b] = phase'[b]]
        /\ phase'[b] \in {"bound", "down"}
    BY <1>1, <1>2 DEF Bind, FailFast, Vanish, tableVars, worldVars
  <2> QED BY <1>1, <2>1 DEF KeyInv, MadeKeys, fileVars, has_parent
<1>3. CASE GenerateKey(b)
  BY <1>1, <1>3 DEF GenerateKey, KeyInv, MadeKeys, OneRoot, NoKey, has_parent
<1>4. CASE WriteKeyFile(b)
  BY <1>1, <1>4 DEF WriteKeyFile, tableVars, KeyInv, MadeKeys, OneRoot, has_parent
<1>5. CASE UnlinkFullKeyFile(b)
  BY <1>1, <1>5 DEF UnlinkFullKeyFile, tableVars, KeyInv, MadeKeys, OneRoot, NoKey, has_parent
<1>6. CASE WriteFullKeyFile(b)
  BY <1>1, <1>6
  DEF WriteFullKeyFile, Started, tableVars, KeyInv, MadeKeys, OneRoot, has_parent
<1>7. CASE LoadKey(b)
  BY <1>1, <1>7 DEF LoadKey, Started, fileVars, KeyInv, MadeKeys, NoKey, has_parent
<1> QED BY <1>2, <1>3, <1>4, <1>5, <1>6, <1>7 DEF Starts

\* A kill leaves the files as they are.
LEMMA CrashKeys ==
  ASSUME TypeOK, KeyInv, NEW b \in Brokers, Crash(b)
  PROVE  KeyInv'
<1>1. /\ phase \in [Brokers -> Phases]
      /\ he_key \in [Brokers -> Nat]
      /\ key_file \in Nat /\ full_key_file \in Nat /\ keys_made \in Nat
  BY DEF TypeOK, ProcessTypes
<1>2. /\ phase' = [phase EXCEPT ![b] = "down"] /\ he_key' = [he_key EXCEPT ![b] = NoKey]
      /\ UNCHANGED fileVars
  BY DEF Crash, Vanish
<1> QED
  BY <1>1, <1>2 DEF KeyInv, MadeKeys, fileVars, NoKey, has_parent

\* With one root, whoever loads a key agrees with those who load theirs at the
\* same time, in whatever order the processes start and are killed, between any
\* two file operations of a root's start (initCrypto).
THEOREM LoadersKeepUp ==
  ASSUME OneRoot
  PROVE  Spec => []LoadersAgree
<1>1. Init => KeyInv
  BY DEF Init, KeyInv, MadeKeys, NoKey
<1>2. TypeOK /\ KeyInv /\ [Next]_vars => KeyInv'
  <2> SUFFICES ASSUME TypeOK, KeyInv, [Next]_vars PROVE KeyInv'
    OBVIOUS
  <2>1. CASE UNCHANGED <<phase, he_key, fileVars>>
    BY <2>1 DEF KeyInv, MadeKeys, fileVars, has_parent
  <2> QED BY <2>1, OnlyStartsAndKills, StartsKeys, CrashKeys
<1>3. KeyInv => LoadersAgree
  BY DEF KeyInv, MadeKeys, LoadersAgree
<1> QED BY <1>1, <1>2, <1>3, TypeCorrect, PTL DEF Spec

-----------------------------------------------------------------------------
\* Blinded publications.

\* A blinded publication that a broker passes on has a hashed name.
Hashed(m) == m.bn # NoBlind => m.key.h = 1
AllHashed(channel) ==
    \A i \in DOMAIN channel : channel[i].type = "PUBLISH" => Hashed(channel[i])

\* With require_he, a broker past initCrypto has a key, so that every blinded
\* publication it files or sends has a hashed name.
FiledInv ==
    /\ \A b \in Brokers : phase[b] \in {"writing", "published", "sharing", "running"} => he_enabled(b)
    /\ \A c \in Brokers : AllHashed(up[c]) /\ AllHashed(down[c])
    /\ NeverFiledInPlain

\* Taking, adding and joining keep a channel hashed.
LEMMA HashedTail ==
  ASSUME NEW M, NEW s \in Seq(M), s # << >>, AllHashed(s)
  PROVE  /\ AllHashed(Tail(s))
         /\ Head(s).type = "PUBLISH" => Hashed(Head(s))
<1>1. \A i \in 1 .. Len(Tail(s)) : Tail(s)[i] = s[i + 1] /\ i + 1 \in 1 .. Len(s)
  BY HeadTailProperties
<1>2. Head(s) = s[1] /\ 1 \in DOMAIN s /\ Tail(s) \in Seq(M)
  BY HeadTailProperties
<1> QED BY <1>1, <1>2 DEF AllHashed

LEMMA HashedAppend ==
  ASSUME NEW M, NEW s \in Seq(M), NEW m \in M, AllHashed(s),
         m.type = "PUBLISH" => Hashed(m)
  PROVE  AllHashed(Append(s, m))
BY DEF AllHashed

LEMMA HashedJoin ==
  ASSUME NEW M, NEW s \in Seq(M), NEW t \in Seq(M), AllHashed(s), AllHashed(t)
  PROVE  AllHashed(s \o t)
<1>1. \A i \in 1 .. Len(s \o t) :
        \/ i \in DOMAIN s /\ (s \o t)[i] = s[i]
        \/ i - Len(s) \in DOMAIN t /\ (s \o t)[i] = t[i - Len(s)]
  OBVIOUS
<1>2. DOMAIN (s \o t) = 1 .. Len(s \o t)
  OBVIOUS
<1> QED BY <1>1, <1>2 DEF AllHashed

\* What b sends to its parent keeps the channels hashed.
LEMMA HashedToParent ==
  ASSUME NEW channels \in [Brokers -> Seq(UpMsg)], NEW b \in Brokers,
         NEW msgs \in Seq(UpMsg), AllHashed(msgs),
         \A c \in Brokers : AllHashed(channels[c])
  PROVE  \A c \in Brokers : AllHashed(ToParent(channels, b, msgs)[c])
<1>1. AllHashed(channels[b] \o msgs)
  BY HashedJoin
<1> QED BY <1>1 DEF ToParent

\* The name a keyed broker files and forwards a publication under is hashed, if

\* the publisher sent it in plain or another broker has hashed it.
LEMMA KeyIsHashed ==
  ASSUME NEW b \in Brokers, he_enabled(b), NEW m \in PublishMsg, NEW from,
         IF from = NoBroker THEN m.key.h = 0 ELSE Hashed(m),
         m.bn # NoBlind
  PROVE  PubKey(b, m, from).h = 1
<1>1. m.key \in Keys
  BY DEF PublishMsg
<1>2. CASE from = NoBroker
  <2>1. hashServiceName(m.key).h = 1
    BY <1>1, <1>2 DEF hashServiceName, Keys, MaxHash
  <2> QED BY <1>2, <2>1 DEF PubKey
<1>3. CASE from # NoBroker
  BY <1>3 DEF PubKey, Hashed
<1> QED BY <1>2, <1>3

\* The cache holds what it held, and the new entry.
LEMMA CachedEntry ==
  ASSUME NEW S, NEW cache \in Seq(S), NEW entry \in S,
         NEW i \in DOMAIN Cached(cache, entry)
  PROVE  \/ Cached(cache, entry)[i] = entry
         \/ \E j \in DOMAIN cache : Cached(cache, entry)[i] = cache[j]
<1> DEFINE longer == Append(cache, entry)
<1>1. longer \in Seq(S) /\ longer # << >> /\ Len(longer) = Len(cache) + 1
  OBVIOUS
<1>2. \A j \in 1 .. Len(longer) :
        longer[j] = entry \/ (j \in DOMAIN cache /\ longer[j] = cache[j])
  OBVIOUS
<1> HIDE DEF longer
<1>3. \A j \in 1 .. Len(Tail(longer)) :
        j + 1 \in 1 .. Len(longer) /\ Tail(longer)[j] = longer[j + 1]
  BY <1>1, HeadTailProperties
<1>4. Tail(longer) \in Seq(S)
  BY <1>1, HeadTailProperties
<1>5. CASE Cached(cache, entry) = longer
  BY <1>1, <1>2, <1>5
<1>6. CASE Cached(cache, entry) = Tail(longer)
  BY <1>2, <1>3, <1>4, <1>6
<1> QED BY <1>5, <1>6 DEF Cached, longer

\* handlePublish files and sends hashed names.
LEMMA PublishFiles ==
  ASSUME TypeOK, FiledInv, RequireHe, NEW b \in Brokers, AtEpoll(b), NEW m \in PublishMsg,
         NEW from, IF from = NoBroker THEN m.key.h = 0 ELSE Hashed(m),
         NEW upIn \in [Brokers -> Seq(UpMsg)], NEW downIn \in [Brokers -> Seq(DownMsg)],
         \A c \in Brokers : AllHashed(upIn[c]) /\ AllHashed(downIn[c]),
         HandlePublish(b, m, from, upIn, downIn)
  PROVE  FiledInv'
<1> DEFINE k == PubKey(b, m, from)
           fwd == [type |-> "PUBLISH", key |-> k, pos |-> m.pos, bn |-> m.bn, id |-> m.id]
           entry == [pos |-> m.pos, id |-> m.id, bn |-> m.bn]
           told == Told(b, k, m, from)
<1>1. he_enabled(b)
  BY DEF FiledInv, AtEpoll
<1>2. Hashed(fwd) /\ (m.bn # NoBlind => k.h = 1)
  BY <1>1, KeyIsHashed DEF Hashed
<1>3. k \in Keys
  BY PubKeyType
<1>4. fwd \in UpMsg /\ fwd \in DownMsg
  BY <1>3 DEF UpMsg, DownMsg, PublishMsg
<1>5. /\ pub_cache' = [pub_cache EXCEPT ![b][k] = Cached(@, entry)]
      /\ up' = IF PassesUp(b, k, m, from) THEN ToParent(upIn, b, <<fwd>>) ELSE upIn
      /\ down' = [c \in Brokers |-> IF c \in told /\ Bound(c) THEN Append(downIn[c], fwd)
                                     ELSE downIn[c]]
      /\ UNCHANGED <<phase, he_key>>
  BY DEF HandlePublish, LoopBody
<1> HIDE DEF k, fwd, told
<1>6. \A c \in Brokers : AllHashed(up'[c])
  <2>1. AllHashed(<<fwd>>) /\ <<fwd>> \in Seq(UpMsg)
    BY <1>2, <1>4 DEF AllHashed
  <2> QED BY <1>5, <2>1, HashedToParent
<1>7. \A c \in Brokers : AllHashed(down'[c])
  <2> TAKE c \in Brokers
  <2>1. AllHashed(Append(downIn[c], fwd))
    BY <1>2, <1>4, HashedAppend
  <2> QED BY <1>5, <2>1
<1>8. NeverFiledInPlain'
  <2> SUFFICES ASSUME NEW a \in Brokers, NEW l \in Keys,
                      NEW i \in DOMAIN pub_cache'[a][l],
                      pub_cache'[a][l][i].bn # NoBlind
               PROVE  l.h = 1
    BY DEF NeverFiledInPlain
  <2>1. pub_cache \in [Brokers -> [Keys -> Seq(CachedPub)]]
    BY DEF TypeOK, GroupTypes
  <2>2. CASE a = b /\ l = k
    <3>1. pub_cache'[a][l] = Cached(pub_cache[b][k], entry)
      BY <1>3, <1>5, <2>1, <2>2
    <3>2. /\ pub_cache[b][k] \in Seq(CachedPub) /\ entry \in CachedPub
      BY <1>3, <2>1 DEF CachedPub, PublishMsg
    <3>3. \/ pub_cache'[a][l][i] = entry
          \/ \E j \in DOMAIN pub_cache[b][k] : pub_cache'[a][l][i] = pub_cache[b][k][j]
      BY <3>1, <3>2, CachedEntry
    <3> QED BY <1>2, <1>3, <2>2, <3>3 DEF FiledInv, NeverFiledInPlain
  <2>3. CASE ~(a = b /\ l = k)
    <3>1. pub_cache'[a][l] = pub_cache[a][l]
      BY <1>3, <1>5, <2>1, <2>3
    <3> QED BY <3>1 DEF FiledInv, NeverFiledInPlain
  <2> QED BY <2>2, <2>3
<1>9. \A a \in Brokers : phase'[a] \in {"writing", "published", "sharing", "running"} => he_enabled(a)'
  BY <1>5 DEF FiledInv, he_enabled
<1> QED BY <1>6, <1>7, <1>8, <1>9 DEF FiledInv

\* Without a publication, only the channels can go wrong.
LEMMA QuietFiles ==
  ASSUME FiledInv, UNCHANGED <<phase, he_key, pub_cache>>,
         \A c \in Brokers : AllHashed(up'[c]) /\ AllHashed(down'[c])
  PROVE  FiledInv'
BY DEF FiledInv, NeverFiledInPlain, he_enabled

\* The messages that are no publications.
LEMMA OtherMessages ==
  /\ \A b, region : AllHashed(RegionUpdates(b, region))
  /\ \A b, k : AllHashed(Relay(b, k))
  /\ \A b : AllHashed(<< [type |-> "HELLO", id |-> b, pos |-> Home[b]] >>)
BY DEF AllHashed, RegionUpdates, RegionUpdate, Relay

\* Taking the head of a channel.
LEMMA TakenHashed ==
  ASSUME NEW M, NEW channels \in [Brokers -> Seq(M)], NEW c \in Brokers,
         channels[c] # << >>, \A x \in Brokers : AllHashed(channels[x])
  PROVE  \A x \in Brokers : AllHashed([channels EXCEPT ![c] = Tail(@)][x])
<1>1. AllHashed(Tail(channels[c]))
  BY HashedTail
<1> QED BY <1>1

\* A start gives a broker its key before it runs.
LEMMA StartsFile ==
  ASSUME TypeOK, FiledInv, RequireHe, NEW b \in Brokers, Starts(b)
  PROVE  FiledInv'
<1>1. /\ phase \in [Brokers -> Phases]
      /\ he_key \in [Brokers -> Nat] /\ keys_made \in Nat /\ key_file \in Nat
      /\ up \in [Brokers -> Seq(UpMsg)] /\ down \in [Brokers -> Seq(DownMsg)]
  BY DEF TypeOK, ProcessTypes, NetworkTypes
<1>2. UNCHANGED pub_cache
  BY DEF Starts, Bind, GenerateKey, WriteKeyFile, UnlinkFullKeyFile,
    WriteFullKeyFile, LoadKey, FailFast,
         tableVars, groupVars
<1>3. \A c \in Brokers : AllHashed(up'[c]) /\ AllHashed(down'[c])
  <2>1. CASE Bind(b) \/ GenerateKey(b) \/ WriteKeyFile(b) \/ UnlinkFullKeyFile(b)
    BY <2>1 DEF FiledInv, Bind, GenerateKey, WriteKeyFile, UnlinkFullKeyFile, worldVars
  <2>2. CASE WriteFullKeyFile(b) \/ LoadKey(b)
    <3>1. << [type |-> "HELLO", id |-> b, pos |-> Home[b]] >> \in Seq(UpMsg)
      <4>1. [type |-> "HELLO", id |-> b, pos |-> Home[b]] \in UpMsg
        BY BrokerAssumption DEF UpMsg, HelloMsg
      <4> QED BY <4>1
    <3>2. /\ up' = ToParent(up, b, << [type |-> "HELLO", id |-> b, pos |-> Home[b]] >>)
          /\ UNCHANGED down
      BY <2>2 DEF WriteFullKeyFile, LoadKey, Started
    <3> QED BY <1>1, <3>1, <3>2, HashedToParent, OtherMessages DEF FiledInv
  <2>3. CASE FailFast(b)
    BY <1>1, <2>3 DEF FailFast, Vanish, FiledInv, AllHashed
  <2> QED BY <2>1, <2>2, <2>3 DEF Starts
<1>4. \A a \in Brokers : phase'[a] \in {"writing", "published", "sharing", "running"} => he_enabled(a)'
  <2>1. CASE Bind(b) \/ FailFast(b)
    <3>1. UNCHANGED he_key /\ phase' = [phase EXCEPT ![b] = phase'[b]]
          /\ phase'[b] \in {"bound", "down"}
      BY <1>1, <2>1 DEF Bind, FailFast, Vanish, tableVars
    <3> QED BY <1>1, <3>1 DEF FiledInv, he_enabled
  <2>2. CASE GenerateKey(b)
    BY <1>1, <2>2 DEF GenerateKey, FiledInv, he_enabled, NoKey
  <2>3. CASE WriteKeyFile(b) \/ UnlinkFullKeyFile(b) \/ WriteFullKeyFile(b)
    BY <1>1, <2>3
    DEF WriteKeyFile, UnlinkFullKeyFile, WriteFullKeyFile, Started, tableVars, FiledInv,
        he_enabled
  <2>4. CASE LoadKey(b)
    BY <1>1, <2>4 DEF LoadKey, KeyUsable, Started, FiledInv, he_enabled
  <2> QED BY <2>1, <2>2, <2>3, <2>4 DEF Starts
<1> QED BY <1>2, <1>3, <1>4 DEF FiledInv, NeverFiledInPlain

\* A kill empties the cache and the channels to the broker.
LEMMA CrashFiles ==
  ASSUME TypeOK, FiledInv, NEW b \in Brokers, Crash(b)
  PROVE  FiledInv'
<1>1. /\ phase \in [Brokers -> Phases]
      /\ he_key \in [Brokers -> Nat]
      /\ pub_cache \in [Brokers -> [Keys -> Seq(CachedPub)]]
      /\ up \in [Brokers -> Seq(UpMsg)] /\ down \in [Brokers -> Seq(DownMsg)]
  BY DEF TypeOK, ProcessTypes, GroupTypes, NetworkTypes
<1>2. /\ Vanish(b) /\ he_key' = [he_key EXCEPT ![b] = NoKey]
      /\ pub_cache' = [pub_cache EXCEPT ![b] = EmptyKeyed]
  BY DEF Crash
<1>3. \A c \in Brokers : AllHashed(up'[c]) /\ AllHashed(down'[c])
  BY <1>1, <1>2 DEF Vanish, FiledInv, AllHashed
<1>4. \A a \in Brokers : phase'[a] \in {"writing", "published", "sharing", "running"} => he_enabled(a)'
  BY <1>1, <1>2 DEF Vanish, FiledInv, he_enabled
<1>5. NeverFiledInPlain'
  BY <1>1, <1>2 DEF FiledInv, NeverFiledInPlain, EmptyKeyed
<1> QED BY <1>3, <1>4, <1>5 DEF FiledInv

\* Subscriptions travel upward without a publication.
LEMMA SubscribeFiles ==
  ASSUME TypeOK, FiledInv,
         (\E s \in Subscriptions : ClientSubscribe(s))
           \/ \E c \in Brokers : ChildSubscribe(c)
  PROVE  FiledInv'
<1>1. up \in [Brokers -> Seq(UpMsg)] /\ \A c \in Brokers : AllHashed(up[c])
  BY DEF TypeOK, NetworkTypes, FiledInv
<1>2. ASSUME NEW s \in Subscriptions, ClientSubscribe(s)
      PROVE  FiledInv'
  <2> DEFINE b == s.broker
             region == Merge(my_region[b], RegionOf(s.pos))
             msgs == RegionUpdates(b, region) \o Relay(b, SubKey(b, s))
  <2>1. s \in SubscriptionType /\ b \in Brokers /\ s.pos \in Points
    BY BrokerAssumption DEF SubscriptionType
  <2>2. region \in RegionType
    BY <2>1, RegionOfType, MergeType DEF TypeOK, OverlayTypes
  <2>3. RegionUpdates(b, region) \in Seq(UpMsg) /\ Relay(b, SubKey(b, s)) \in Seq(UpMsg)
    BY <2>1, <2>2, RegionUpdatesType, RelayType, SubKeyType
  <2>4. msgs \in Seq(UpMsg) /\ AllHashed(msgs)
    BY <2>3, HashedJoin, OtherMessages
  <2>5. up' = ToParent(up, b, msgs) /\ UNCHANGED <<phase, he_key, pub_cache, down>>
    BY <1>2 DEF ClientSubscribe, LoopBody
  <2> HIDE DEF msgs, b
  <2>6. \A c \in Brokers : AllHashed(up'[c])
    BY <1>1, <2>1, <2>4, <2>5, HashedToParent
  <2> QED BY <2>5, <2>6, QuietFiles DEF FiledInv
<1>3. ASSUME NEW c \in Brokers, ChildSubscribe(c)
      PROVE  FiledInv'
  <2> DEFINE b == Parent[c]
             k == Head(up[c]).key
             taken == [up EXCEPT ![c] = Tail(@)]
  <2>1. /\ b \in Brokers /\ up[c] # << >> /\ Head(up[c]).type = "SUBSCRIBE"
        /\ UNCHANGED <<phase, he_key, pub_cache, down>>
        /\ up' = ToParent(taken, b, Relay(b, k)) \/ up' = taken
    BY <1>3, BrokerAssumption DEF ChildSubscribe, Bound, LoopBody, groupVars
  <2>2. taken \in [Brokers -> Seq(UpMsg)] /\ \A x \in Brokers : AllHashed(taken[x])
    BY <1>1, <2>1, TakenType, TakenHashed
  <2>3. k \in Keys
    BY <1>1, <2>1, HeadTailProperties, UpMsgTypes DEF SubscribeMsg
  <2>4. Relay(b, k) \in Seq(UpMsg) /\ AllHashed(Relay(b, k))
    BY <2>1, <2>3, RelayType, OtherMessages
  <2> HIDE DEF taken, k, b
  <2>5. \A x \in Brokers : AllHashed(up'[x])
    BY <2>1, <2>2, <2>4, HashedToParent
  <2> QED BY <2>1, <2>5, QuietFiles DEF FiledInv
<1> QED BY <1>2, <1>3

\* A region that travels on is typed.
LEMMA RegionTravels ==
  ASSUME TypeOK, NEW c \in Brokers, ChildRegion(c)
  PROVE  LET taken == [up EXCEPT ![c] = Tail(@)]
         IN  \E region \in RegionType :
               up' = taken \/ up' = ToParent(taken, Parent[c], RegionUpdates(Parent[c], region))
<1> DEFINE b == Parent[c]
           m == Head(up[c])
           kids == [children[b] EXCEPT ![m.id] = [@ EXCEPT !.region = m.region]]
<1>1. b \in Brokers /\ up[c] # << >> /\ up \in [Brokers -> Seq(UpMsg)]
  BY BrokerAssumption DEF ChildRegion, Bound, TypeOK, NetworkTypes
<1>2. CASE children[b][m.id] = NoChild
  BY <1>1, <1>2 DEF ChildRegion, TypeOK, OverlayTypes
<1>3. CASE children[b][m.id] # NoChild
  <2>1. m.id \in Brokers /\ m.region \in RegionType
    BY <1>1, HeadTailProperties, UpMsgTypes DEF ChildRegion, RegionMsg
  <2>2. children[b] \in [Brokers -> ChildBroker \cup {NoChild}]
    BY <1>1 DEF TypeOK, OverlayTypes
  <2>3. kids \in [Brokers -> ChildBroker \cup {NoChild}]
    <3>1. children[b][m.id] \in ChildBroker
      BY <1>3, <2>1, <2>2
    <3> HIDE DEF m, b
    <3>2. [children[b][m.id] EXCEPT !.region = m.region] \in ChildBroker
      BY <2>1, <3>1 DEF ChildBroker
    <3> QED BY <2>1, <2>2, <3>2
  <2>4. MyRegion(b, kids) \in RegionType
    <3> HIDE DEF kids, b
    <3> QED BY <1>1, <2>3, MyRegionType
  <2>5. up' = ToParent([up EXCEPT ![c] = Tail(@)], b, RegionUpdates(b, MyRegion(b, kids)))
    BY <1>3 DEF ChildRegion
  <2> QED BY <2>4, <2>5
<1> QED BY <1>2, <1>3

\* So do HELLO and REGION_UPDATE.
LEMMA RegionsFile ==
  ASSUME TypeOK, FiledInv, NEW c \in Brokers, Hello(c) \/ ChildRegion(c)
  PROVE  FiledInv'
<1> DEFINE b == Parent[c]
           m == Head(up[c])
           taken == [up EXCEPT ![c] = Tail(@)]
<1>1. /\ up \in [Brokers -> Seq(UpMsg)] /\ down \in [Brokers -> Seq(DownMsg)]
      /\ \A x \in Brokers : AllHashed(up[x]) /\ AllHashed(down[x])
  BY DEF TypeOK, NetworkTypes, FiledInv
<1>2. /\ b \in Brokers /\ up[c] # << >>
      /\ UNCHANGED <<phase, he_key, pub_cache>>
  BY BrokerAssumption DEF Hello, ChildRegion, Bound, LoopBody, groupVars
<1>3. taken \in [Brokers -> Seq(UpMsg)] /\ \A x \in Brokers : AllHashed(taken[x])
  BY <1>1, <1>2, TakenType, TakenHashed
<1>4. CASE Hello(c)
  <2>1. AllHashed(Append(down[c], [type |-> "HELLO_ACK", id |-> b]))
    <3>1. [type |-> "HELLO_ACK", id |-> b] \in DownMsg
      BY <1>2 DEF DownMsg, HelloAckMsg
    <3> QED BY <1>1, <3>1, HashedAppend
  <2>2. \A x \in Brokers : AllHashed(down'[x])
    BY <1>1, <1>4, <2>1 DEF Hello
  <2>3. up' = taken
    BY <1>4 DEF Hello
  <2> QED BY <1>2, <1>3, <2>2, <2>3, QuietFiles
<1>5. CASE ChildRegion(c)
  <2>1. PICK region \in RegionType :
          up' = taken \/ up' = ToParent(taken, b, RegionUpdates(b, region))
    BY <1>5, RegionTravels
  <2>2. UNCHANGED down
    BY <1>5 DEF ChildRegion
  <2>3. RegionUpdates(b, region) \in Seq(UpMsg) /\ AllHashed(RegionUpdates(b, region))
    BY <1>2, RegionUpdatesType, OtherMessages
  <2> HIDE DEF taken, b
  <2>4. \A x \in Brokers : AllHashed(up'[x])
    BY <1>2, <1>3, <2>1, <2>3, HashedToParent
  <2> QED BY <1>1, <1>2, <2>2, <2>4, QuietFiles
<1> QED BY <1>4, <1>5

\* A publisher's datagram has a plain name, a broker's a hashed one.
LEMMA PublicationsFile ==
  ASSUME TypeOK, FiledInv, RequireHe,
         \/ \E p \in Publications : ClientPublish(p)
         \/ \E b \in Brokers : ChildPublish(b) \/ ParentPublish(b)
  PROVE  FiledInv'
<1>1. /\ up \in [Brokers -> Seq(UpMsg)] /\ down \in [Brokers -> Seq(DownMsg)]
      /\ \A x \in Brokers : AllHashed(up[x]) /\ AllHashed(down[x])
  BY DEF TypeOK, NetworkTypes, FiledInv
<1>2. ASSUME NEW p \in Publications, ClientPublish(p) PROVE FiledInv'
  <2>1. PICK m \in PublishMsg : /\ FromPublisher(p, m)
                               /\ HandlePublish(p.broker, m, NoBroker, up, down)
    BY <1>2, Published
  <2>2. p.broker \in Brokers /\ AtEpoll(p.broker)
    BY <1>2, Published
  <2>3. m.key.h = 0
    BY <2>1 DEF FromPublisher, Name
  <2> QED BY <1>1, <2>1, <2>2, <2>3, PublishFiles
<1>3. ASSUME NEW c \in Brokers, ChildPublish(c) PROVE FiledInv'
  <2> DEFINE taken == [up EXCEPT ![c] = Tail(@)]
  <2>1. /\ Parent[c] \in Brokers /\ Head(up[c]) \in PublishMsg /\ c # NoBroker
        /\ up[c] # << >> /\ Head(up[c]).type = "PUBLISH"
    BY <1>3, Published, BrokerAssumption DEF ChildPublish
  <2>2. taken \in [Brokers -> Seq(UpMsg)] /\ \A x \in Brokers : AllHashed(taken[x])
    BY <1>1, <2>1, TakenType, TakenHashed
  <2>3. Hashed(Head(up[c]))
    BY <1>1, <2>1, HashedTail
  <2>4. AtEpoll(Parent[c]) /\ HandlePublish(Parent[c], Head(up[c]), c, taken, down)
    BY <1>3 DEF ChildPublish
  <2> HIDE DEF taken
  <2> QED BY <1>1, <2>1, <2>2, <2>3, <2>4, PublishFiles
<1>4. ASSUME NEW b \in Brokers, ParentPublish(b) PROVE FiledInv'
  <2> DEFINE taken == [down EXCEPT ![b] = Tail(@)]
  <2>1. /\ Head(down[b]) \in PublishMsg /\ Parent[b] # NoBroker
        /\ down[b] # << >> /\ Head(down[b]).type = "PUBLISH"
    BY <1>4, Published DEF ParentPublish, has_parent
  <2>2. taken \in [Brokers -> Seq(DownMsg)] /\ \A x \in Brokers : AllHashed(taken[x])
    BY <1>1, <2>1, TakenType, TakenHashed
  <2>3. Hashed(Head(down[b]))
    BY <1>1, <2>1, HashedTail
  <2>4. AtEpoll(b) /\ HandlePublish(b, Head(down[b]), Parent[b], up, taken)
    BY <1>4 DEF ParentPublish
  <2> HIDE DEF taken
  <2> QED BY <1>1, <2>1, <2>2, <2>3, <2>4, PublishFiles
<1> QED BY <1>2, <1>3, <1>4

\* The cleanup only takes publications out of the cache.
LEMMA SweepFiles ==
  ASSUME TypeOK, FiledInv, NEW b \in Brokers, Sweep(b)
  PROVE  FiledInv'
<1>1. UNCHANGED <<phase, he_key, up, down>>
  BY DEF Sweep, worldVars
<1>2. pub_cache \in [Brokers -> [Keys -> Seq(CachedPub)]]
  BY DEF TypeOK, GroupTypes
<1>3. \A a \in Brokers : \A k \in Keys :
        pub_cache'[a][k] = pub_cache[a][k] \/ pub_cache'[a][k] = << >>
  <2>1. CASE CleanupDue(b)
    <3>1. pub_cache' = Without(pub_cache, b, Expired(b), << >>)
      BY <2>1 DEF Sweep, cleanupExpired
    <3> QED BY <1>2, <3>1 DEF Without
  <2>2. CASE ~CleanupDue(b)
    BY <2>2 DEF Sweep
  <2> QED BY <2>1, <2>2
<1>4. NeverFiledInPlain'
  <2> SUFFICES ASSUME RequireHe, NEW a \in Brokers, NEW k \in Keys,
                      NEW i \in DOMAIN pub_cache'[a][k],
                      pub_cache'[a][k][i].bn # NoBlind
               PROVE  k.h = 1
    BY DEF NeverFiledInPlain
  <2>1. pub_cache'[a][k] = pub_cache[a][k]
    BY <1>3
  <2> QED BY <2>1 DEF FiledInv, NeverFiledInPlain
<1> QED BY <1>1, <1>4 DEF FiledInv, he_enabled

\* A datagram that is lost or ignored takes nothing along.
LEMMA OthersFile ==
  ASSUME TypeOK, FiledInv, NEW b \in Brokers,
         HelloAck(b) \/ EpollTimeout(b) \/ StatsRequest(b) \/ LoseUp(b) \/ LoseDown(b)
  PROVE  FiledInv'
<1>1. UNCHANGED <<phase, he_key, pub_cache>>
  BY DEF HelloAck, EpollTimeout, StatsRequest, LoseUp, LoseDown, LoopBody, loopVars,
         tableVars, groupVars
<1>2. /\ up \in [Brokers -> Seq(UpMsg)] /\ down \in [Brokers -> Seq(DownMsg)]
      /\ \A x \in Brokers : AllHashed(up[x]) /\ AllHashed(down[x])
  BY DEF TypeOK, NetworkTypes, FiledInv
<1>3. \A x \in Brokers : AllHashed(up'[x])
  <2>1. CASE LoseUp(b)
    BY <1>2, <2>1, TakenHashed DEF LoseUp
  <2>2. CASE ~LoseUp(b)
    BY <1>2, <2>2 DEF HelloAck, EpollTimeout, StatsRequest, LoseDown
  <2> QED BY <2>1, <2>2
<1>4. \A x \in Brokers : AllHashed(down'[x])
  <2>1. CASE LoseDown(b) \/ HelloAck(b)
    BY <1>2, <2>1, TakenHashed DEF LoseDown, HelloAck
  <2>2. CASE ~(LoseDown(b) \/ HelloAck(b))
    BY <1>2, <2>2 DEF EpollTimeout, StatsRequest, LoseUp
  <2> QED BY <2>1, <2>2
<1> QED BY <1>1, <1>3, <1>4, QuietFiles

LEMMA NextFiles ==
  ASSUME TypeOK, FiledInv, RequireHe, [Next]_vars
  PROVE  FiledInv'
<1>1. CASE (\E h \in Beats : Heartbeat(h)) \/ Tick \/ UNCHANGED vars
  <2>1. UNCHANGED <<phase, he_key, pub_cache, up, down>>
    BY <1>1 DEF Heartbeat, Tick, LoopBody, vars, loopVars, tableVars, groupVars, worldVars
  <2> QED BY <2>1, QuietFiles DEF FiledInv
<1> QED
  BY <1>1, PublicationsFile, SubscribeFiles, RegionsFile, StartsFile, CrashFiles,
     SweepFiles, OthersFile
  DEF Next, FromClients, FromChild, FromParent

\* With require_he, no publication that carries a blinded value is ever filed
\* under a plaintext name, whatever starts, dies or is lost (PubKey, initCrypto).
THEOREM EncryptedStaysEncrypted == Spec => []NeverFiledInPlain
<1>1. CASE RequireHe
  <2>1. Init => FiledInv
    BY DEF Init, FiledInv, AllHashed, NeverFiledInPlain, EmptyKeyed
  <2>2. TypeOK /\ FiledInv /\ [Next]_vars => FiledInv'
    BY <1>1, NextFiles
  <2>3. FiledInv => NeverFiledInPlain
    BY DEF FiledInv
  <2> QED BY <2>1, <2>2, <2>3, TypeCorrect, PTL DEF Spec
<1>2. CASE ~RequireHe
  <2>1. NeverFiledInPlain
    BY <1>2 DEF NeverFiledInPlain
  <2> QED BY <2>1, PTL
<1> QED BY <1>1, <1>2
-----------------------------------------------------------------------------
\* Soft state.

\* The loop's timing: a running broker is never idle beyond its patience, and
\* was at most one cleanup interval past its last cleanup when its last
\* iteration ended; an iteration that is not over began an epoll timeout later.
Timely(b) ==
    /\ idle[b] <= Patience(b)
    /\ now - idle[b] - last_cleanup[b]
         <= CLEANUP_INTERVAL_SEC + IF sweeping = b THEN EPOLL_TIMEOUT_SEC ELSE 0

\* A group in the table was fresh enough when the last cleanup looked at it.
SurvivedCleanup(b, k) ==
    /\ phase[b] = "running"
    /\ last_active[b][k] # NoTime
    /\ last_cleanup[b] - last_active[b][k] <= TTL_SECONDS

\* The inductive invariant.
SoftInv ==
    /\ \A b \in Brokers : last_cleanup[b] <= now
    /\ \A b \in Brokers : phase[b] = "running" => Timely(b)
    /\ \A b \in Brokers : \A k \in Keys :
         subscribers[b][k] # << >> => SurvivedCleanup(b, k)

\* A handler that neither makes nor erases a group, moves nobody, and refreshes
\* none.
SamePlaces ==
    \A b \in Brokers : \A k \in Keys : \A i \in DOMAIN subscribers'[b][k] :
      /\ i \in DOMAIN subscribers[b][k]
      /\ subscribers'[b][k][i].pos = subscribers[b][k][i].pos
LeavesGroups ==
    /\ \A b \in Brokers : \A k \in Keys :
         subscribers'[b][k] = << >> <=> subscribers[b][k] = << >>
    /\ SamePlaces
    /\ UNCHANGED <<last_active, touched>>

\* The variables soft state depends on.
softVars == <<phase, sweeping, last_cleanup, idle, now, he_key, subscribers,
              last_active, touched>>

\* A publication leaves every group as large as it was.
LEMMA PublishLeavesGroups ==
  ASSUME TypeOK, NEW b \in Brokers, NEW m \in PublishMsg, NEW from, NEW upIn, NEW downIn,
         HandlePublish(b, m, from, upIn, downIn)
  PROVE  LeavesGroups /\ LoopBody(b)
<1> DEFINE k == PubKey(b, m, from)
           group == subscribers[b][k]
<1>1. PICK served :
        /\ subscribers' = [subscribers EXCEPT ![b][k] = GroupAfter(group, m, served)]
        /\ UNCHANGED <<last_active, touched>>
        /\ LoopBody(b)
  BY DEF HandlePublish
<1>2. k \in Keys
  BY PubKeyType
<1> HIDE DEF k
<1>3. subscribers \in [Brokers -> [Keys -> Seq(GeoClient)]]
  BY DEF TypeOK, GroupTypes
<1>4. group \in Seq(GeoClient)
  BY <1>2, <1>3
<1>5. GroupAfter(group, m, served) = << >> <=> group = << >>
  <2>1. DOMAIN GroupAfter(group, m, served) = DOMAIN group
    BY DEF GroupAfter
  <2>2. group = << >> <=> DOMAIN group = {}
    <3>1. group = << >> <=> Len(group) = 0
      BY <1>4, EmptySeq
    <3>2. DOMAIN group = 1 .. Len(group) /\ Len(group) \in Nat
      BY <1>4, LenProperties
    <3> HIDE DEF group
    <3> QED
      BY <3>1, <3>2
  <2>3. GroupAfter(group, m, served) = << >> => DOMAIN group = {}
    BY <2>1
  <2>4. DOMAIN group = {} => GroupAfter(group, m, served) = << >>
    BY DEF GroupAfter
  <2> QED
    BY <2>2, <2>3, <2>4
<1> HIDE DEF group
<1>6. \A c \in Brokers : \A l \in Keys :
        subscribers'[c][l] = IF c = b /\ l = k THEN GroupAfter(group, m, served)
                             ELSE subscribers[c][l]
  BY <1>1, <1>2, <1>3
<1>7. \A c \in Brokers : \A l \in Keys :
        subscribers'[c][l] = << >> <=> subscribers[c][l] = << >>
  BY <1>5, <1>6 DEF group
<1>8. \A i \in DOMAIN GroupAfter(group, m, served) :
        i \in DOMAIN group /\ GroupAfter(group, m, served)[i].pos = group[i].pos
  BY <1>4 DEF GroupAfter, GeoClient
<1>9. SamePlaces
  <2>1. ASSUME NEW c \in Brokers, NEW l \in Keys, NEW i \in DOMAIN subscribers'[c][l]
        PROVE  i \in DOMAIN subscribers[c][l]
               /\ subscribers'[c][l][i].pos = subscribers[c][l][i].pos
    <3>1. CASE c = b /\ l = k
      BY <1>6, <1>8, <2>1, <3>1 DEF group
    <3>2. CASE ~(c = b /\ l = k)
      BY <1>6, <2>1, <3>2
    <3> QED BY <3>1, <3>2
  <2> QED BY <2>1 DEF SamePlaces
<1> QED
  BY <1>1, <1>7, <1>9 DEF LeavesGroups

\* The steps, by what they do to the groups and to the clock of the loop.
LEMMA SoftSteps ==
  ASSUME TypeOK, [Next]_vars
  PROVE  \/ \E s \in Subscriptions : ClientSubscribe(s)
         \/ \E h \in Beats : Heartbeat(h)
         \/ \E b \in Brokers : AtEpoll(b) /\ LoopBody(b) /\ LeavesGroups
         \/ \E b \in Brokers : Sweep(b) \/ Starts(b) \/ Crash(b)
         \/ Tick
         \/ UNCHANGED softVars
<1>1. ASSUME NEW p \in Publications, ClientPublish(p)
      PROVE  \E b \in Brokers : AtEpoll(b) /\ LoopBody(b) /\ LeavesGroups
  <2>1. p.broker \in Brokers /\ AtEpoll(p.broker)
    BY <1>1, Published
  <2>2. PICK m \in PublishMsg : HandlePublish(p.broker, m, NoBroker, up, down)
    BY <1>1, Published
  <2> QED
    BY <2>1, <2>2, PublishLeavesGroups
<1>2. ASSUME NEW c \in Brokers, FromChild(c)
      PROVE  \E b \in Brokers : AtEpoll(b) /\ LoopBody(b) /\ LeavesGroups
  <2>1. CASE ChildPublish(c)
    <3>1. /\ Parent[c] \in Brokers /\ Head(up[c]) \in PublishMsg /\ AtEpoll(Parent[c])
          /\ HandlePublish(Parent[c], Head(up[c]), c, [up EXCEPT ![c] = Tail(@)], down)
      BY <2>1, Published DEF ChildPublish
    <3> QED
      BY <3>1, PublishLeavesGroups
  <2>2. CASE Hello(c) \/ ChildSubscribe(c) \/ ChildRegion(c)
    <3>1. /\ Bound(Parent[c]) /\ AtEpoll(Parent[c]) /\ LoopBody(Parent[c])
          /\ UNCHANGED <<subscribers, last_active, touched>>
      BY <2>2 DEF Hello, ChildSubscribe, ChildRegion, groupVars, historyVars
    <3>2. Parent[c] \in Brokers
      BY <3>1, BrokerAssumption DEF Bound
    <3> QED
      BY <3>1, <3>2 DEF LeavesGroups, SamePlaces
  <2> QED
    BY <1>2, <2>1, <2>2 DEF FromChild
<1>3. ASSUME NEW b \in Brokers,
             ParentPublish(b) \/ HelloAck(b) \/ EpollTimeout(b) \/ StatsRequest(b)
      PROVE  AtEpoll(b) /\ LoopBody(b) /\ LeavesGroups
  <2>1. CASE ParentPublish(b)
    <3>1. /\ Head(down[b]) \in PublishMsg /\ AtEpoll(b)
          /\ HandlePublish(b, Head(down[b]), Parent[b], up,
                           [down EXCEPT ![b] = Tail(@)])
      BY <2>1, Published DEF ParentPublish
    <3> QED
      BY <3>1, PublishLeavesGroups
  <2>2. CASE HelloAck(b) \/ EpollTimeout(b) \/ StatsRequest(b)
    BY <2>2 DEF HelloAck, EpollTimeout, StatsRequest, groupVars, historyVars, LeavesGroups,
           SamePlaces
  <2> QED
    BY <1>3, <2>1, <2>2
<1>4. ASSUME NEW b \in Brokers, LoseUp(b) \/ LoseDown(b) PROVE UNCHANGED softVars
  BY <1>4 DEF LoseUp, LoseDown, loopVars, tableVars, groupVars, historyVars, softVars
<1>5. UNCHANGED vars => UNCHANGED softVars
  BY DEF vars, loopVars, tableVars, groupVars, worldVars, historyVars, softVars
<1> QED
  BY <1>1, <1>2, <1>3, <1>4, <1>5 DEF Next, FromClients, FromParent

\* A clock that is not one yet is not a time.
LEMMA SoftTypes ==
  ASSUME TypeOK
  PROVE  /\ now \in Nat /\ idle \in [Brokers -> Nat] /\ last_cleanup \in [Brokers -> Nat]
         /\ phase \in [Brokers -> Phases]
         /\ last_active \in [Brokers -> [Keys -> Nat \cup {NoTime}]]
         /\ subscribers \in [Brokers -> [Keys -> Seq(GeoClient)]]
         /\ touched \in [Brokers -> [Services -> Nat \cup {NoTime}]]
         /\ TTL_SECONDS \in Nat /\ CLEANUP_INTERVAL_SEC \in Nat
         /\ EPOLL_TIMEOUT_SEC \in Nat \ {0} /\ NoBroker \notin Brokers
BY BrokerAssumption DEF TypeOK, ProcessTypes, GroupTypes, HistoryTypes

\* A handler ends at most one epoll timeout after the last iteration.
LEMMA IterationTimely ==
  ASSUME TypeOK, SoftInv, NEW b \in Brokers, AtEpoll(b), LoopBody(b)
  PROVE  /\ \A c \in Brokers : (last_cleanup[c] <= now)'
         /\ \A c \in Brokers : (phase[c] = "running" => Timely(c))'
<1>1. /\ sweeping = NoBroker /\ sweeping' = b /\ idle' = [idle EXCEPT ![b] = 0]
      /\ UNCHANGED <<phase, last_cleanup, now>> /\ phase[b] = "running"
  BY DEF AtEpoll, LoopBody
<1>2. \A c \in Brokers : last_cleanup[c] <= now
  BY DEF SoftInv
<1>3. \A c \in Brokers : phase[c] = "running" =>
        idle[c] <= EPOLL_TIMEOUT_SEC
          /\ now - idle[c] - last_cleanup[c] <= CLEANUP_INTERVAL_SEC
  <2> TAKE c \in Brokers
  <2>1. c # sweeping
    BY <1>1, SoftTypes
  <2>2. phase[c] = "running" => Timely(c)
    BY DEF SoftInv
  <2> QED
    BY <2>1, <2>2, SoftTypes DEF Timely, Patience
<1>4. ASSUME NEW c \in Brokers, phase[c] = "running" PROVE Timely(c)'
  <2>1. idle[c] <= EPOLL_TIMEOUT_SEC
          /\ now - idle[c] - last_cleanup[c] <= CLEANUP_INTERVAL_SEC
    BY <1>3, <1>4
  <2>2. CASE c = b
    BY <1>1, <2>1, <2>2, SoftTypes DEF Timely, Patience
  <2>3. CASE c # b
    BY <1>1, <2>1, <2>3, SoftTypes DEF Timely, Patience
  <2> QED
    BY <2>2, <2>3
<1> QED
  BY <1>1, <1>2, <1>4

\* A group that is mentioned now has survived every cleanup.
LEMMA JustMentioned ==
  ASSUME TypeOK, SoftInv, NEW b \in Brokers, NEW k \in Keys, phase[b] = "running",
         UNCHANGED <<phase, last_cleanup>>, last_active'[b][k] = now
  PROVE  SurvivedCleanup(b, k)'
BY SoftTypes DEF SoftInv, SurvivedCleanup, NoTime

\* A group that keeps its time has survived what it had survived.
LEMMA StillThere ==
  ASSUME SoftInv, NEW b \in Brokers, NEW k \in Keys, subscribers[b][k] # << >>,
         UNCHANGED <<phase, last_cleanup>>, last_active'[b][k] = last_active[b][k]
  PROVE  SurvivedCleanup(b, k)'
BY DEF SoftInv, SurvivedCleanup

\* Clients refresh what they mention.
LEMMA SubscribeSoft ==
  ASSUME TypeOK, SoftInv, NEW s \in Subscriptions, ClientSubscribe(s)
  PROVE  SoftInv'
<1> DEFINE b == s.broker
           k == SubKey(b, s)
<1>1. s \in SubscriptionType
  BY BrokerAssumption
<1>2. b \in Brokers /\ k \in Keys
  BY <1>1, SubKeyType DEF SubscriptionType
<1>3. PICK gc : /\ AtEpoll(b) /\ LoopBody(b)
                /\ subscribers' = [subscribers EXCEPT ![b][k] = Append(@, gc)]
                /\ last_active' = [last_active EXCEPT ![b][k] = now]
  BY DEF ClientSubscribe
<1> HIDE DEF b, k
<1>4. /\ \A c \in Brokers : (last_cleanup[c] <= now)'
      /\ \A c \in Brokers : (phase[c] = "running" => Timely(c))'
  BY <1>2, <1>3, IterationTimely
<1>5. UNCHANGED <<phase, last_cleanup>> /\ phase[b] = "running"
  BY <1>3 DEF AtEpoll, LoopBody
<1>6. ASSUME NEW c \in Brokers, NEW l \in Keys, subscribers'[c][l] # << >>
      PROVE  SurvivedCleanup(c, l)'
  <2>1. CASE c = b /\ l = k
    <3>1. last_active'[b][k] = now
      BY <1>2, <1>3, SoftTypes
    <3> QED
      BY <1>2, <1>5, <2>1, <3>1, JustMentioned
  <2>2. CASE ~ (c = b /\ l = k)
    <3>1. subscribers'[c][l] = subscribers[c][l] /\ last_active'[c][l] = last_active[c][l]
      BY <1>2, <1>3, <2>2, SoftTypes
    <3> QED
      BY <1>5, <1>6, <3>1, StillThere
  <2> QED
    BY <2>1, <2>2
<1> QED
  BY <1>4, <1>6 DEF SoftInv

LEMMA HeartbeatSoft ==
  ASSUME TypeOK, SoftInv, NEW h \in Beats, Heartbeat(h)
  PROVE  SoftInv'
<1> DEFINE b == h.broker
           k == BeatKey(h)
<1>1. b \in Brokers /\ k \in Keys
  BY BrokerAssumption, NameType DEF BeatType, BeatKey
<1>2. /\ AtEpoll(b) /\ LoopBody(b) /\ subscribers' = subscribers
      /\ last_active' = [last_active EXCEPT ![b][k] = now]
  BY DEF Heartbeat
<1> HIDE DEF b, k
<1>3. /\ \A c \in Brokers : (last_cleanup[c] <= now)'
      /\ \A c \in Brokers : (phase[c] = "running" => Timely(c))'
  BY <1>1, <1>2, IterationTimely
<1>4. UNCHANGED <<phase, last_cleanup>> /\ phase[b] = "running"
  BY <1>2 DEF AtEpoll, LoopBody
<1>5. ASSUME NEW c \in Brokers, NEW l \in Keys, subscribers'[c][l] # << >>
      PROVE  SurvivedCleanup(c, l)'
  <2>1. CASE c = b /\ l = k
    <3>1. last_active'[b][k] = now
      BY <1>1, <1>2, SoftTypes
    <3> QED
      BY <1>1, <1>4, <2>1, <3>1, JustMentioned
  <2>2. CASE ~ (c = b /\ l = k)
    <3>1. subscribers'[c][l] = subscribers[c][l] /\ last_active'[c][l] = last_active[c][l]
      BY <1>1, <1>2, <2>2, SoftTypes
    <3> QED
      BY <1>4, <1>5, <3>1, StillThere
  <2> QED
    BY <2>1, <2>2
<1> QED
  BY <1>3, <1>5 DEF SoftInv

\* Every other handler lets the groups age.
LEMMA OtherHandlersSoft ==
  ASSUME TypeOK, SoftInv, NEW b \in Brokers, AtEpoll(b), LoopBody(b), LeavesGroups
  PROVE  SoftInv'
<1>1. /\ \A c \in Brokers : (last_cleanup[c] <= now)'
      /\ \A c \in Brokers : (phase[c] = "running" => Timely(c))'
  BY IterationTimely
<1>2. UNCHANGED <<phase, last_cleanup>>
  BY DEF LoopBody
<1>3. ASSUME NEW c \in Brokers, NEW k \in Keys, subscribers'[c][k] # << >>
      PROVE  SurvivedCleanup(c, k)'
  <2>1. subscribers[c][k] # << >> /\ last_active'[c][k] = last_active[c][k]
    BY <1>3 DEF LeavesGroups
  <2> QED
    BY <1>2, <2>1, StillThere
<1> QED
  BY <1>1, <1>3 DEF SoftInv

\* The cleanup leaves only groups that are fresh now.
LEMMA SweepSoft ==
  ASSUME TypeOK, SoftInv, NEW b \in Brokers, Sweep(b)
  PROVE  SoftInv'
<1>1. /\ sweeping = b /\ sweeping' = NoBroker /\ UNCHANGED <<phase, now, idle>>
  BY DEF Sweep, worldVars
<1>2. CASE CleanupDue(b)
  <2>1. /\ last_cleanup' = [last_cleanup EXCEPT ![b] = now]
        /\ last_active' = Without(last_active, b, Expired(b), NoTime)
        /\ subscribers' = Without(subscribers, b, Expired(b), << >>)
    BY <1>2 DEF Sweep, cleanupExpired
  <2>2. \A c \in Brokers : last_cleanup'[c] <= now'
    BY <1>1, <2>1, SoftTypes DEF SoftInv
  <2>3. ASSUME NEW c \in Brokers, phase[c] = "running" PROVE Timely(c)'
    <3>1. Timely(c)
      BY <2>3 DEF SoftInv
    <3>2. CASE c = b
      BY <1>1, <2>1, <3>1, <3>2, SoftTypes DEF Timely, Patience
    <3>3. CASE c # b
      BY <1>1, <2>1, <3>1, <3>3, SoftTypes DEF Timely, Patience
    <3> QED
      BY <3>2, <3>3
  <2>4. ASSUME NEW c \in Brokers, NEW k \in Keys, subscribers'[c][k] # << >>
        PROVE  SurvivedCleanup(c, k)'
    <3>1. CASE c = b
      <4>1. k \notin Expired(b) /\ subscribers[b][k] # << >>
              /\ last_active'[b][k] = last_active[b][k]
        BY <2>1, <2>4, <3>1, SoftTypes DEF Without
      <4>2. ~Stale(last_active[b][k])
        BY <4>1 DEF Expired
      <4>3. last_active[b][k] # NoTime /\ now - last_active[b][k] <= TTL_SECONDS
        BY <4>2, SoftTypes DEF Stale
      <4>4. phase[b] = "running" /\ last_cleanup'[b] = now
        BY <2>1, <4>1, SoftTypes DEF SoftInv, SurvivedCleanup
      <4> QED
        BY <1>1, <3>1, <4>1, <4>3, <4>4 DEF SurvivedCleanup
    <3>2. CASE c # b
      <4>1. /\ subscribers[c][k] # << >> /\ last_active'[c][k] = last_active[c][k]
            /\ last_cleanup'[c] = last_cleanup[c]
        BY <2>1, <2>4, <3>2, SoftTypes DEF Without
      <4> QED
        BY <1>1, <4>1 DEF SurvivedCleanup, SoftInv
    <3> QED
      BY <3>1, <3>2
  <2> QED
    BY <1>1, <2>2, <2>3, <2>4 DEF SoftInv
<1>3. CASE ~CleanupDue(b)
  <2>1. UNCHANGED <<last_cleanup, last_active, subscribers>>
    BY <1>3 DEF Sweep
  <2>2. ASSUME NEW c \in Brokers, phase[c] = "running" PROVE Timely(c)'
    <3>1. Timely(c)
      BY <2>2 DEF SoftInv
    <3>2. CASE c = b
      BY <1>1, <1>3, <2>1, <3>1, <3>2, SoftTypes DEF Timely, Patience, CleanupDue
    <3>3. CASE c # b
      BY <1>1, <2>1, <3>1, <3>3, SoftTypes DEF Timely, Patience
    <3> QED
      BY <3>2, <3>3
  <2> QED
    BY <1>1, <2>1, <2>2 DEF SoftInv, SurvivedCleanup
<1> QED
  BY <1>2, <1>3

\* A process that starts or is killed has no groups.
LEMMA LifecycleSoft ==
  ASSUME TypeOK, SoftInv, NEW b \in Brokers, Starts(b) \/ Crash(b)
  PROVE  SoftInv'
<1>1. CASE Started(b) /\ UNCHANGED <<sweeping, now, subscribers, last_active>>
             /\ phase[b] # "running"
  <2>1. /\ last_cleanup' = [last_cleanup EXCEPT ![b] = now]
        /\ idle' = [idle EXCEPT ![b] = 0]
        /\ phase' = [phase EXCEPT ![b] = "running"]
        /\ UNCHANGED <<sweeping, now, subscribers, last_active>>
    BY <1>1 DEF Started
  <2>2. \A c \in Brokers : last_cleanup'[c] <= now'
    BY <2>1, SoftTypes DEF SoftInv
  <2>3. ASSUME NEW c \in Brokers, phase'[c] = "running" PROVE Timely(c)'
    <3>1. CASE c = b
      BY <2>1, <3>1, SoftTypes DEF Timely, Patience
    <3>2. CASE c # b
      <4>1. Timely(c)
        BY <2>1, <2>3, <3>2, SoftTypes DEF SoftInv
      <4> QED
        BY <2>1, <3>2, <4>1, SoftTypes DEF Timely, Patience
    <3> QED
      BY <3>1, <3>2
  <2>4. ASSUME NEW c \in Brokers, NEW k \in Keys, subscribers'[c][k] # << >>
        PROVE  SurvivedCleanup(c, k)'
    <3>1. SurvivedCleanup(c, k)
      BY <2>1, <2>4 DEF SoftInv
    <3>2. c # b
      BY <1>1, <3>1 DEF SurvivedCleanup
    <3> QED
      BY <2>1, <3>1, <3>2, SoftTypes DEF SurvivedCleanup
  <2> QED
    BY <2>2, <2>3, <2>4 DEF SoftInv
<1>2. CASE /\ phase' = [phase EXCEPT ![b] = phase'[b]] /\ phase'[b] # "running"
           /\ phase[b] # "running"
           /\ UNCHANGED <<sweeping, last_cleanup, now, idle, subscribers, last_active>>
  <2>1. \A c \in Brokers : phase'[c] = "running" => phase[c] = "running"
    BY <1>2, SoftTypes
  <2>2. \A c \in Brokers : Timely(c) => Timely(c)'
    BY <1>2 DEF Timely, Patience
  <2>3. \A c \in Brokers : phase[c] = "running" => phase'[c] = "running"
    BY <1>2, SoftTypes
  <2>4. \A c \in Brokers : \A k \in Keys : SurvivedCleanup(c, k) => SurvivedCleanup(c, k)'
    BY <1>2, <2>3 DEF SurvivedCleanup
  <2> QED
    BY <1>2, <2>1, <2>2, <2>4 DEF SoftInv
<1>3. CASE Crash(b)
  <2>1. /\ phase' = [phase EXCEPT ![b] = "down"]
        /\ subscribers' = [subscribers EXCEPT ![b] = EmptyKeyed]
        /\ last_active' = [last_active EXCEPT ![b] = [k \in Keys |-> NoTime]]
        /\ idle' = [idle EXCEPT ![b] = 0]
        /\ UNCHANGED <<sweeping, last_cleanup, now>>
    BY <1>3 DEF Crash, Vanish
  <2>2. ASSUME NEW c \in Brokers, phase'[c] = "running" PROVE Timely(c)'
    <3>1. c # b /\ phase[c] = "running"
      BY <2>1, <2>2, SoftTypes
    <3>2. Timely(c)
      BY <3>1 DEF SoftInv
    <3> QED
      BY <2>1, <3>1, <3>2, SoftTypes DEF Timely, Patience
  <2>3. ASSUME NEW c \in Brokers, NEW k \in Keys, subscribers'[c][k] # << >>
        PROVE  SurvivedCleanup(c, k)'
    <3>1. c # b
      BY <2>1, <2>3, SoftTypes DEF EmptyKeyed
    <3>2. subscribers[c][k] # << >>
      BY <2>1, <2>3, <3>1, SoftTypes
    <3>3. SurvivedCleanup(c, k)
      BY <3>2 DEF SoftInv
    <3> QED
      BY <2>1, <3>1, <3>3, SoftTypes DEF SurvivedCleanup
  <2> QED
    BY <2>1, <2>2, <2>3 DEF SoftInv
<1>4. WriteFullKeyFile(b) \/ LoadKey(b) =>
        Started(b) /\ UNCHANGED <<sweeping, now, subscribers, last_active>>
          /\ phase[b] # "running"
  BY DEF WriteFullKeyFile, LoadKey, tableVars, groupVars
<1>5. Bind(b) \/ GenerateKey(b) \/ WriteKeyFile(b) \/ UnlinkFullKeyFile(b) \/ FailFast(b) =>
        /\ phase' = [phase EXCEPT ![b] = phase'[b]] /\ phase'[b] # "running"
        /\ phase[b] # "running"
        /\ UNCHANGED <<sweeping, last_cleanup, now, idle, subscribers, last_active>>
  BY SoftTypes
  DEF Bind, GenerateKey, WriteKeyFile, UnlinkFullKeyFile, FailFast, Vanish, tableVars,
      groupVars, worldVars
<1> QED
  BY <1>1, <1>2, <1>3, <1>4, <1>5 DEF Starts

\* Time passes for loops that are in time.
LEMMA TickSoft ==
  ASSUME TypeOK, SoftInv, Tick
  PROVE  SoftInv'
<1>1. /\ \A b \in Brokers : phase[b] = "running" => idle[b] < Patience(b)
      /\ now' = now + 1
      /\ idle' = [b \in Brokers |-> IF phase[b] = "running" THEN idle[b] + 1 ELSE 0]
      /\ UNCHANGED <<phase, sweeping, last_cleanup, subscribers, last_active>>
  BY DEF Tick, loopVars, tableVars, groupVars
<1>2. \A b \in Brokers : (last_cleanup[b] <= now)'
  BY <1>1, SoftTypes DEF SoftInv
<1>3. ASSUME NEW b \in Brokers, phase[b] = "running" PROVE Timely(b)'
  <2>1. Timely(b) /\ idle[b] < Patience(b)
    BY <1>1, <1>3 DEF SoftInv
  <2>2. Patience(b)' = Patience(b) /\ Patience(b) \in Nat
    BY <1>1, SoftTypes DEF Patience
  <2>3. idle'[b] = idle[b] + 1
    BY <1>1, <1>3
  <2> QED
    BY <1>1, <2>1, <2>2, <2>3, SoftTypes DEF Timely
<1> QED
  BY <1>1, <1>2, <1>3 DEF SoftInv, SurvivedCleanup

LEMMA NextSoft ==
  ASSUME TypeOK, SoftInv, [Next]_vars
  PROVE  SoftInv'
<1>1. UNCHANGED softVars => SoftInv'
  BY DEF softVars, SoftInv, Timely, Patience, SurvivedCleanup
<1> QED
  BY <1>1, SoftSteps, SubscribeSoft, HeartbeatSoft, OtherHandlersSoft, SweepSoft,
     LifecycleSoft, TickSoft

\* No group outlives its last refresh by more than the TTL, a cleanup interval,
\* an epoll timeout and a second: however datagrams, kills and timeouts fall,
\* the loop reaches its cleanup check in time (start, cleanupExpired).
THEOREM GroupsExpireInTime == Spec => []ExpiryBound
<1>1. Init => SoftInv
  BY BrokerAssumption
  DEF Init, SoftInv, EmptyKeyed
<1>2. TypeOK /\ SoftInv => ExpiryBound
  <2> SUFFICES ASSUME TypeOK, SoftInv, NEW b \in Brokers, NEW k \in Keys,
                      subscribers[b][k] # << >>
               PROVE  /\ last_active[b][k] # NoTime
                      /\ now - last_active[b][k] <=
                           TTL_SECONDS + CLEANUP_INTERVAL_SEC + EPOLL_TIMEOUT_SEC + 1
    BY DEF ExpiryBound
  <2>1. SurvivedCleanup(b, k)
    BY DEF SoftInv
  <2>2. Timely(b)
    BY <2>1 DEF SoftInv, SurvivedCleanup
  <2>3. last_active[b][k] \in Nat
    BY <2>1, SoftTypes DEF SurvivedCleanup
  <2> QED
    BY <2>1, <2>2, <2>3, SoftTypes DEF SurvivedCleanup, Timely, Patience
<1>3. TypeOK /\ SoftInv /\ [Next]_vars => SoftInv'
  BY NextSoft
<1> QED
  BY <1>1, <1>2, <1>3, TypeCorrect, PTL DEF Spec

\* Clients mention a service at a broker in one way only: in plaintext, or by
\* blinded subscriptions that no heartbeat is meant to refresh.  (A heartbeat
\* refreshes the plaintext key; run beat_blind shows what becomes of the rest.)
MentionedOneWay ==
    /\ \A s, t \in Subscriptions :
         s.broker = t.broker /\ s.svc = t.svc => s.enc = t.enc
    /\ \A s \in Subscriptions : \A h \in Beats :
         s.broker = h.broker /\ s.svc = h.svc => ~s.enc

\* The group was made by a subscription of today's key, and its time is when a
\* client last mentioned the service.
MentionedLast(b, k) ==
    /\ \E s \in Subscriptions : s.broker = b /\ k = SubKey(b, s)
    /\ touched[b][k.svc] = last_active[b][k]

MentionInv ==
    \A b \in Brokers : \A k \in Keys :
      subscribers[b][k] # << >> => MentionedLast(b, k)

\* A key is a service and how often it was hashed.
LEMMA KeyOfService ==
  ASSUME NEW s \in SubscriptionType, NEW b
  PROVE  SubKey(b, s).svc = s.svc /\ s.svc \in Services
BY DEF SubscriptionType, SubKey, Name, hashServiceName

\* A broker uses one key for a service, however often clients subscribe.
LEMMA OneKeyPerService ==
  ASSUME MentionedOneWay, NEW s \in Subscriptions, NEW t \in Subscriptions,
         s.broker = t.broker, s.svc = t.svc
  PROVE  SubKey(s.broker, s) = SubKey(s.broker, t)
BY DEF MentionedOneWay, SubKey

\* A group whose time, key and service nobody touches.
LEMMA StillMentioned ==
  ASSUME NEW b \in Brokers, NEW k \in Keys, MentionedLast(b, k),
         he_key'[b] = he_key[b], last_active'[b][k] = last_active[b][k],
         touched'[b][k.svc] = touched[b][k.svc]
  PROVE  MentionedLast(b, k)'
BY DEF MentionedLast, SubKey, he_enabled

LEMMA SubscribeMentions ==
  ASSUME MentionedOneWay, TypeOK, MentionInv, NEW s \in Subscriptions, ClientSubscribe(s)
  PROVE  MentionInv'
<1>5. PICK b, k : b = s.broker /\ k = SubKey(b, s)
  OBVIOUS
<1>1. s \in SubscriptionType
  BY BrokerAssumption
<1>2. b \in Brokers /\ k \in Keys /\ k.svc = s.svc /\ s.svc \in Services
  BY <1>1, <1>5, SubKeyType, KeyOfService DEF SubscriptionType
<1>3. PICK gc : /\ he_key' = he_key
                /\ subscribers' = [subscribers EXCEPT ![b][k] = Append(@, gc)]
                /\ last_active' = [last_active EXCEPT ![b][k] = now]
                /\ touched' = [touched EXCEPT ![b][s.svc] = now]
  BY <1>5 DEF ClientSubscribe, LoopBody
<1>4. \A t \in Subscriptions : t.broker = b /\ SubKey(b, t).svc = s.svc => SubKey(b, t) = k
  <2> TAKE t \in Subscriptions
  <2>1. SubKey(b, t).svc = t.svc
    BY KeyOfService, BrokerAssumption
  <2> QED
    BY <1>5, <2>1, OneKeyPerService
<1>6. MentionedLast(b, k)'
  <2>1. touched'[b][k.svc] = now /\ last_active'[b][k] = now
    BY <1>2, <1>3, SoftTypes
  <2>2. SubKey(b, s)' = SubKey(b, s)
    BY <1>3 DEF SubKey, he_enabled
  <2> QED
    BY <1>5, <2>1, <2>2 DEF MentionedLast
<1>7. ASSUME NEW c \in Brokers, NEW l \in Keys, subscribers'[c][l] # << >>
      PROVE  MentionedLast(c, l)'
  <2>1. CASE c = b /\ l = k
    BY <1>6, <2>1
  <2>2. CASE ~ (c = b /\ l = k)
    <3>1. subscribers'[c][l] = subscribers[c][l] /\ last_active'[c][l] = last_active[c][l]
      BY <1>2, <1>3, <2>2, SoftTypes
    <3>2. MentionedLast(c, l)
      BY <1>7, <3>1 DEF MentionInv
    <3>3. c = b => l.svc # s.svc
      BY <1>4, <2>2, <3>2 DEF MentionedLast
    <3>4. touched'[c][l.svc] = touched[c][l.svc]
      BY <1>2, <1>3, <3>3, SoftTypes DEF Keys
    <3> QED
      BY <1>3, <3>1, <3>2, <3>4, StillMentioned
  <2> QED
    BY <2>1, <2>2
<1> QED
  BY <1>7 DEF MentionInv

LEMMA HeartbeatMentions ==
  ASSUME MentionedOneWay, TypeOK, MentionInv, NEW h \in Beats, Heartbeat(h)
  PROVE  MentionInv'
<1> DEFINE b == h.broker
           k == BeatKey(h)
<1>1. b \in Brokers /\ k \in Keys /\ h.svc \in Services /\ k.svc = h.svc
  BY BrokerAssumption, NameType DEF BeatType, BeatKey, Name
<1>2. /\ subscribers' = subscribers /\ he_key' = he_key
      /\ last_active' = [last_active EXCEPT ![b][k] = now]
      /\ touched' = [touched EXCEPT ![b][h.svc] = now]
  BY DEF Heartbeat, LoopBody
<1>3. \A t \in Subscriptions : t.broker = b /\ SubKey(b, t).svc = h.svc => SubKey(b, t) = k
  <2> TAKE t \in Subscriptions
  <2>1. SubKey(b, t).svc = t.svc
    BY KeyOfService, BrokerAssumption
  <2> QED
    BY <2>1 DEF MentionedOneWay, SubKey, BeatKey
<1> HIDE DEF b, k
<1>4. ASSUME NEW c \in Brokers, NEW l \in Keys, subscribers'[c][l] # << >>
      PROVE  MentionedLast(c, l)'
  <2>1. MentionedLast(c, l)
    BY <1>2, <1>4 DEF MentionInv
  <2>2. CASE c = b /\ l = k
    <3>1. touched'[b][k.svc] = now /\ last_active'[b][k] = now
      BY <1>1, <1>2, SoftTypes
    <3>2. \A t : SubKey(b, t)' = SubKey(b, t)
      BY <1>2 DEF SubKey, he_enabled
    <3> QED
      BY <2>1, <2>2, <3>1, <3>2 DEF MentionedLast
  <2>3. CASE ~ (c = b /\ l = k)
    <3>1. last_active'[c][l] = last_active[c][l]
      BY <1>1, <1>2, <2>3, SoftTypes
    <3>2. c = b => l.svc # h.svc
      BY <1>3, <2>1, <2>3 DEF MentionedLast
    <3>3. touched'[c][l.svc] = touched[c][l.svc]
      BY <1>1, <1>2, <3>2, SoftTypes DEF Keys
    <3> QED
      BY <1>2, <2>1, <3>1, <3>3, StillMentioned
  <2> QED
    BY <2>2, <2>3
<1> QED
  BY <1>4 DEF MentionInv

\* The cleanup erases nothing that a client mentioned within the TTL.
LEMMA SweepMentions ==
  ASSUME TypeOK, SoftInv, MentionInv, NEW b \in Brokers, Sweep(b)
  PROVE  /\ MentionInv'
         /\ \A c \in Brokers : \A k \in Keys :
              subscribers[c][k] # << >> /\ subscribers'[c][k] = << >>
                => now - touched[c][k.svc] > TTL_SECONDS
<1>1. UNCHANGED <<he_key, touched, now>>
  BY DEF Sweep, worldVars, historyVars
<1>2. CASE CleanupDue(b)
  <2>1. /\ last_active' = Without(last_active, b, Expired(b), NoTime)
        /\ subscribers' = Without(subscribers, b, Expired(b), << >>)
    BY <1>2 DEF Sweep, cleanupExpired
  <2>2. ASSUME NEW c \in Brokers, NEW k \in Keys, subscribers'[c][k] # << >>
        PROVE  MentionedLast(c, k)'
    <3>1. subscribers[c][k] # << >> /\ last_active'[c][k] = last_active[c][k]
      BY <2>1, <2>2, SoftTypes DEF Without
    <3>2. MentionedLast(c, k)
      BY <3>1 DEF MentionInv
    <3> QED
      BY <1>1, <3>1, <3>2, StillMentioned
  <2>3. ASSUME NEW c \in Brokers, NEW k \in Keys,
               subscribers[c][k] # << >>, subscribers'[c][k] = << >>
        PROVE  now - touched[c][k.svc] > TTL_SECONDS
    <3>1. c = b /\ k \in Expired(b)
      BY <2>1, <2>3, SoftTypes DEF Without
    <3>2. Stale(last_active[c][k]) /\ last_active[c][k] # NoTime
            /\ touched[c][k.svc] = last_active[c][k]
      BY <2>3, <3>1 DEF Expired, SoftInv, SurvivedCleanup, MentionInv, MentionedLast
    <3> QED
      BY <3>2 DEF Stale
  <2> QED
    BY <2>2, <2>3 DEF MentionInv
<1>3. CASE ~CleanupDue(b)
  <2>1. UNCHANGED <<last_active, subscribers>>
    BY <1>3 DEF Sweep
  <2> QED
    BY <1>1, <2>1, StillMentioned DEF MentionInv
<1> QED
  BY <1>2, <1>3

\* A process that has groups keeps its key; one that starts or dies has none.
LEMMA LifecycleMentions ==
  ASSUME TypeOK, SoftInv, MentionInv, NEW b \in Brokers, Starts(b) \/ Crash(b)
  PROVE  /\ MentionInv'
         /\ \A c \in Brokers : \A k \in Keys :
              subscribers'[c][k] # subscribers[c][k] => phase'[c] # "running"
<1>1. UNCHANGED touched /\ \A c \in Brokers \ {b} : he_key'[c] = he_key[c]
  <2>1. he_key \in [Brokers -> Nat]
    BY DEF TypeOK, ProcessTypes
  <2>2. UNCHANGED touched /\ he_key' = [he_key EXCEPT ![b] = he_key'[b]]
    <3>1. Bind(b) \/ WriteKeyFile(b) \/ UnlinkFullKeyFile(b) \/ WriteFullKeyFile(b)
            \/ FailFast(b)
            => UNCHANGED touched /\ he_key' = [he_key EXCEPT ![b] = he_key'[b]]
      BY <2>1 DEF Bind, WriteKeyFile, UnlinkFullKeyFile, WriteFullKeyFile, FailFast,
                  tableVars, historyVars
    <3>2. GenerateKey(b) \/ LoadKey(b) \/ Crash(b) =>
            UNCHANGED touched /\ he_key' = [he_key EXCEPT ![b] = he_key'[b]]
      BY <2>1 DEF GenerateKey, LoadKey, Crash, historyVars
    <3> QED
      BY <3>1, <3>2 DEF Starts
  <2> QED
    BY <2>1, <2>2
<1>2. CASE Starts(b)
  <2>1. UNCHANGED <<subscribers, last_active>> /\ phase[b] # "running"
    BY <1>2 DEF Starts, Bind, GenerateKey, WriteKeyFile, UnlinkFullKeyFile,
    WriteFullKeyFile, LoadKey, FailFast,
                tableVars, groupVars
  <2>2. \A k \in Keys : subscribers[b][k] = << >>
    BY <2>1 DEF SoftInv, SurvivedCleanup
  <2> QED
    BY <1>1, <2>1, <2>2, StillMentioned DEF MentionInv
<1>3. CASE Crash(b)
  <2>1. /\ phase' = [phase EXCEPT ![b] = "down"]
        /\ subscribers' = [subscribers EXCEPT ![b] = EmptyKeyed]
        /\ last_active' = [last_active EXCEPT ![b] = [k \in Keys |-> NoTime]]
    BY <1>3 DEF Crash, Vanish
  <2>2. \A c \in Brokers : \A k \in Keys : subscribers'[c][k] # << >> => c # b
    BY <2>1, SoftTypes DEF EmptyKeyed
  <2>3. \A c \in Brokers : c # b =>
          subscribers'[c] = subscribers[c] /\ last_active'[c] = last_active[c]
    BY <2>1, SoftTypes
  <2>4. phase'[b] # "running"
    BY <2>1, SoftTypes
  <2>5. MentionInv'
    BY <1>1, <2>2, <2>3, StillMentioned DEF MentionInv
  <2> QED
    BY <2>3, <2>4, <2>5
<1> QED
  BY <1>2, <1>3

\* What a step may do to a group that is in the table.
LEMMA NextMentions ==
  ASSUME MentionedOneWay, TypeOK, SoftInv, MentionInv, [Next]_vars
  PROVE  /\ MentionInv'
         /\ \A b \in Brokers : \A k \in Keys :
              subscribers[b][k] # << >> /\ subscribers'[b][k] = << >>
                /\ phase'[b] = "running"
              => now - touched[b][k.svc] > TTL_SECONDS
<1> DEFINE Goal ==
      /\ MentionInv'
      /\ \A b \in Brokers : \A k \in Keys :
           subscribers[b][k] # << >> /\ subscribers'[b][k] = << >> /\ phase'[b] = "running"
             => now - touched[b][k.svc] > TTL_SECONDS
<1>1. ASSUME UNCHANGED he_key, LeavesGroups PROVE Goal
  <2>1. ASSUME NEW b \in Brokers, NEW k \in Keys, subscribers'[b][k] # << >>
        PROVE  MentionedLast(b, k)'
    <3>1. subscribers[b][k] # << >>
      BY <1>1, <2>1 DEF LeavesGroups
    <3> QED
      BY <1>1, <3>1, StillMentioned DEF LeavesGroups, MentionInv
  <2> QED
    BY <1>1, <2>1 DEF LeavesGroups, MentionInv
<1>2. UNCHANGED softVars => UNCHANGED he_key /\ LeavesGroups
  BY DEF softVars, LeavesGroups, SamePlaces
<1>3. Tick => UNCHANGED he_key /\ LeavesGroups
  BY DEF Tick, tableVars, groupVars, historyVars, LeavesGroups, SamePlaces
<1>4. \A b \in Brokers : LoopBody(b) => UNCHANGED he_key
  BY DEF LoopBody
<1>5. ASSUME NEW s \in Subscriptions, ClientSubscribe(s) PROVE Goal
  <2>1. \A b \in Brokers : \A k \in Keys :
          subscribers[b][k] # << >> => subscribers'[b][k] # << >>
    <3> DEFINE x == s.broker
               l == SubKey(x, s)
    <3>1. PICK gc \in GeoClient :
            subscribers' = [subscribers EXCEPT ![x][l] = Append(@, gc)]
      BY <1>5, NewGeoClient
    <3> HIDE DEF x, l
    <3>2. \A b \in Brokers : \A k \in Keys :
            subscribers'[b][k] = subscribers[b][k]
              \/ subscribers'[b][k] = Append(subscribers[b][k], gc)
      BY <3>1, SoftTypes
    <3>4. \A g \in Seq(GeoClient) : Append(g, gc) # << >>
      BY AppendProperties
    <3>5. \A b \in Brokers : \A k \in Keys : subscribers[b][k] \in Seq(GeoClient)
      BY SoftTypes
    <3> QED
      BY <3>2, <3>4, <3>5
  <2> QED
    BY <1>5, <2>1, SubscribeMentions
<1>6. ASSUME NEW h \in Beats, Heartbeat(h) PROVE Goal
  BY <1>6, HeartbeatMentions DEF Heartbeat
<1>7. ASSUME NEW b \in Brokers, Sweep(b) \/ Starts(b) \/ Crash(b) PROVE Goal
  BY <1>7, SweepMentions, LifecycleMentions
<1> HIDE DEF Goal
<1>8. Goal
  BY <1>1, <1>2, <1>3, <1>4, <1>5, <1>6, <1>7, SoftSteps
<1> QED
  BY <1>8 DEF Goal

\* No group is erased by a living broker within the TTL of a client's last
\* subscription to, or heartbeat for, its service, as long as clients mention
\* the service in one way (cleanupExpired, handleHeartbeat, handleSubscribe).
THEOREM NoEarlyExpiry ==
  ASSUME MentionedOneWay
  PROVE  Spec => SilentBeforeExpiry
<1>1. Init => SoftInv /\ MentionInv
  BY BrokerAssumption DEF Init, SoftInv, MentionInv, EmptyKeyed
<1>2. TypeOK /\ SoftInv /\ MentionInv /\ [Next]_vars => (SoftInv /\ MentionInv)'
  BY NextSoft, NextMentions
<1>3. TypeOK /\ SoftInv /\ MentionInv /\ [Next]_vars =>
        [\A b \in Brokers : \A k \in Keys :
           subscribers[b][k] # << >> /\ subscribers'[b][k] = << >>
             /\ phase'[b] = "running"
           => now - touched[b][k.svc] > TTL_SECONDS]_<<subscribers, phase>>
  BY NextMentions
<1> QED
  BY <1>1, <1>2, <1>3, TypeCorrect, PTL DEF Spec, SilentBeforeExpiry
-----------------------------------------------------------------------------
\* Interest on its way up.

\* How deep a broker lies in the tree.
Depth ==
    CHOOSE d \in [Brokers -> Nat] :
        \A b \in Brokers : has_parent(b) => d[Parent[b]] < d[b]

LEMMA DepthGrows ==
  /\ Depth \in [Brokers -> Nat]
  /\ \A b \in Brokers : has_parent(b) =>
        Parent[b] \in Brokers /\ Depth[Parent[b]] < Depth[b]
<1>1. PICK d \in [Brokers -> 0 .. Cardinality(Brokers)] :
        \A b \in Brokers : Parent[b] # NoBroker => d[Parent[b]] < d[b]
  BY TreeAssumption
<1>2. d \in [Brokers -> Nat]
  BY <1>1, FS_CardinalityType, BrokerAssumption
<1>3. \A b \in Brokers : has_parent(b) => d[Parent[b]] < d[b]
  BY <1>1 DEF has_parent
<1>4. /\ Depth \in [Brokers -> Nat]
      /\ \A b \in Brokers : has_parent(b) => Depth[Parent[b]] < Depth[b]
  BY <1>2, <1>3 DEF Depth
<1> QED BY <1>4, BrokerAssumption DEF has_parent

LEMMA NotItsParent == ASSUME NEW b \in Brokers PROVE Parent[b] # b
<1> SUFFICES ASSUME Parent[b] = b PROVE FALSE
  OBVIOUS
<1>1. has_parent(b)
  BY BrokerAssumption DEF has_parent
<1>2. Depth[b] < Depth[b] /\ Depth[b] \in Nat
  BY <1>1, DepthGrows
<1> QED BY <1>2

\* Nothing said on a link is lost if the parent is up before the child and is
\* never killed; or, under require_he, if the parent is a root in its first run,
\* for no child runs without the root's key.
KeptByOrder(c) == ParentFirst /\ Parent[c] \notin Killable
KeptByKey(c) == RequireHe /\ ~has_parent(Parent[c])
LinksKept == \A c \in Brokers : has_parent(c) => KeptByOrder(c) \/ KeptByKey(c)
Kept(c) ==
    /\ spent.losses = 0
    /\ \/ KeptByOrder(c)
       \/ /\ KeptByKey(c) /\ keys_made = 1
          /\ phase[Parent[c]] \in {"published", "sharing", "running"}

\* The parent knows the child, or its HELLO is on the way.
Introduced(c) ==
    children[Parent[c]][c] # NoChild \/ InFlight(up[c], "HELLO") # {}

\* The parent has filed the child's interest in k, or will.
Coming(c, k) ==
    \/ c \in child_active[Parent[c]][k]
    \/ \E i \in InFlight(up[c], "SUBSCRIBE") :
         /\ up[c][i].key = k
         /\ \/ children[Parent[c]][c] # NoChild
            \/ \E j \in InFlight(up[c], "HELLO") : j < i

\* The child is introduced, and all it has relayed arrives.
Link(c) == Introduced(c) /\ \A k \in ot_parent[c] : Coming(c, k)

\* A running broker has relayed whatever it has subscribers or interested
\* children for.
RelayInv ==
    \A c \in Brokers :
      /\ phase[c] # "running" => ot_parent[c] = {}
      /\ has_parent(c) => \A k \in Keys :
           subscribers[c][k] # << >> \/ child_active[c][k] # {} => k \in ot_parent[c]

\* A broker's datagrams carry its own name and place.
Signed(c, channel) ==
    \A i \in DOMAIN channel :
      /\ channel[i].type \in {"HELLO", "REGION_UPDATE"} => channel[i].id = c
      /\ channel[i].type = "HELLO" => channel[i].pos = Home[c]
AllSigned == \A c \in Brokers : has_parent(c) => Signed(c, up[c])

\* A child that starts after its parent stays after it.
OrderInv ==
    \A c \in Brokers : has_parent(c) /\ KeptByOrder(c) /\ phase[c] # "down" =>
        phase[Parent[c]] = "running"

\* Under require_he no child runs before the first key is in its file.
KeyedRoot(b) == ~has_parent(b) /\ phase[b] \in {"writing", "published", "sharing", "running"}
FirstKeyInv ==
    /\ \A b \in Brokers : phase[b] \in {"writing", "published", "sharing"} => ~has_parent(b)
    /\ RequireHe =>
         /\ keys_made = 0 =>
              key_file = NoKey /\ \A b \in Brokers : phase[b] \in {"down", "bound"}
         /\ keys_made = 1 =>
              /\ \A a, b \in Brokers : KeyedRoot(a) /\ KeyedRoot(b) => a = b
              /\ (\E b \in Brokers : phase[b] = "writing") =>
                   /\ key_file = NoKey
                   /\ \A c \in Brokers : has_parent(c) => phase[c] # "running"

\* What a step leaves of the parent's knowledge of c, and what c adds to it.
StillKnown(c) ==
    /\ children[Parent[c]][c] # NoChild => children'[Parent[c]][c] # NoChild
    /\ \A k \in Keys : c \in child_active[Parent[c]][k] => c \in child_active'[Parent[c]][k]
Asked(c, msgs) ==
    \A k \in ot_parent'[c] :
      k \in ot_parent[c] \/ \E i \in InFlight(msgs, "SUBSCRIBE") : msgs[i].key = k
Sends(c) ==
    /\ StillKnown(c)
    /\ \E msgs \in Seq(UpMsg) :
         /\ up'[c] = up[c] \o msgs /\ Signed(c, msgs)
         /\ phase[Parent[c]] # "down" => Asked(c, msgs)

\* The parent takes the first datagram of the link.
Takes(c) ==
    /\ StillKnown(c)
    /\ up[c] # << >> /\ up'[c] = Tail(up[c]) /\ ot_parent'[c] = ot_parent[c]
    /\ Head(up[c]).type = "HELLO" => children'[Parent[c]][c] # NoChild
    /\ Head(up[c]).type = "SUBSCRIBE" /\ children[Parent[c]][c] # NoChild
         => c \in child_active'[Parent[c]][Head(up[c]).key]

\* Where the datagrams of a longer or a shorter channel were.
LEMMA JoinedChannel ==
  ASSUME NEW M, NEW s \in Seq(M), NEW t \in Seq(M)
  PROVE  /\ \A i \in DOMAIN s : i \in DOMAIN (s \o t) /\ (s \o t)[i] = s[i]
         /\ \A i \in DOMAIN t : /\ Len(s) + i \in DOMAIN (s \o t)
                                /\ (s \o t)[Len(s) + i] = t[i]
                                /\ \A j \in DOMAIN s : j < Len(s) + i
         /\ \A i \in DOMAIN (s \o t) :
              \/ i \in DOMAIN s /\ (s \o t)[i] = s[i]
              \/ i - Len(s) \in DOMAIN t /\ (s \o t)[i] = t[i - Len(s)]
OBVIOUS

LEMMA ShorterChannel ==
  ASSUME NEW M, NEW s \in Seq(M), s # << >>
  PROVE  /\ \A i \in DOMAIN Tail(s) :
              i + 1 \in DOMAIN s /\ Tail(s)[i] = s[i + 1] /\ i \in Nat
         /\ \A i \in DOMAIN s : i \in Nat \ {0}
         /\ \A i \in DOMAIN s :
              \/ i = 1 /\ s[i] = Head(s)
              \/ i - 1 \in DOMAIN Tail(s) /\ Tail(s)[i - 1] = s[i]
<1>1. Tail(s) \in Seq(M) /\ Len(Tail(s)) = Len(s) - 1 /\ Len(s) \in Nat \ {0}
  BY HeadTailProperties
<1>2. \A i \in 1 .. Len(Tail(s)) : Tail(s)[i] = s[i + 1]
  BY HeadTailProperties
<1>3. DOMAIN Tail(s) = 1 .. Len(Tail(s)) /\ DOMAIN s = 1 .. Len(s)
  BY <1>1
<1>4. Head(s) = s[1]
  OBVIOUS
<1>5. ASSUME NEW i \in DOMAIN s
      PROVE  /\ i \in Nat \ {0}
             /\ \/ i = 1 /\ s[i] = Head(s)
                \/ i - 1 \in DOMAIN Tail(s) /\ Tail(s)[i - 1] = s[i]
  <2>1. i \in 1 .. Len(s)
    BY <1>3
  <2>2. CASE i = 1
    BY <1>4, <2>2
  <2>3. CASE i # 1
    <3>1. i - 1 \in 1 .. Len(Tail(s)) /\ (i - 1) + 1 = i
      BY <1>1, <2>1, <2>3
    <3> QED BY <1>2, <1>3, <2>1, <3>1
  <2> QED BY <2>2, <2>3
<1> QED BY <1>1, <1>2, <1>3, <1>5

\* Sending more on a link keeps what was on it.
LEMMA LinkSends ==
  ASSUME TypeOK, NEW c \in Brokers, phase[Parent[c]] # "down", Link(c), Sends(c)
  PROVE  Link(c)'
<1>1. PICK msgs \in Seq(UpMsg) : up'[c] = up[c] \o msgs /\ Asked(c, msgs)
  BY DEF Sends
<1>2. up[c] \in Seq(UpMsg) /\ ot_parent[c] \in SUBSET Keys
  BY DEF TypeOK, NetworkTypes, OverlayTypes
<1>3. /\ \A i \in DOMAIN up[c] : i \in DOMAIN up'[c] /\ up'[c][i] = up[c][i]
      /\ \A i \in DOMAIN msgs : /\ Len(up[c]) + i \in DOMAIN up'[c]
                                /\ up'[c][Len(up[c]) + i] = msgs[i]
                                /\ \A j \in DOMAIN up[c] : j < Len(up[c]) + i
  BY <1>1, <1>2, JoinedChannel
<1>4. StillKnown(c)
  BY DEF Sends
<1>5. Introduced(c)'
  BY <1>3, <1>4 DEF Link, Introduced, StillKnown, InFlight
<1>6. ASSUME NEW k \in ot_parent'[c] PROVE Coming(c, k)'
  <2>1. CASE k \in ot_parent[c]
    <3>1. Coming(c, k) /\ k \in Keys
      BY <1>2, <2>1 DEF Link
    <3> QED BY <1>3, <1>4, <3>1 DEF Coming, StillKnown, InFlight
  <2>2. CASE \E i \in InFlight(msgs, "SUBSCRIBE") : msgs[i].key = k
    <3>1. PICK i \in InFlight(msgs, "SUBSCRIBE") : msgs[i].key = k
      BY <2>2
    <3>2. Len(up[c]) + i \in InFlight(up'[c], "SUBSCRIBE") /\ up'[c][Len(up[c]) + i].key = k
      BY <1>3, <3>1 DEF InFlight
    <3>3. \/ children'[Parent[c]][c] # NoChild
          \/ \E j \in InFlight(up'[c], "HELLO") : j < Len(up[c]) + i
      BY <1>3, <1>4, <3>1 DEF Link, Introduced, StillKnown, InFlight
    <3> QED BY <3>2, <3>3 DEF Coming, InFlight
  <2> QED BY <1>1, <2>1, <2>2 DEF Asked
<1> QED BY <1>5, <1>6 DEF Link

\* Taking a datagram files what it says.
LEMMA LinkTakes ==
  ASSUME TypeOK, NEW c \in Brokers, Link(c), Takes(c)
  PROVE  Link(c)'
<1>1. /\ up[c] # << >> /\ up'[c] = Tail(up[c]) /\ ot_parent'[c] = ot_parent[c]
      /\ StillKnown(c)
  BY DEF Takes
<1>2. up[c] \in Seq(UpMsg) /\ ot_parent[c] \in SUBSET Keys
  BY DEF TypeOK, NetworkTypes, OverlayTypes
<1>3. /\ \A i \in DOMAIN up[c] : i \in Nat \ {0}
      /\ \A i \in DOMAIN up[c] :
           \/ i = 1 /\ up[c][i] = Head(up[c])
           \/ i - 1 \in DOMAIN up'[c] /\ up'[c][i - 1] = up[c][i]
  BY <1>1, <1>2, ShorterChannel
<1>4. children'[Parent[c]][c] # NoChild \/ Head(up[c]).type # "HELLO"
  BY DEF Takes
<1>5. \A j \in InFlight(up[c], "HELLO") :
        children'[Parent[c]][c] # NoChild \/ j - 1 \in InFlight(up'[c], "HELLO")
  BY <1>3, <1>4 DEF InFlight
<1>6. Introduced(c)'
  BY <1>1, <1>5 DEF Link, Introduced, StillKnown, InFlight
<1>7. ASSUME NEW k \in ot_parent'[c] PROVE Coming(c, k)'
  <2>1. Coming(c, k) /\ k \in Keys
    BY <1>1, <1>2 DEF Link
  <2>2. CASE c \in child_active[Parent[c]][k]
    BY <1>1, <2>1, <2>2 DEF Coming, StillKnown
  <2>3. CASE c \notin child_active[Parent[c]][k]
    <3>1. PICK i \in InFlight(up[c], "SUBSCRIBE") :
            /\ up[c][i].key = k
            /\ \/ children[Parent[c]][c] # NoChild
               \/ \E j \in InFlight(up[c], "HELLO") : j < i
      BY <2>1, <2>3 DEF Coming
    <3>2. i \in DOMAIN up[c] /\ up[c][i].type = "SUBSCRIBE"
      BY <3>1 DEF InFlight
    <3>3. CASE i = 1
      <4>1. Head(up[c]).type = "SUBSCRIBE" /\ Head(up[c]).key = k
        BY <1>2, <3>1, <3>2, <3>3
      <4>2. ~ \E j \in InFlight(up[c], "HELLO") : j < i
        BY <1>3, <3>3 DEF InFlight
      <4> QED BY <3>1, <4>1, <4>2 DEF Takes, Coming
    <3>4. CASE i # 1
      <4>1. i - 1 \in InFlight(up'[c], "SUBSCRIBE") /\ up'[c][i - 1].key = k
        BY <1>3, <3>1, <3>2, <3>4 DEF InFlight
      <4>2. \/ children'[Parent[c]][c] # NoChild
            \/ \E j \in InFlight(up'[c], "HELLO") : j < i - 1
        <5>1. CASE children[Parent[c]][c] # NoChild
          BY <1>1, <5>1 DEF StillKnown
        <5>2. CASE \E j \in InFlight(up[c], "HELLO") : j < i
          <6>1. PICK j \in InFlight(up[c], "HELLO") : j < i
            BY <5>2
          <6>2. j \in Nat /\ i \in Nat
            BY <1>3, <3>2 DEF InFlight
          <6> QED BY <1>5, <6>1, <6>2
        <5> QED BY <3>1, <5>1, <5>2
      <4> QED BY <4>1, <4>2 DEF Coming, InFlight
    <3> QED BY <3>3, <3>4
  <2> QED BY <2>2, <2>3
<1> QED BY <1>6, <1>7 DEF Link

\* Every step is one of these, or a loss or the end of the parent.
LEMMA SentNothing ==
  ASSUME TypeOK, NEW c \in Brokers, up'[c] = up[c], StillKnown(c),
         \A k \in ot_parent'[c] : k \in ot_parent[c]
  PROVE  Sends(c)
<1>1. up[c] \in Seq(UpMsg)
  BY DEF TypeOK, NetworkTypes
<1>2. << >> \in Seq(UpMsg) /\ up'[c] = up[c] \o << >>
  BY <1>1
<1>3. Signed(c, << >>)
  BY DEF Signed
<1> QED BY <1>2, <1>3 DEF Sends, Asked

LEMMA SentOn ==
  ASSUME TypeOK, NEW c \in Brokers, has_parent(c), StillKnown(c),
         NEW channels, channels \in [Brokers -> Seq(UpMsg)], channels[c] = up[c],
         NEW b \in Brokers, NEW msgs \in Seq(UpMsg), up' = ToParent(channels, b, msgs),
         c = b => Signed(c, msgs) /\ Asked(c, msgs),
         c # b => ot_parent'[c] = ot_parent[c]
  PROVE  Sends(c)
<1>1. Parent[c] # NoBroker
  BY DEF has_parent
<1>2. CASE c = b /\ Bound(Parent[c])
  <2>1. up'[c] = up[c] \o msgs
    BY <1>2 DEF ToParent
  <2> QED BY <1>2, <2>1 DEF Sends
<1>3. CASE c = b /\ ~Bound(Parent[c])
  <2>1. up'[c] = up[c]
    BY <1>3 DEF ToParent
  <2>2. phase[Parent[c]] = "down"
    BY <1>1, <1>3 DEF Bound
  <2>3. up[c] \in Seq(UpMsg) /\ << >> \in Seq(UpMsg)
    BY DEF TypeOK, NetworkTypes
  <2>4. up'[c] = up[c] \o << >>
    BY <2>1, <2>3
  <2>5. Signed(c, << >>)
    BY DEF Signed
  <2> QED BY <2>2, <2>3, <2>4, <2>5 DEF Sends
<1>4. CASE c # b
  <2>1. up'[c] = up[c]
    BY <1>4 DEF ToParent
  <2> QED BY <1>4, <2>1, SentNothing
<1> QED BY <1>2, <1>3, <1>4

LEMMA RecordsKnow ==
  ASSUME RecordsKept, NEW c \in Brokers, has_parent(c)
  PROVE  StillKnown(c)
BY BrokerAssumption DEF RecordsKept, StillKnown, has_parent

LEMMA SignedParts ==
  ASSUME NEW c \in Brokers
  PROVE  /\ \A region : Signed(c, RegionUpdates(c, region))
         /\ \A k : Signed(c, Relay(c, k))
         /\ Signed(c, << [type |-> "HELLO", id |-> c, pos |-> Home[c]] >>)
BY DEF Signed, RegionUpdates, RegionUpdate, Relay

LEMMA SignedJoin ==
  ASSUME NEW c, NEW s \in Seq(UpMsg), NEW t \in Seq(UpMsg), Signed(c, s), Signed(c, t)
  PROVE  Signed(c, s \o t)
<1>1. \A i \in DOMAIN (s \o t) :
        \/ i \in DOMAIN s /\ (s \o t)[i] = s[i]
        \/ i - Len(s) \in DOMAIN t /\ (s \o t)[i] = t[i - Len(s)]
  BY JoinedChannel
<1> QED BY <1>1 DEF Signed

\* Relay asks for the key that Relayed adds.
LEMMA RelayAsks ==
  ASSUME TypeOK, NEW c \in Brokers, NEW k \in Keys, NEW before \in Seq(UpMsg),
         ot_parent' = Relayed(c, k)
  PROVE  Asked(c, before \o Relay(c, k))
<1>1. ot_parent[c] \in SUBSET Keys /\ ot_parent \in [Brokers -> SUBSET Keys]
  BY DEF TypeOK, OverlayTypes
<1>2. \A l \in ot_parent'[c] : l \in ot_parent[c] \/ l = k
  BY <1>1 DEF Relayed
<1>3. CASE k \in ot_parent[c]
  BY <1>2, <1>3 DEF Asked
<1>4. CASE k \notin ot_parent[c]
  <2> DEFINE m == [type |-> "SUBSCRIBE", key |-> k, pos |-> Home[c]]
  <2>1. Relay(c, k) = << m >> /\ << m >> \in Seq(UpMsg)
    BY <1>4, RelayType DEF Relay
  <2>2. Len(before) + 1 \in DOMAIN (before \o << m >>)
        /\ (before \o << m >>)[Len(before) + 1] = m
    BY <2>1
  <2>3. m.type = "SUBSCRIBE" /\ m.key = k
    OBVIOUS
  <2> HIDE DEF m
  <2>4. Len(before) + 1 \in InFlight(before \o << m >>, "SUBSCRIBE")
    BY <2>2, <2>3 DEF InFlight
  <2> QED BY <1>2, <2>1, <2>2, <2>3, <2>4 DEF Asked
<1> QED BY <1>3, <1>4

\* A client's SUBSCRIBE is relayed behind the region.
LEMMA SubscribeLink ==
  ASSUME TypeOK, NEW c \in Brokers, has_parent(c), NEW s \in Subscriptions,
         ClientSubscribe(s)
  PROVE  Sends(c)
<1>1. PICK b, k, region : /\ b = s.broker /\ k = SubKey(b, s)
                          /\ region = Merge(my_region[b], RegionOf(s.pos))
  OBVIOUS
<1>2. s \in SubscriptionType /\ b \in Brokers /\ s.pos \in Points
  BY <1>1, BrokerAssumption DEF SubscriptionType
<1>3. k \in Keys /\ region \in RegionType
  BY <1>1, <1>2, SubKeyType, RegionOfType, MergeType DEF TypeOK, OverlayTypes
<1>4. /\ up' = ToParent(up, b, RegionUpdates(b, region) \o Relay(b, k))
      /\ ot_parent' = Relayed(b, k)
      /\ UNCHANGED <<children, child_active>>
  BY <1>1 DEF ClientSubscribe
<1>5. StillKnown(c) /\ up \in [Brokers -> Seq(UpMsg)]
  BY <1>4 DEF StillKnown, TypeOK, NetworkTypes
<1>6. RegionUpdates(b, region) \in Seq(UpMsg) /\ Relay(b, k) \in Seq(UpMsg)
  BY <1>2, <1>3, RegionUpdatesType, RelayType
<1>7. PICK msgs \in Seq(UpMsg) : msgs = RegionUpdates(b, region) \o Relay(b, k)
  <2>1. RegionUpdates(b, region) \o Relay(b, k) \in Seq(UpMsg)
    BY <1>6
  <2> QED BY <2>1
<1>8. c = b => Signed(c, msgs) /\ Asked(c, msgs)
  BY <1>3, <1>4, <1>6, <1>7, SignedParts, SignedJoin, RelayAsks
<1>9. c # b => ot_parent'[c] = ot_parent[c]
  BY <1>4 DEF Relayed, TypeOK, OverlayTypes
<1> QED BY <1>2, <1>4, <1>5, <1>7, <1>8, <1>9, SentOn

\* A child's SUBSCRIBE is taken from one link and relayed on another.
LEMMA ChildSubscribeLink ==
  ASSUME TypeOK, NEW c \in Brokers, has_parent(c), NEW d \in Brokers, ChildSubscribe(d)
  PROVE  Sends(c) \/ Takes(c)
<1>1. PICK b, k, taken : /\ b = Parent[d] /\ k = Head(up[d]).key
                         /\ taken = [up EXCEPT ![d] = Tail(@)]
  OBVIOUS
<1>2. /\ b \in Brokers /\ b # d /\ up[d] # << >> /\ Head(up[d]).type = "SUBSCRIBE"
      /\ UNCHANGED children
  BY <1>1, BrokerAssumption, NotItsParent DEF ChildSubscribe, Bound
<1>3. up \in [Brokers -> Seq(UpMsg)] /\ child_active \in [Brokers -> [Keys -> SUBSET Brokers]]
      /\ ot_parent \in [Brokers -> SUBSET Keys]
  BY DEF TypeOK, NetworkTypes, OverlayTypes
<1>4. taken \in [Brokers -> Seq(UpMsg)] /\ k \in Keys
  BY <1>1, <1>2, <1>3, TakenType, UpMsgTypes DEF SubscribeMsg
<1>5. \/ /\ Known(b, d)
         /\ child_active' = [child_active EXCEPT ![b][k] = @ \cup {d}]
         /\ up' = ToParent(taken, b, Relay(b, k)) /\ ot_parent' = Relayed(b, k)
      \/ /\ ~Known(b, d) /\ up' = taken /\ UNCHANGED <<child_active, ot_parent>>
  BY <1>1 DEF ChildSubscribe
<1>6. StillKnown(c)
  <2>1. \A a \in Brokers : \A l \in Keys : child_active[a][l] \subseteq child_active'[a][l]
    <3>1. CASE child_active' = [child_active EXCEPT ![b][k] = @ \cup {d}]
      BY <1>2, <1>3, <1>4, <3>1
    <3>2. CASE UNCHANGED child_active
      BY <3>2
    <3> QED BY <1>5, <3>1, <3>2
  <2> QED BY <1>2, <2>1, BrokerAssumption DEF StillKnown, has_parent
<1>7. \A x \in Brokers : x # b => ot_parent'[x] = ot_parent[x]
  BY <1>3, <1>5 DEF Relayed
<1>8. CASE c = d
  <2>1. up'[c] = Tail(up[c])
    BY <1>1, <1>2, <1>3, <1>5, <1>8 DEF ToParent
  <2>2. children[b][d] # NoChild => d \in child_active'[b][k]
    BY <1>2, <1>3, <1>4, <1>5 DEF Known
  <2> QED BY <1>1, <1>2, <1>6, <1>7, <1>8, <2>1, <2>2 DEF Takes
<1>9. CASE c # d
  <2>1. taken[c] = up[c]
    BY <1>1, <1>3, <1>9
  <2>2. CASE Known(b, d)
    <3>1. up' = ToParent(taken, b, Relay(b, k)) /\ ot_parent' = Relayed(b, k)
      BY <1>5, <2>2
    <3>2. Relay(b, k) \in Seq(UpMsg) /\ << >> \in Seq(UpMsg)
      BY <1>2, <1>4, RelayType
    <3>3. << >> \o Relay(b, k) = Relay(b, k)
      BY <3>2
    <3>4. c = b => Signed(c, Relay(b, k)) /\ Asked(c, Relay(b, k))
      BY <1>4, <3>1, <3>2, <3>3, SignedParts, RelayAsks
    <3> QED BY <1>2, <1>4, <1>6, <1>7, <2>1, <3>1, <3>2, <3>4, SentOn
  <2>3. CASE ~Known(b, d)
    BY <1>5, <1>6, <2>1, <2>3, SentNothing
  <2> QED BY <2>2, <2>3
<1> QED BY <1>8, <1>9

\* HELLO and REGION_UPDATE are taken from one link; a region may go on.
LEMMA RegionsLink ==
  ASSUME TypeOK, NEW c \in Brokers, has_parent(c), Signed(c, up[c]), NEW d \in Brokers,
         Hello(d) \/ ChildRegion(d)
  PROVE  Sends(c) \/ Takes(c)
<1>1. PICK b, taken : b = Parent[d] /\ taken = [up EXCEPT ![d] = Tail(@)]
  OBVIOUS
<1>2. b \in Brokers /\ b # d /\ up[d] # << >> /\ UNCHANGED ot_parent
  BY <1>1, BrokerAssumption, NotItsParent DEF Hello, ChildRegion, Bound
<1>3. up \in [Brokers -> Seq(UpMsg)]
  BY DEF TypeOK, NetworkTypes
<1>4. taken \in [Brokers -> Seq(UpMsg)]
  BY <1>1, <1>2, <1>3, TakenType
<1>5. StillKnown(c)
  BY RegionsKnow, RecordsKnow
<1>6. PICK region \in RegionType : up' = taken \/ up' = ToParent(taken, b, RegionUpdates(b, region))
  <2>1. CASE Hello(d)
    <3>1. up' = taken
      BY <1>1, <2>1 DEF Hello
    <3>2. my_region[b] \in RegionType
      BY <1>2 DEF TypeOK, OverlayTypes
    <3> QED BY <3>1, <3>2
  <2>2. CASE ChildRegion(d)
    BY <1>1, <2>2, RegionTravels
  <2> QED BY <2>1, <2>2
<1>7. CASE c = d
  <2>1. up'[c] = Tail(up[c])
    BY <1>1, <1>2, <1>3, <1>6, <1>7 DEF ToParent
  <2>2. Head(up[c]) = up[c][1] /\ 1 \in DOMAIN up[c]
    BY <1>2, <1>3, <1>7
  <2>3. CASE Hello(d)
    <3>1. Head(up[c]).type = "HELLO"
      BY <1>7, <2>3 DEF Hello
    <3>2. Head(up[c]).id = c
      BY <2>2, <3>1 DEF Signed
    <3>3. children'[Parent[c]][c] # NoChild
      BY <1>7, <2>3, <3>2, RegionsKnow
    <3> QED BY <1>2, <1>5, <1>7, <2>1, <3>1, <3>3 DEF Takes
  <2>4. CASE ChildRegion(d)
    <3>1. Head(up[c]).type = "REGION_UPDATE"
      BY <1>7, <2>4 DEF ChildRegion
    <3> QED BY <1>2, <1>5, <1>7, <2>1, <3>1 DEF Takes
  <2> QED BY <2>3, <2>4
<1>8. CASE c # d
  <2>1. taken[c] = up[c]
    BY <1>1, <1>3, <1>8
  <2>2. CASE up' = taken
    BY <1>2, <1>5, <2>1, <2>2, SentNothing
  <2>3. CASE up' = ToParent(taken, b, RegionUpdates(b, region))
    <3>1. RegionUpdates(b, region) \in Seq(UpMsg)
      BY <1>2, RegionUpdatesType
    <3>2. c = b => Signed(c, RegionUpdates(b, region)) /\ Asked(c, RegionUpdates(b, region))
      BY <1>2, SignedParts DEF Asked
    <3> QED BY <1>2, <1>4, <1>5, <2>1, <2>3, <3>1, <3>2, SentOn
  <2> QED BY <1>6, <2>2, <2>3
<1> QED BY <1>7, <1>8

\* A publication may climb.
LEMMA PublishLink ==
  ASSUME TypeOK, NEW c \in Brokers, has_parent(c), NEW b \in Brokers, NEW m \in PublishMsg,
         NEW from, NEW upIn \in [Brokers -> Seq(UpMsg)], NEW downIn,
         HandlePublish(b, m, from, upIn, downIn)
  PROVE  /\ StillKnown(c) /\ ot_parent' = ot_parent
         /\ upIn[c] = up[c] => Sends(c)
         /\ c # b => up'[c] = upIn[c]
<1>1. PICK k \in Keys : k = PubKey(b, m, from)
  BY PubKeyType
<1>2. PICK fwd : fwd = [type |-> "PUBLISH", key |-> k, pos |-> m.pos, bn |-> m.bn, id |-> m.id]
  OBVIOUS
<1>3. fwd \in UpMsg /\ fwd.type = "PUBLISH"
  BY <1>2 DEF UpMsg, PublishMsg
<1>4. /\ up' = ToParent(upIn, b, <<fwd>>) \/ up' = upIn
      /\ UNCHANGED ot_parent
  BY <1>1, <1>2 DEF HandlePublish
<1>5. StillKnown(c)
  BY PublishKnows, RecordsKnow
<1>6. <<fwd>> \in Seq(UpMsg) /\ Signed(c, <<fwd>>)
  BY <1>3 DEF Signed
<1>7. c # b => up'[c] = upIn[c]
  BY <1>4 DEF ToParent
<1>8. ASSUME upIn[c] = up[c] PROVE Sends(c)
  <2>1. CASE up' = upIn
    BY <1>4, <1>5, <1>8, <2>1, SentNothing
  <2>2. CASE up' = ToParent(upIn, b, <<fwd>>)
    <3>1. Asked(c, <<fwd>>)
      BY <1>4 DEF Asked
    <3> QED BY <1>4, <1>5, <1>6, <1>8, <2>2, <3>1, SentOn
  <2> QED BY <1>4, <2>1, <2>2
<1> QED BY <1>4, <1>5, <1>7, <1>8

LEMMA PublicationsLink ==
  ASSUME TypeOK, NEW c \in Brokers, has_parent(c),
         \/ \E p \in Publications : ClientPublish(p)
         \/ \E d \in Brokers : ChildPublish(d) \/ ParentPublish(d)
  PROVE  Sends(c) \/ Takes(c)
<1>1. up \in [Brokers -> Seq(UpMsg)]
  BY DEF TypeOK, NetworkTypes
<1>2. ASSUME NEW p \in Publications, ClientPublish(p) PROVE Sends(c)
  <2>1. p.broker \in Brokers
    BY <1>2, Published
  <2>2. PICK m \in PublishMsg : HandlePublish(p.broker, m, NoBroker, up, down)
    BY <1>2, Published
  <2> QED BY <1>1, <2>1, <2>2, PublishLink
<1>3. ASSUME NEW d \in Brokers, ParentPublish(d) PROVE Sends(c)
  <2>1. PICK taken : taken = [down EXCEPT ![d] = Tail(@)]
    OBVIOUS
  <2>2. HandlePublish(d, Head(down[d]), Parent[d], up, taken) /\ Head(down[d]) \in PublishMsg
    BY <1>3, <2>1, Published DEF ParentPublish
  <2> QED BY <1>1, <2>2, PublishLink
<1>4. ASSUME NEW d \in Brokers, ChildPublish(d) PROVE Sends(c) \/ Takes(c)
  <2>1. PICK taken : taken = [up EXCEPT ![d] = Tail(@)]
    OBVIOUS
  <2>2. /\ HandlePublish(Parent[d], Head(up[d]), d, taken, down)
        /\ Head(up[d]) \in PublishMsg /\ Parent[d] \in Brokers /\ Parent[d] # d
        /\ up[d] # << >> /\ Head(up[d]).type = "PUBLISH"
    BY <1>4, <2>1, Published, NotItsParent DEF ChildPublish
  <2>3. taken \in [Brokers -> Seq(UpMsg)]
    BY <1>1, <2>1, <2>2, TakenType
  <2>4. /\ StillKnown(c) /\ ot_parent' = ot_parent
        /\ taken[c] = up[c] => Sends(c)
        /\ c # Parent[d] => up'[c] = taken[c]
    BY <2>2, <2>3, PublishLink
  <2>5. CASE c = d
    <3>1. up'[c] = Tail(up[c])
      BY <1>1, <2>1, <2>2, <2>4, <2>5
    <3> QED BY <2>2, <2>4, <2>5, <3>1 DEF Takes
  <2>6. CASE c # d
    BY <1>1, <2>1, <2>4, <2>6
  <2> QED BY <2>5, <2>6
<1> QED BY <1>2, <1>3, <1>4

\* A start sends HELLO.
LEMMA StartsLink ==
  ASSUME TypeOK, NEW c \in Brokers, has_parent(c), NEW b \in Brokers, Starts(b)
  PROVE  Sends(c) \/ (b = Parent[c] /\ FailFast(b))
<1>1. UNCHANGED <<children, child_active, ot_parent>>
  BY OthersKnow
  DEF Starts, Bind, GenerateKey, WriteKeyFile, UnlinkFullKeyFile,
    WriteFullKeyFile, LoadKey, FailFast,
      tableVars, overlayVars
<1>2. StillKnown(c)
  BY <1>1 DEF StillKnown
<1>3. CASE Bind(b) \/ GenerateKey(b) \/ WriteKeyFile(b) \/ UnlinkFullKeyFile(b)
  <2>1. UNCHANGED up
    BY <1>3 DEF Bind, GenerateKey, WriteKeyFile, UnlinkFullKeyFile, worldVars
  <2> QED BY <1>1, <1>2, <2>1, SentNothing
<1>4. CASE WriteFullKeyFile(b) \/ LoadKey(b)
  <2>1. PICK msgs : msgs = << [type |-> "HELLO", id |-> b, pos |-> Home[b]] >>
    OBVIOUS
  <2>2. msgs \in Seq(UpMsg)
    BY <2>1, BrokerAssumption DEF UpMsg, HelloMsg
  <2>3. up' = ToParent(up, b, msgs) /\ up \in [Brokers -> Seq(UpMsg)]
    BY <1>4, <2>1 DEF WriteFullKeyFile, LoadKey, Started, TypeOK, NetworkTypes
  <2>4. c = b => Signed(c, msgs) /\ Asked(c, msgs)
    BY <1>1, <2>1, SignedParts DEF Asked
  <2> QED BY <1>1, <1>2, <2>2, <2>3, <2>4, SentOn
<1>5. CASE FailFast(b) /\ b # Parent[c]
  <2>1. up'[c] = up[c]
    BY <1>5 DEF FailFast, Vanish
  <2> QED BY <1>1, <1>2, <2>1, SentNothing
<1> QED BY <1>3, <1>4, <1>5 DEF Starts

LEMMA CrashLink ==
  ASSUME TypeOK, NEW c \in Brokers, has_parent(c), NEW b \in Brokers, Crash(b),
         b # Parent[c]
  PROVE  Sends(c)
<1>1. /\ children' = [children EXCEPT ![b] = [x \in Brokers |-> NoChild]]
      /\ child_active' = [child_active EXCEPT ![b] = [k \in Keys |-> {}]]
      /\ ot_parent' = [ot_parent EXCEPT ![b] = {}]
      /\ up' = [x \in Brokers |-> IF Parent[x] = b THEN << >> ELSE up[x]]
  BY DEF Crash, Vanish
<1>2. Parent[c] \in Brokers
  BY BrokerAssumption DEF has_parent
<1>3. /\ children'[Parent[c]] = children[Parent[c]]
      /\ child_active'[Parent[c]] = child_active[Parent[c]]
      /\ ot_parent'[c] = ot_parent[c] \/ ot_parent'[c] = {}
      /\ up'[c] = up[c]
  BY <1>1, <1>2 DEF TypeOK, OverlayTypes
<1>4. StillKnown(c)
  BY <1>3 DEF StillKnown
<1> QED BY <1>3, <1>4, SentNothing

LEMMA OthersLink ==
  ASSUME TypeOK, NEW c \in Brokers,
         \/ \E h \in Beats : Heartbeat(h)
         \/ \E b \in Brokers :
              \/ HelloAck(b) \/ Sweep(b) \/ EpollTimeout(b) \/ StatsRequest(b)
              \/ LoseDown(b) \/ (LoseUp(b) /\ b # c)
         \/ Tick \/ UNCHANGED vars
  PROVE  Sends(c)
<1>1. UNCHANGED <<children, child_active, ot_parent>>
  <2>1. \A h : Heartbeat(h) => UNCHANGED <<children, child_active, ot_parent>>
    BY DEF Heartbeat, overlayVars
  <2>2. \A b : HelloAck(b) \/ Sweep(b) \/ EpollTimeout(b) \/ StatsRequest(b)
                 => UNCHANGED <<children, child_active, ot_parent>>
    BY DEF HelloAck, Sweep, EpollTimeout, StatsRequest, overlayVars
  <2>3. (\E b \in Brokers : LoseDown(b) \/ LoseUp(b)) \/ Tick \/ UNCHANGED vars
          => UNCHANGED <<children, child_active, ot_parent>>
    BY DEF LoseDown, LoseUp, Tick, vars, tableVars, overlayVars
  <2> QED BY <2>1, <2>2, <2>3
<1>2. up'[c] = up[c]
  <2>1. \A h : Heartbeat(h) => UNCHANGED up
    BY DEF Heartbeat
  <2>2. \A b : HelloAck(b) \/ Sweep(b) \/ EpollTimeout(b) \/ StatsRequest(b) => UNCHANGED up
    BY DEF HelloAck, Sweep, EpollTimeout, StatsRequest, worldVars
  <2>3. (\E b \in Brokers : LoseDown(b)) \/ Tick \/ UNCHANGED vars => UNCHANGED up
    BY DEF LoseDown, Tick, vars, worldVars
  <2>4. \A b \in Brokers : LoseUp(b) /\ b # c => up'[c] = up[c]
    BY DEF LoseUp, TypeOK, NetworkTypes
  <2> QED BY <2>1, <2>2, <2>3, <2>4
<1>3. StillKnown(c)
  BY <1>1 DEF StillKnown
<1> QED BY <1>1, <1>2, <1>3, SentNothing

LEMMA LinkSteps ==
  ASSUME TypeOK, [Next]_vars, NEW c \in Brokers, has_parent(c), Signed(c, up[c])
  PROVE  \/ Sends(c) \/ Takes(c)
         \/ LoseUp(c) \/ Crash(Parent[c]) \/ FailFast(Parent[c])
BY SubscribeLink, ChildSubscribeLink, RegionsLink, PublicationsLink, StartsLink, CrashLink,
   OthersLink
DEF Next, FromClients, FromChild, FromParent

\* Whoever sends signs; a channel that is taken from or emptied stays signed.
LEMMA StaysSigned ==
  ASSUME TypeOK, AllSigned, [Next]_vars
  PROVE  AllSigned'
<1> SUFFICES ASSUME NEW c \in Brokers, has_parent(c) PROVE Signed(c, up'[c])
  BY DEF AllSigned, has_parent, Signed
<1>1. up[c] \in Seq(UpMsg) /\ Signed(c, up[c])
  BY DEF AllSigned, TypeOK, NetworkTypes
<1>2. CASE Sends(c)
  <2>1. PICK msgs \in Seq(UpMsg) : up'[c] = up[c] \o msgs /\ Signed(c, msgs)
    BY <1>2 DEF Sends
  <2> QED BY <1>1, <2>1, SignedJoin
<1>3. CASE up[c] # << >> /\ up'[c] = Tail(up[c])
  <2>1. \A i \in DOMAIN up'[c] : i + 1 \in DOMAIN up[c] /\ up'[c][i] = up[c][i + 1]
    BY <1>1, <1>3, ShorterChannel
  <2> QED BY <1>1, <2>1 DEF Signed
<1>4. CASE up'[c] = << >>
  BY <1>4 DEF Signed
<1>5. Takes(c) => up[c] # << >> /\ up'[c] = Tail(up[c])
  BY DEF Takes
<1>6. LoseUp(c) => up[c] # << >> /\ up'[c] = Tail(up[c])
  BY DEF LoseUp, TypeOK, NetworkTypes
<1>7. Crash(Parent[c]) \/ FailFast(Parent[c]) => up'[c] = << >>
  BY DEF Crash, FailFast, Vanish
<1> QED BY <1>1, <1>2, <1>3, <1>4, <1>5, <1>6, <1>7, LinkSteps

\* A process that runs goes on running until it is killed, and one that starts
\* does so step by step.
LEMMA PhaseSteps ==
  ASSUME TypeOK, [Next]_vars, NEW c \in Brokers
  PROVE  \/ phase'[c] = phase[c]
         \/ Crash(c) /\ phase'[c] = "down"
         \/ FailFast(c) /\ phase[c] = "bound" /\ phase'[c] = "down"
         \/ Bind(c) /\ phase[c] = "down" /\ phase'[c] = "bound"
         \/ GenerateKey(c) /\ phase[c] = "bound" /\ phase'[c] = "writing"
         \/ WriteKeyFile(c) /\ phase[c] = "writing" /\ phase'[c] = "published"
         \/ UnlinkFullKeyFile(c) /\ phase[c] = "published" /\ phase'[c] = "sharing"
         \/ WriteFullKeyFile(c) /\ phase[c] = "sharing" /\ phase'[c] = "running"
         \/ LoadKey(c) /\ has_parent(c) /\ phase[c] = "bound" /\ phase'[c] = "running"
<1>1. phase \in [Brokers -> Phases]
  BY DEF TypeOK, ProcessTypes
<1>2. CASE UNCHANGED phase
  BY <1>2
<1>3. ASSUME NEW b \in Brokers, Crash(b) \/ FailFast(b)
      PROVE  phase' = [phase EXCEPT ![b] = "down"] /\ (FailFast(b) => phase[b] = "bound")
  BY <1>3 DEF Crash, FailFast, Vanish
<1>4. ASSUME NEW b \in Brokers,
             Bind(b) \/ GenerateKey(b) \/ WriteKeyFile(b) \/ UnlinkFullKeyFile(b)
      PROVE  \/ Bind(b) /\ phase[b] = "down" /\ phase' = [phase EXCEPT ![b] = "bound"]
             \/ /\ GenerateKey(b) /\ phase[b] = "bound"
                /\ phase' = [phase EXCEPT ![b] = "writing"]
             \/ /\ WriteKeyFile(b) /\ phase[b] = "writing"
                /\ phase' = [phase EXCEPT ![b] = "published"]
             \/ /\ UnlinkFullKeyFile(b) /\ phase[b] = "published"
                /\ phase' = [phase EXCEPT ![b] = "sharing"]
  BY <1>4 DEF Bind, GenerateKey, WriteKeyFile, UnlinkFullKeyFile
<1>5. ASSUME NEW b \in Brokers, WriteFullKeyFile(b) \/ LoadKey(b)
      PROVE  /\ phase' = [phase EXCEPT ![b] = "running"]
             /\ \/ WriteFullKeyFile(b) /\ phase[b] = "sharing"
                \/ LoadKey(b) /\ phase[b] = "bound" /\ has_parent(b)
  BY <1>5 DEF WriteFullKeyFile, LoadKey, Started
<1>6. ASSUME NEW b \in Brokers, Starts(b) \/ Crash(b), b # c
      PROVE  phase'[c] = phase[c]
  BY <1>1, <1>3, <1>4, <1>5, <1>6 DEF Starts
<1>7. CASE Starts(c) \/ Crash(c)
  BY <1>1, <1>3, <1>4, <1>5, <1>7 DEF Starts
<1> QED BY <1>2, <1>6, <1>7, OnlyStartsAndKills

\* Where cleanup takes keys out of a table, nothing is left.
LEMMA TakenOut ==
  ASSUME NEW table \in [Brokers -> [Keys -> Seq(GeoClient)]], NEW b \in Brokers,
         NEW dead, NEW c \in Brokers, NEW k \in Keys
  PROVE  \/ Without(table, b, dead, << >>)[c][k] = table[c][k]
         \/ Without(table, b, dead, << >>)[c][k] = << >>
<1>1. CASE c = b
  BY <1>1 DEF Without
<1>2. CASE c # b
  BY <1>2 DEF Without
<1> QED BY <1>1, <1>2

\* Interest arises with clients and children, and is forgotten in a kill.
LEMMA NoNewInterest ==
  ASSUME TypeOK, [Next]_vars, ~ \E s \in Subscriptions : ClientSubscribe(s),
         ~ \E b \in Brokers : ChildSubscribe(b) \/ Crash(b)
  PROVE  /\ \A c \in Brokers : \A k \in Keys :
              subscribers'[c][k] # << >> => subscribers[c][k] # << >>
         /\ UNCHANGED <<child_active, ot_parent>>
<1>1. \A c \in Brokers : \A k \in Keys :
        subscribers'[c][k] # << >> => subscribers[c][k] # << >>
  <2>1. (\E h \in Beats : Heartbeat(h)) \/ Tick \/ UNCHANGED softVars => UNCHANGED subscribers
    BY DEF Heartbeat, Tick, softVars, tableVars, groupVars
  <2>2. (\E b \in Brokers : Starts(b)) => UNCHANGED subscribers
    BY DEF Starts, Bind, GenerateKey, WriteKeyFile, UnlinkFullKeyFile,
    WriteFullKeyFile, LoadKey, FailFast,
           tableVars, groupVars
  <2>3. ASSUME NEW b \in Brokers, Sweep(b)
        PROVE  \A c \in Brokers : \A k \in Keys :
                 subscribers'[c][k] = subscribers[c][k] \/ subscribers'[c][k] = << >>
    <3>1. UNCHANGED subscribers \/ subscribers' = Without(subscribers, b, Expired(b), << >>)
      BY <2>3 DEF Sweep, cleanupExpired
    <3>2. subscribers \in [Brokers -> [Keys -> Seq(GeoClient)]]
      BY DEF TypeOK, GroupTypes
    <3>3. CASE UNCHANGED subscribers
      BY <3>3
    <3>4. CASE subscribers' = Without(subscribers, b, Expired(b), << >>)
      <4>1. PICK t, u, d : t = subscribers /\ u = subscribers' /\ d = Expired(b)
        OBVIOUS
      <4>2. t \in [Brokers -> [Keys -> Seq(GeoClient)]] /\ u = Without(t, b, d, << >>)
        BY <3>2, <3>4, <4>1
      <4>3. \A c \in Brokers : \A k \in Keys : u[c][k] = t[c][k] \/ u[c][k] = << >>
        BY <4>2, TakenOut
      <4> QED BY <4>1, <4>3
    <3> QED BY <3>1, <3>3, <3>4
  <2>4. LeavesGroups => \A c \in Brokers : \A k \in Keys :
          subscribers'[c][k] # << >> => subscribers[c][k] # << >>
    BY DEF LeavesGroups
  <2> QED BY <2>1, <2>2, <2>3, <2>4, SoftSteps
<1>2. UNCHANGED <<child_active, ot_parent>>
  <2>0. \A b, m, from, upIn, downIn :
          HandlePublish(b, m, from, upIn, downIn) => UNCHANGED <<child_active, ot_parent>>
    BY DEF HandlePublish
  <2>1. \A p : ClientPublish(p) => UNCHANGED <<child_active, ot_parent>>
    BY <2>0 DEF ClientPublish
  <2>2. \A h : Heartbeat(h) => UNCHANGED <<child_active, ot_parent>>
    BY DEF Heartbeat, overlayVars
  <2>3. \A b : Hello(b) \/ ChildRegion(b) \/ HelloAck(b)
                 => UNCHANGED <<child_active, ot_parent>>
    BY DEF Hello, ChildRegion, HelloAck, overlayVars
  <2>4. \A b : ChildPublish(b) \/ ParentPublish(b) => UNCHANGED <<child_active, ot_parent>>
    BY <2>0 DEF ChildPublish, ParentPublish
  <2>5. \A b : Starts(b) => UNCHANGED <<child_active, ot_parent>>
    <3>1. \A b : Bind(b) \/ GenerateKey(b) => UNCHANGED <<child_active, ot_parent>>
      BY DEF Bind, GenerateKey, tableVars, overlayVars
    <3>2. \A b : WriteKeyFile(b) \/ UnlinkFullKeyFile(b) \/ WriteFullKeyFile(b) =>
                   UNCHANGED <<child_active, ot_parent>>
      BY DEF WriteKeyFile, UnlinkFullKeyFile, WriteFullKeyFile, tableVars, overlayVars
    <3>3. \A b : LoadKey(b) \/ FailFast(b) => UNCHANGED <<child_active, ot_parent>>
      BY DEF LoadKey, FailFast, tableVars, overlayVars
    <3> QED BY <3>1, <3>2, <3>3 DEF Starts
  <2>6. \A b : Sweep(b) \/ EpollTimeout(b) \/ StatsRequest(b) \/ LoseUp(b) \/ LoseDown(b)
                 => UNCHANGED <<child_active, ot_parent>>
    BY DEF Sweep, EpollTimeout, StatsRequest, LoseUp, LoseDown, tableVars, overlayVars
  <2>7. Tick \/ UNCHANGED vars => UNCHANGED <<child_active, ot_parent>>
    BY DEF Tick, vars, tableVars, overlayVars
  <2> QED
    BY <2>1, <2>2, <2>3, <2>4, <2>5, <2>6, <2>7
    DEF Next, FromClients, FromChild, FromParent
<1> QED BY <1>1, <1>2

LEMMA RelayInvKept ==
  ASSUME TypeOK, RelayInv, [Next]_vars
  PROVE  RelayInv'
<1>1. /\ phase \in [Brokers -> Phases]
      /\ subscribers \in [Brokers -> [Keys -> Seq(GeoClient)]]
      /\ child_active \in [Brokers -> [Keys -> SUBSET Brokers]]
      /\ ot_parent \in [Brokers -> SUBSET Keys]
  BY DEF TypeOK, ProcessTypes, GroupTypes, OverlayTypes
<1>2. ASSUME NEW b \in Brokers, NEW k \in Keys, AtEpoll(b), LoopBody(b),
             ot_parent' = Relayed(b, k),
             \A c \in Brokers : \A l \in Keys : c # b \/ l # k =>
               /\ subscribers'[c][l] = subscribers[c][l]
               /\ child_active'[c][l] = child_active[c][l]
      PROVE  RelayInv'
  <2>1. phase' = phase /\ phase[b] = "running"
    BY <1>2 DEF LoopBody, AtEpoll
  <2>2. \A c \in Brokers : /\ ot_parent[c] \subseteq ot_parent'[c]
                           /\ c # b => ot_parent'[c] = ot_parent[c]
                           /\ has_parent(b) => k \in ot_parent'[b]
    BY <1>1, <1>2 DEF Relayed
  <2> QED BY <1>2, <2>1, <2>2 DEF RelayInv, has_parent
<1>3. ASSUME NEW s \in Subscriptions, ClientSubscribe(s) PROVE RelayInv'
  <2>1. PICK b, k : b = s.broker /\ k = SubKey(b, s)
    OBVIOUS
  <2>2. b \in Brokers /\ k \in Keys
    BY <2>1, BrokerAssumption, SubKeyType DEF SubscriptionType
  <2>3. PICK gc : /\ AtEpoll(b) /\ LoopBody(b) /\ ot_parent' = Relayed(b, k)
                  /\ subscribers' = [subscribers EXCEPT ![b][k] = Append(@, gc)]
                  /\ UNCHANGED child_active
    BY <1>3, <2>1 DEF ClientSubscribe
  <2>4. \A c \in Brokers : \A l \in Keys : c # b \/ l # k =>
          subscribers'[c][l] = subscribers[c][l]
    BY <1>1, <2>2, <2>3
  <2> QED BY <1>2, <2>2, <2>3, <2>4
<1>4. ASSUME NEW d \in Brokers, ChildSubscribe(d) PROVE RelayInv'
  <2>1. PICK b, k : b = Parent[d] /\ k = Head(up[d]).key
    OBVIOUS
  <2>2. /\ b \in Brokers /\ up[d] # << >> /\ Head(up[d]).type = "SUBSCRIBE"
        /\ up[d] \in Seq(UpMsg)
    BY <1>4, <2>1, BrokerAssumption DEF ChildSubscribe, Bound, TypeOK, NetworkTypes
  <2>3. k \in Keys
    BY <2>1, <2>2, HeadTailProperties, UpMsgTypes DEF SubscribeMsg
  <2>4. AtEpoll(b) /\ LoopBody(b) /\ UNCHANGED subscribers
    BY <1>4, <2>1 DEF ChildSubscribe, groupVars
  <2>5. \/ /\ child_active' = [child_active EXCEPT ![b][k] = @ \cup {d}]
           /\ ot_parent' = Relayed(b, k)
        \/ UNCHANGED <<child_active, ot_parent>>
    BY <1>4, <2>1 DEF ChildSubscribe
  <2>6. CASE UNCHANGED <<child_active, ot_parent>>
    BY <2>4, <2>6 DEF RelayInv, LoopBody, has_parent
  <2>7. CASE child_active' = [child_active EXCEPT ![b][k] = @ \cup {d}]
    <3>1. \A c \in Brokers : \A l \in Keys : c # b \/ l # k =>
            child_active'[c][l] = child_active[c][l]
      BY <1>1, <2>2, <2>3, <2>7
    <3> QED BY <1>2, <2>2, <2>3, <2>4, <2>5, <2>6, <3>1
  <2> QED BY <2>5, <2>6, <2>7
<1>5. ASSUME NEW b \in Brokers, Crash(b) PROVE RelayInv'
  <2>1. /\ phase' = [phase EXCEPT ![b] = "down"]
        /\ subscribers' = [subscribers EXCEPT ![b] = EmptyKeyed]
        /\ child_active' = [child_active EXCEPT ![b] = [k \in Keys |-> {}]]
        /\ ot_parent' = [ot_parent EXCEPT ![b] = {}]
    BY <1>5 DEF Crash, Vanish
  <2>2. \A k \in Keys : subscribers'[b][k] = << >> /\ child_active'[b][k] = {}
    BY <1>1, <2>1 DEF EmptyKeyed
  <2>3. \A c \in Brokers : c # b =>
          /\ phase'[c] = phase[c] /\ subscribers'[c] = subscribers[c]
          /\ child_active'[c] = child_active[c] /\ ot_parent'[c] = ot_parent[c]
    BY <1>1, <2>1
  <2>4. ot_parent'[b] = {}
    BY <1>1, <2>1
  <2> QED BY <2>2, <2>3, <2>4 DEF RelayInv, has_parent
<1>6. ASSUME ~ \E s \in Subscriptions : ClientSubscribe(s),
             ~ \E b \in Brokers : ChildSubscribe(b) \/ Crash(b)
      PROVE  RelayInv'
  <2>1. \A c \in Brokers : phase'[c] # "running" => phase[c] # "running"
    BY <1>6, PhaseSteps
  <2>2. /\ \A c \in Brokers : \A k \in Keys :
             subscribers'[c][k] # << >> => subscribers[c][k] # << >>
        /\ UNCHANGED <<child_active, ot_parent>>
    BY <1>6, NoNewInterest
  <2> QED BY <2>1, <2>2 DEF RelayInv, has_parent
<1> QED BY <1>3, <1>4, <1>5, <1>6

\* A parent that is never killed stays up; a child comes up after it.
LEMMA OrderKept ==
  ASSUME TypeOK, OrderInv, [Next]_vars
  PROVE  OrderInv'
<1> SUFFICES ASSUME NEW c \in Brokers, has_parent(c), KeptByOrder(c), phase'[c] # "down"
             PROVE  phase'[Parent[c]] = "running"
  BY DEF OrderInv, has_parent, KeptByOrder
<1>1. Parent[c] \in Brokers /\ ~Crash(Parent[c])
  BY BrokerAssumption DEF has_parent, KeptByOrder, Crash
<1>2. phase[Parent[c]] = "running"
  <2>1. CASE phase[c] # "down"
    BY <2>1 DEF OrderInv
  <2>2. CASE phase[c] = "down"
    <3>1. Bind(c)
      BY <2>2, PhaseSteps
    <3> QED BY <3>1 DEF Bind, KeptByOrder
  <2> QED BY <2>1, <2>2
<1> QED BY <1>1, <1>2, PhaseSteps

\* The first key is made before any child runs, and no root runs beside its maker.
LEMMA FirstKeyKept ==
  ASSUME TypeOK, FirstKeyInv, [Next]_vars
  PROVE  FirstKeyInv'
<1>1. /\ phase \in [Brokers -> Phases]
      /\ keys_made \in Nat
  BY DEF TypeOK, ProcessTypes
<1>2. CASE UNCHANGED <<phase, fileVars>>
  BY <1>2 DEF FirstKeyInv, KeyedRoot, fileVars, has_parent
<1>3. ASSUME NEW b \in Brokers, Bind(b) \/ FailFast(b) \/ Crash(b) PROVE FirstKeyInv'
  <2>1. UNCHANGED fileVars
    BY <1>3 DEF Bind, FailFast, Crash, worldVars
  <2>2. phase' = [phase EXCEPT ![b] = "bound"] \/ phase' = [phase EXCEPT ![b] = "down"]
    BY <1>3 DEF Bind, FailFast, Crash, Vanish
  <2>3. \A c \in Brokers : phase'[c] = phase[c] \/ phase'[c] \in {"down", "bound"}
    BY <1>1, <2>2
  <2> QED BY <2>1, <2>3 DEF FirstKeyInv, KeyedRoot, fileVars, has_parent
<1>4. ASSUME NEW b \in Brokers, LoadKey(b) PROVE FirstKeyInv'
  <2>1. /\ phase' = [phase EXCEPT ![b] = "running"] /\ has_parent(b)
        /\ UNCHANGED fileVars /\ (RequireHe => key_file # NoKey)
    BY <1>4 DEF LoadKey, Started, KeyUsable
  <2>2. \A c \in Brokers : phase'[c] = phase[c] \/ (c = b /\ phase'[c] = "running")
    BY <1>1, <2>1
  <2> QED BY <2>1, <2>2 DEF FirstKeyInv, KeyedRoot, fileVars, has_parent
<1>5. ASSUME NEW b \in Brokers, GenerateKey(b) PROVE FirstKeyInv'
  <2>1. /\ phase' = [phase EXCEPT ![b] = "writing"] /\ ~has_parent(b)
        /\ keys_made' = keys_made + 1 /\ key_file' = NoKey
    BY <1>5 DEF GenerateKey
  <2>2. \A c \in Brokers : IF c = b THEN phase'[c] = "writing" ELSE phase'[c] = phase[c]
    BY <1>1, <2>1
  <2>3. keys_made' # 0 /\ (keys_made' = 1 => keys_made = 0)
    BY <1>1, <2>1
  <2> QED BY <2>1, <2>2, <2>3 DEF FirstKeyInv, KeyedRoot, has_parent
<1>6. ASSUME NEW b \in Brokers,
             WriteKeyFile(b) \/ UnlinkFullKeyFile(b) \/ WriteFullKeyFile(b)
      PROVE  FirstKeyInv'
  <2>1. /\ keys_made' = keys_made
        /\ \/ phase[b] = "writing" /\ phase' = [phase EXCEPT ![b] = "published"]
           \/ phase[b] = "published" /\ phase' = [phase EXCEPT ![b] = "sharing"]
           \/ phase[b] = "sharing" /\ phase' = [phase EXCEPT ![b] = "running"]
    BY <1>6 DEF WriteKeyFile, UnlinkFullKeyFile, WriteFullKeyFile, Started
  <2>2. /\ phase[b] \in {"writing", "published", "sharing"}
        /\ phase'[b] \in {"published", "sharing", "running"}
        /\ \A c \in Brokers : c # b => phase'[c] = phase[c]
    BY <1>1, <2>1
  <2>3. ~has_parent(b) /\ KeyedRoot(b)
    BY <2>2 DEF FirstKeyInv, KeyedRoot
  <2>4. RequireHe => keys_made # 0
    BY <2>2 DEF FirstKeyInv
  <2>5. \A c \in Brokers : KeyedRoot(c)' => KeyedRoot(c)
    BY <2>2, <2>3 DEF KeyedRoot, has_parent
  <2>6. RequireHe /\ keys_made = 1 => \A c \in Brokers : phase'[c] # "writing"
    BY <2>2, <2>3 DEF FirstKeyInv, KeyedRoot
  <2> QED BY <2>1, <2>2, <2>3, <2>4, <2>5, <2>6 DEF FirstKeyInv, has_parent
<1> QED
  BY <1>2, <1>3, <1>4, <1>5, <1>6, OnlyStartsAndKills DEF Starts

\* Only the network loses datagrams.
LEMMA LossSteps ==
  ASSUME TypeOK, [Next]_vars
  PROVE  \/ spent'.losses = spent.losses
         \/ /\ \E c \in Brokers : LoseUp(c) \/ LoseDown(c)
            /\ spent.losses < MaxLosses /\ spent'.losses = spent.losses + 1
<1>1. spent \in Budgets
  BY DEF TypeOK, NetworkTypes
<1>2. ASSUME NEW c \in Brokers, LoseUp(c) \/ LoseDown(c)
      PROVE  spent.losses < MaxLosses /\ spent'.losses = spent.losses + 1
  BY <1>1, <1>2 DEF LoseUp, LoseDown, Budgets
<1>3. (\E p \in Publications : ClientPublish(p)) => spent'.losses = spent.losses
  BY <1>1 DEF ClientPublish, Budgets
<1>4. (\E h \in Beats : Heartbeat(h)) \/ (\E b \in Brokers : Crash(b))
        => spent'.losses = spent.losses
  BY <1>1 DEF Heartbeat, Crash, Budgets
<1>5. (\E s \in Subscriptions : ClientSubscribe(s)) \/ Tick \/ UNCHANGED vars
        => UNCHANGED spent
  BY DEF ClientSubscribe, Tick, vars, worldVars
<1>6. (\E b \in Brokers : FromChild(b) \/ FromParent(b)) => UNCHANGED spent
  BY DEF FromChild, FromParent, Hello, ChildSubscribe, ChildRegion, ChildPublish, HelloAck,
         ParentPublish
<1>7. (\E b \in Brokers : Starts(b)) => UNCHANGED spent
  BY DEF Starts, Bind, GenerateKey, WriteKeyFile, UnlinkFullKeyFile,
    WriteFullKeyFile, LoadKey, FailFast,
         worldVars
<1>8. (\E b \in Brokers : Sweep(b) \/ EpollTimeout(b) \/ StatsRequest(b)) => UNCHANGED spent
  BY DEF Sweep, EpollTimeout, StatsRequest, worldVars
<1> QED
  BY <1>2, <1>3, <1>4, <1>5, <1>6, <1>7, <1>8 DEF Next, FromClients

\* The links: what a running child has relayed since it runs is filed or coming.
InterestInv ==
    /\ RelayInv /\ AllSigned /\ OrderInv /\ FirstKeyInv
    /\ \A c \in Brokers : has_parent(c) /\ phase[c] = "running" /\ Kept(c) => Link(c)

\* A link that is kept was kept while the child ran.
LEMMA KeptBefore ==
  ASSUME TypeOK, InterestInv, [Next]_vars, NEW c \in Brokers, has_parent(c),
         phase[c] = "running", phase'[c] = "running", Kept(c)'
  PROVE  Kept(c) /\ ~LoseUp(c) /\ ~Crash(Parent[c]) /\ ~FailFast(Parent[c])
<1>1. /\ spent.losses \in Nat /\ keys_made \in Nat /\ Parent[c] \in Brokers
      /\ phase \in [Brokers -> Phases]
  BY BrokerAssumption DEF TypeOK, NetworkTypes, ProcessTypes, Budgets, has_parent
<1>2. spent.losses = 0 /\ ~LoseUp(c)
  <2>1. spent'.losses = 0
    BY DEF Kept
  <2>2. LoseUp(c) => spent'.losses = spent.losses + 1
    BY DEF LoseUp, TypeOK, NetworkTypes, Budgets
  <2> QED BY <1>1, <2>1, <2>2, LossSteps
<1>3. ASSUME NEW b \in Brokers, Crash(b) \/ FailFast(b) PROVE phase'[b] = "down"
  BY <1>1, <1>3 DEF Crash, FailFast, Vanish
<1>4. CASE KeptByOrder(c)
  <2>1. phase[Parent[c]] = "running" /\ phase'[Parent[c]] = "running"
    <3>1. OrderInv /\ OrderInv'
      BY OrderKept DEF InterestInv
    <3> QED BY <1>4, <3>1 DEF OrderInv, has_parent, KeptByOrder
  <2> QED BY <1>1, <1>2, <1>3, <1>4, <2>1 DEF Kept
<1>5. CASE ~KeptByOrder(c)
  <2>1. /\ KeptByKey(c) /\ keys_made' = 1
        /\ phase'[Parent[c]] \in {"published", "sharing", "running"}
    BY <1>5 DEF Kept, KeptByOrder, KeptByKey, has_parent
  <2>2. FirstKeyInv /\ RequireHe /\ ~has_parent(Parent[c])
    BY <2>1 DEF InterestInv, KeptByKey
  <2>3. keys_made = 1
    <3>1. keys_made # 0
      BY <2>2 DEF FirstKeyInv
    <3>2. keys_made' = keys_made \/ keys_made' = keys_made + 1
      BY OnlyStartsAndKills
      DEF Starts, Bind, GenerateKey, WriteKeyFile, UnlinkFullKeyFile,
    WriteFullKeyFile, LoadKey, FailFast,
          Crash, fileVars, worldVars
    <3> QED BY <1>1, <2>1, <3>1, <3>2
  <2>4. phase[Parent[c]] \in {"published", "sharing", "running"}
    <3>1. phase[Parent[c]] # "writing"
      BY <1>1, <2>2, <2>3 DEF FirstKeyInv
    <3> QED BY <1>1, <2>1, <2>2, <3>1, PhaseSteps
  <2> QED BY <1>1, <1>2, <1>3, <2>1, <2>3, <2>4 DEF Kept
<1> QED BY <1>4, <1>5

\* A child that starts has nothing to relay yet, and says HELLO.
LEMMA LinkStarts ==
  ASSUME TypeOK, InterestInv, [Next]_vars, NEW c \in Brokers, has_parent(c),
         phase[c] # "running", phase'[c] = "running", Kept(c)'
  PROVE  Link(c)'
<1>1. /\ phase \in [Brokers -> Phases]
      /\ Parent[c] \in Brokers /\ Parent[c] # c /\ Parent[c] # NoBroker
      /\ up \in [Brokers -> Seq(UpMsg)]
  BY BrokerAssumption, NotItsParent DEF TypeOK, ProcessTypes, NetworkTypes, has_parent
<1>2. LoadKey(c)
  BY PhaseSteps DEF InterestInv, FirstKeyInv
<1>3. PICK hello : hello = [type |-> "HELLO", id |-> c, pos |-> Home[c]]
  OBVIOUS
<1>4. /\ up' = ToParent(up, c, << hello >>) /\ phase' = [phase EXCEPT ![c] = "running"]
      /\ UNCHANGED ot_parent
  BY <1>2, <1>3 DEF LoadKey, Started, overlayVars
<1>5. ot_parent'[c] = {}
  BY <1>4 DEF InterestInv, RelayInv
<1>6. phase'[Parent[c]] # "down"
  <2>1. OrderInv'
    BY OrderKept DEF InterestInv
  <2> QED BY <2>1 DEF Kept, OrderInv, KeptByOrder, has_parent
<1>7. up'[c] = up[c] \o << hello >>
  BY <1>1, <1>4, <1>6 DEF ToParent, Bound
<1>8. hello \in UpMsg
  BY <1>3, BrokerAssumption DEF UpMsg, HelloMsg
<1>9. Len(up[c]) + 1 \in DOMAIN up'[c] /\ up'[c][Len(up[c]) + 1] = hello
  BY <1>1, <1>7, <1>8
<1>10. Introduced(c)'
  BY <1>3, <1>9 DEF Introduced, InFlight
<1> QED BY <1>5, <1>10 DEF Link

LEMMA NextInterest ==
  ASSUME TypeOK, InterestInv, [Next]_vars
  PROVE  InterestInv'
<1>1. RelayInv' /\ AllSigned' /\ OrderInv' /\ FirstKeyInv'
  BY RelayInvKept, StaysSigned, OrderKept, FirstKeyKept DEF InterestInv
<1>2. ASSUME NEW c \in Brokers, has_parent(c), phase'[c] = "running", Kept(c)'
      PROVE  Link(c)'
  <2>1. CASE phase[c] # "running"
    BY <1>2, <2>1, LinkStarts
  <2>2. CASE phase[c] = "running"
    <3>1. Kept(c) /\ ~LoseUp(c) /\ ~Crash(Parent[c]) /\ ~FailFast(Parent[c])
      BY <1>2, <2>2, KeptBefore
    <3>2. Link(c) /\ Signed(c, up[c])
      BY <1>2, <2>2, <3>1 DEF InterestInv, AllSigned
    <3>3. phase[Parent[c]] # "down"
      BY <1>2, <2>2, <3>1 DEF Kept, InterestInv, OrderInv
    <3> QED BY <1>2, <3>1, <3>2, <3>3, LinkSteps, LinkSends, LinkTakes
  <2> QED BY <2>1, <2>2
<1> QED BY <1>1, <1>2 DEF InterestInv, has_parent

LEMMA InterestStarts == Init => InterestInv
<1> SUFFICES ASSUME Init PROVE InterestInv
  OBVIOUS
<1>1. phase = [b \in Brokers |-> "down"] /\ ot_parent = [b \in Brokers |-> {}]
      /\ up = [b \in Brokers |-> << >>] /\ keys_made = 0 /\ key_file = NoKey
      /\ subscribers = [b \in Brokers |-> EmptyKeyed]
      /\ child_active = [b \in Brokers |-> [k \in Keys |-> {}]]
  BY DEF Init
<1>2. RelayInv /\ AllSigned
  BY <1>1 DEF RelayInv, AllSigned, Signed, EmptyKeyed
<1>3. OrderInv /\ FirstKeyInv
  BY <1>1 DEF OrderInv, FirstKeyInv
<1> QED BY <1>1, <1>2, <1>3 DEF InterestInv

LEMMA LinkRelays ==
  ASSUME InterestInv, NEW c \in Brokers, NEW k \in Keys, has_parent(c), Link(c)
  PROVE  RelayedOrComing(c, k)
BY DEF InterestInv, RelayInv, Link, Coming, RelayedOrComing

\* Where parents start first and neither they die nor datagrams get lost, the
\* interest of a running broker, its clients' and its children's, is filed by its
\* parent or on its way to be filed: however the broker itself is killed and
\* restarted, no relay is dropped for want of a HELLO (handleSubscribe, start).
THEOREM InterestGoesUp ==
  ASSUME MaxLosses = 0, \A c \in Brokers : has_parent(c) => KeptByOrder(c)
  PROVE  Spec => []InterestRelayed
<1> DEFINE Lossless == spent.losses = 0
<1>1. Init => InterestInv /\ Lossless
  BY InterestStarts DEF Init
<1>2. TypeOK /\ InterestInv /\ Lossless /\ [Next]_vars => InterestInv' /\ Lossless'
  BY NextInterest, LossSteps
<1>3. InterestInv /\ Lossless => InterestRelayed
  BY LinkRelays DEF InterestInv, InterestRelayed, Kept
<1> QED BY <1>1, <1>2, <1>3, TypeCorrect, PTL DEF Spec

\* With require_he nothing need start in order where parents are roots: a child
\* cannot run before its root has made its key, so all it says is heard, for as
\* long as that root lives; children may be killed and restarted at any moment
\* (initCrypto, handleHello, handleSubscribe).
THEOREM InterestOutlivesChild ==
  ASSUME LinksKept
  PROVE  Spec => []InterestSurvivesChild
<1>1. InterestInv => InterestSurvivesChild
  BY LinkRelays DEF InterestInv, InterestSurvivesChild, Kept, LinksKept
<1>2. TypeOK /\ InterestInv /\ [Next]_vars => InterestInv'
  BY NextInterest
<1> QED BY <1>1, <1>2, InterestStarts, TypeCorrect, PTL DEF Spec

-----------------------------------------------------------------------------
\* What a parent knows of a leaf's region.

Leaf(c) == has_parent(c) /\ \A d \in Brokers : Parent[d] # c

\* The datagrams that replace the region in the parent's record, and with what.
RegionMsgs(channel) ==
    {i \in DOMAIN channel : channel[i].type \in {"HELLO", "REGION_UPDATE"}}
RegionSaid(m) == IF m.type = "HELLO" THEN RegionOf(m.pos) ELSE m.region
LastSaid(channel, r) ==
    \E i \in RegionMsgs(channel) :
      RegionSaid(channel[i]) = r /\ \A j \in RegionMsgs(channel) : j <= i

\* The region the parent has on record once the link is empty.
RecordComing(c, r) ==
    \/ RegionMsgs(up[c]) = {} /\ children[Parent[c]][c].region = r
    \/ LastSaid(up[c], r)

\* Steps as the region of leaf c sees them.
RegionKept(c) ==
    children[Parent[c]][c] # NoChild
      => children'[Parent[c]][c].region = children[Parent[c]][c].region
SaysNothing(c) ==
    /\ RegionKept(c) /\ my_region'[c] = my_region[c]
    /\ \E msgs \in Seq(UpMsg) : up'[c] = up[c] \o msgs /\ RegionMsgs(msgs) = {}
SaysRegion(c) ==
    \E msgs \in Seq(UpMsg) : up'[c] = up[c] \o msgs /\ LastSaid(msgs, my_region'[c])
HearsRegion(c) ==
    /\ up[c] # << >> /\ up'[c] = Tail(up[c]) /\ my_region'[c] = my_region[c]
    /\ CASE Head(up[c]).type = "HELLO" ->
              children'[Parent[c]][c].region = RegionSaid(Head(up[c]))
         [] Head(up[c]).type = "REGION_UPDATE" ->
              children[Parent[c]][c] # NoChild
                => children'[Parent[c]][c].region = RegionSaid(Head(up[c]))
         [] OTHER -> RegionKept(c)

LEMMA SaidNothing ==
  ASSUME TypeOK, NEW c \in Brokers, NEW r, Introduced(c), RecordComing(c, r), SaysNothing(c),
         r = my_region[c]
  PROVE  RecordComing(c, my_region[c])'
<1>1. PICK msgs \in Seq(UpMsg) : up'[c] = up[c] \o msgs /\ RegionMsgs(msgs) = {}
  BY DEF SaysNothing
<1>2. up[c] \in Seq(UpMsg)
  BY DEF TypeOK, NetworkTypes
<1>3. RegionMsgs(up'[c]) = RegionMsgs(up[c])
        /\ \A i \in RegionMsgs(up[c]) : up'[c][i] = up[c][i]
  BY <1>1, <1>2, JoinedChannel DEF RegionMsgs
<1>4. my_region'[c] = r /\ RegionKept(c)
  BY DEF SaysNothing
<1>5. CASE LastSaid(up[c], r)
  BY <1>3, <1>4, <1>5 DEF RecordComing, LastSaid
<1>6. CASE RegionMsgs(up[c]) = {} /\ children[Parent[c]][c].region = r
  <2>1. children[Parent[c]][c] # NoChild
    BY <1>6 DEF Introduced, InFlight, RegionMsgs
  <2> QED BY <1>3, <1>4, <1>6, <2>1 DEF RecordComing, RegionKept
<1> QED BY <1>5, <1>6 DEF RecordComing

LEMMA SaidRegion ==
  ASSUME TypeOK, NEW c \in Brokers, SaysRegion(c)
  PROVE  RecordComing(c, my_region[c])'
<1>1. PICK msgs \in Seq(UpMsg) : up'[c] = up[c] \o msgs /\ LastSaid(msgs, my_region'[c])
  BY DEF SaysRegion
<1>2. PICK i \in RegionMsgs(msgs) :
        RegionSaid(msgs[i]) = my_region'[c] /\ \A j \in RegionMsgs(msgs) : j <= i
  BY <1>1 DEF LastSaid
<1>3. up[c] \in Seq(UpMsg) /\ Len(up[c]) \in Nat /\ i \in DOMAIN msgs /\ i \in Nat
  BY DEF TypeOK, NetworkTypes, RegionMsgs
<1>4. /\ Len(up[c]) + i \in DOMAIN up'[c] /\ up'[c][Len(up[c]) + i] = msgs[i]
      /\ \A j \in DOMAIN up'[c] :
           \/ j \in DOMAIN up[c]
           \/ j - Len(up[c]) \in DOMAIN msgs /\ up'[c][j] = msgs[j - Len(up[c])]
      /\ \A j \in DOMAIN up[c] : j < Len(up[c]) + i
  BY <1>1, <1>3, JoinedChannel
<1>5. Len(up[c]) + i \in RegionMsgs(up'[c])
  BY <1>2, <1>4 DEF RegionMsgs
<1>6. ASSUME NEW j \in RegionMsgs(up'[c]) PROVE j <= Len(up[c]) + i
  <2>1. j \in DOMAIN up'[c] /\ up'[c][j].type \in {"HELLO", "REGION_UPDATE"}
    BY DEF RegionMsgs
  <2>2. up'[c] \in Seq(UpMsg)
    BY <1>1, <1>3
  <2>3. j \in Nat
    BY <2>1, <2>2
  <2>4. CASE j \in DOMAIN up[c]
    <3>1. j < Len(up[c]) + i
      BY <1>4, <2>4
    <3> QED BY <1>3, <2>3, <3>1
  <2>5. CASE j - Len(up[c]) \in DOMAIN msgs /\ up'[c][j] = msgs[j - Len(up[c])]
    <3>1. j - Len(up[c]) \in RegionMsgs(msgs)
      BY <2>1, <2>5 DEF RegionMsgs
    <3>2. j - Len(up[c]) <= i
      BY <1>2, <3>1
    <3> QED BY <1>3, <2>3, <3>2
  <2> QED BY <1>4, <2>1, <2>4, <2>5
<1> QED BY <1>2, <1>4, <1>5, <1>6 DEF RecordComing, LastSaid

LEMMA HeardRegion ==
  ASSUME TypeOK, NEW c \in Brokers, NEW r, Introduced(c), RecordComing(c, r), HearsRegion(c),
         r = my_region[c]
  PROVE  RecordComing(c, my_region[c])'
<1>1. up[c] \in Seq(UpMsg) /\ up[c] # << >> /\ up'[c] = Tail(up[c]) /\ my_region'[c] = r
  BY DEF TypeOK, NetworkTypes, HearsRegion
<1>2. /\ \A i \in DOMAIN up'[c] : i + 1 \in DOMAIN up[c] /\ up'[c][i] = up[c][i + 1] /\ i \in Nat
      /\ \A i \in DOMAIN up[c] : i \in Nat \ {0}
      /\ \A i \in DOMAIN up[c] :
           \/ i = 1 /\ up[c][i] = Head(up[c])
           \/ i - 1 \in DOMAIN up'[c] /\ up'[c][i - 1] = up[c][i]
  BY <1>1, ShorterChannel
<1>3. \A i \in RegionMsgs(up'[c]) : i + 1 \in RegionMsgs(up[c]) /\ i \in Nat \ {0}
  <2>1. up'[c] \in Seq(UpMsg)
    BY <1>1, HeadTailProperties
  <2>2. \A i \in DOMAIN up'[c] : i \in Nat \ {0}
    BY <2>1
  <2> QED BY <1>2, <2>2 DEF RegionMsgs
<1>4. CASE RegionMsgs(up[c]) = {} /\ children[Parent[c]][c].region = r
  <2>1. 1 \in DOMAIN up[c] /\ Head(up[c]) = up[c][1]
    BY <1>1
  <2>2. Head(up[c]).type \notin {"HELLO", "REGION_UPDATE"}
    BY <1>4, <2>1 DEF RegionMsgs
  <2>3. RegionKept(c)
    BY <2>2 DEF HearsRegion
  <2>4. children[Parent[c]][c] # NoChild
    BY <1>4 DEF Introduced, InFlight, RegionMsgs
  <2>5. RegionMsgs(up'[c]) = {}
    BY <1>3, <1>4
  <2> QED BY <1>1, <1>4, <2>3, <2>4, <2>5 DEF RecordComing, RegionKept
<1>5. CASE LastSaid(up[c], r)
  <2>1. PICK i \in RegionMsgs(up[c]) :
          RegionSaid(up[c][i]) = r /\ \A j \in RegionMsgs(up[c]) : j <= i
    BY <1>5 DEF LastSaid
  <2>2. i \in DOMAIN up[c] /\ up[c][i].type \in {"HELLO", "REGION_UPDATE"} /\ i \in Nat \ {0}
    BY <1>2 DEF RegionMsgs
  <2>3. CASE i = 1
    <3>1. Head(up[c]) = up[c][1]
      BY <1>1
    <3>2. RegionMsgs(up'[c]) = {}
      <4> SUFFICES ASSUME NEW j \in RegionMsgs(up'[c]) PROVE FALSE
        OBVIOUS
      <4>1. j + 1 <= 1 /\ j \in Nat \ {0}
        BY <1>3, <2>1, <2>3
      <4> QED BY <4>1
    <3>3. CASE Head(up[c]).type = "HELLO"
      BY <1>1, <2>1, <2>3, <3>1, <3>2, <3>3 DEF HearsRegion, RecordComing
    <3>4. CASE Head(up[c]).type = "REGION_UPDATE"
      <4>1. \A j \in RegionMsgs(up[c]) : j = 1
        <5> TAKE j \in RegionMsgs(up[c])
        <5>1. j \in Nat \ {0} /\ j <= 1
          BY <1>2, <2>1, <2>3 DEF RegionMsgs
        <5> QED BY <5>1
      <4>2. children[Parent[c]][c] # NoChild
        BY <3>1, <3>4, <4>1 DEF Introduced, InFlight, RegionMsgs
      <4>3. children'[Parent[c]][c].region = RegionSaid(Head(up[c]))
        BY <3>4, <4>2 DEF HearsRegion
      <4> QED BY <1>1, <2>1, <2>3, <3>1, <3>2, <4>3 DEF RecordComing
    <3> QED BY <2>2, <2>3, <3>1, <3>3, <3>4
  <2>4. CASE i # 1
    <3>1. i - 1 \in RegionMsgs(up'[c]) /\ up'[c][i - 1] = up[c][i]
      BY <1>2, <2>2, <2>4 DEF RegionMsgs
    <3>2. \A j \in RegionMsgs(up'[c]) : j <= i - 1
      <4> TAKE j \in RegionMsgs(up'[c])
      <4>1. j + 1 <= i /\ j \in Nat
        BY <1>3, <2>1
      <4> QED BY <2>2, <4>1
    <3> QED BY <1>1, <2>1, <3>1, <3>2 DEF RecordComing, LastSaid
  <2> QED BY <2>3, <2>4
<1> QED BY <1>4, <1>5 DEF RecordComing

\* What a step says about a leaf's region, step by step.
LEMMA CoverQuiet ==
  ASSUME TypeOK, NEW c \in Brokers, up'[c] = up[c], RegionKept(c), my_region'[c] = my_region[c]
  PROVE  SaysNothing(c)
<1>1. up[c] \in Seq(UpMsg)
  BY DEF TypeOK, NetworkTypes
<1>2. << >> \in Seq(UpMsg) /\ up'[c] = up[c] \o << >>
  BY <1>1
<1>3. RegionMsgs(<< >>) = {}
  BY DEF RegionMsgs
<1> QED BY <1>2, <1>3 DEF SaysNothing

\* A datagram about something else.
LEMMA CoverOther ==
  ASSUME TypeOK, NEW c \in Brokers, RegionKept(c), my_region'[c] = my_region[c],
         NEW channels, channels \in [Brokers -> Seq(UpMsg)], channels[c] = up[c],
         NEW b \in Brokers, NEW msgs \in Seq(UpMsg), up' = ToParent(channels, b, msgs),
         RegionMsgs(msgs) = {}
  PROVE  SaysNothing(c)
<1>1. up'[c] = up[c] \/ up'[c] = up[c] \o msgs
  BY DEF ToParent
<1>2. CASE up'[c] = up[c]
  BY <1>2, CoverQuiet
<1>3. CASE up'[c] = up[c] \o msgs
  BY <1>3 DEF SaysNothing
<1> QED BY <1>1, <1>2, <1>3

LEMMA CoverSubscribe ==
  ASSUME TypeOK, NEW c \in Brokers, has_parent(c), phase[Parent[c]] # "down",
         NEW s \in Subscriptions, ClientSubscribe(s)
  PROVE  SaysNothing(c) \/ SaysRegion(c)
<1>1. PICK b, k, region : /\ b = s.broker /\ k = SubKey(b, s)
                          /\ region = Merge(my_region[b], RegionOf(s.pos))
  OBVIOUS
<1>2. s \in SubscriptionType /\ b \in Brokers /\ s.pos \in Points
  BY <1>1, BrokerAssumption DEF SubscriptionType
<1>3. k \in Keys /\ region \in RegionType
  BY <1>1, <1>2, SubKeyType, RegionOfType, MergeType DEF TypeOK, OverlayTypes
<1>4. /\ up' = ToParent(up, b, RegionUpdates(b, region) \o Relay(b, k))
      /\ my_region' = [my_region EXCEPT ![b] = region]
      /\ UNCHANGED children
  BY <1>1 DEF ClientSubscribe
<1>5. /\ RegionKept(c) /\ up \in [Brokers -> Seq(UpMsg)]
      /\ my_region \in [Brokers -> RegionType]
  BY <1>4 DEF RegionKept, TypeOK, NetworkTypes, OverlayTypes
<1>6. RegionUpdates(b, region) \in Seq(UpMsg) /\ Relay(b, k) \in Seq(UpMsg)
  BY <1>2, <1>3, RegionUpdatesType, RelayType
<1>7. RegionMsgs(Relay(b, k)) = {}
  BY DEF RegionMsgs, Relay
<1>8. CASE b # c
  <2>1. up'[c] = up[c] /\ my_region'[c] = my_region[c]
    BY <1>4, <1>5, <1>8 DEF ToParent
  <2> QED BY <1>5, <2>1, CoverQuiet
<1>9. CASE b = c /\ region = my_region[c]
  <2>1. RegionUpdates(b, region) \o Relay(b, k) = Relay(b, k)
    BY <1>6, <1>9 DEF RegionUpdates
  <2>2. my_region'[c] = my_region[c]
    BY <1>4, <1>5, <1>9
  <2> QED BY <1>2, <1>4, <1>5, <1>6, <1>7, <2>1, <2>2, CoverOther
<1>10. CASE b = c /\ region # my_region[c]
  <2>1. PICK m : m = RegionUpdate(c, region)
    OBVIOUS
  <2>2. RegionUpdates(b, region) = << m >>
    BY <1>10, <2>1 DEF RegionUpdates
  <2>3. m \in UpMsg
    BY <1>3, <2>1 DEF RegionUpdate, UpMsg, RegionMsg
  <2>4. PICK msgs \in Seq(UpMsg) : msgs = << m >> \o Relay(b, k)
    <3>1. << m >> \o Relay(b, k) \in Seq(UpMsg)
      BY <1>6, <2>2
    <3> QED BY <3>1
  <2>5. up'[c] = up[c] \o msgs
    BY <1>4, <1>5, <1>10, <2>2, <2>4 DEF ToParent, Bound, has_parent
  <2>6. /\ 1 \in DOMAIN msgs /\ msgs[1] = m
        /\ \A j \in DOMAIN msgs :
             \/ j = 1
             \/ j - 1 \in DOMAIN Relay(b, k) /\ msgs[j] = Relay(b, k)[j - 1]
    <3>1. << m >> \in Seq(UpMsg) /\ Len(<< m >>) = 1 /\ DOMAIN << m >> = {1} /\ << m >>[1] = m
      BY <2>3
    <3> QED BY <1>6, <2>4, <3>1, JoinedChannel
  <2>7. \A j \in RegionMsgs(msgs) : j = 1
    BY <1>7, <2>6 DEF RegionMsgs
  <2>8. my_region'[c] = region
    BY <1>4, <1>5, <1>10
  <2>9. m.type = "REGION_UPDATE" /\ m.region = region
    BY <2>1 DEF RegionUpdate
  <2>10. 1 \in RegionMsgs(msgs) /\ RegionSaid(msgs[1]) = region
    BY <2>6, <2>9 DEF RegionMsgs, RegionSaid
  <2>11. LastSaid(msgs, region)
    BY <2>7, <2>10 DEF LastSaid
  <2> QED BY <2>5, <2>8, <2>11 DEF SaysRegion
<1> QED BY <1>8, <1>9, <1>10

LEMMA CoverChildSubscribe ==
  ASSUME TypeOK, NEW c \in Brokers, Leaf(c), NEW d \in Brokers, ChildSubscribe(d)
  PROVE  SaysNothing(c) \/ HearsRegion(c)
<1>1. PICK b, k, taken : /\ b = Parent[d] /\ k = Head(up[d]).key
                         /\ taken = [up EXCEPT ![d] = Tail(@)]
  OBVIOUS
<1>2. /\ b \in Brokers /\ b # c /\ up[d] # << >> /\ Head(up[d]).type = "SUBSCRIBE"
      /\ UNCHANGED <<children, my_region>>
      /\ (up' = taken \/ up' = ToParent(taken, b, Relay(b, k)))
  BY <1>1, BrokerAssumption DEF ChildSubscribe, Bound, Leaf
<1>3. up \in [Brokers -> Seq(UpMsg)] /\ RegionKept(c)
  BY <1>2 DEF TypeOK, NetworkTypes, RegionKept
<1>4. up'[c] = taken[c]
  <2>1. taken \in [Brokers -> Seq(UpMsg)]
    BY <1>1, <1>2, <1>3, TakenType
  <2> QED BY <1>2, <2>1 DEF ToParent
<1>5. CASE c = d
  <2>1. up'[c] = Tail(up[c])
    BY <1>1, <1>3, <1>4, <1>5
  <2> QED BY <1>2, <1>3, <1>5, <2>1 DEF HearsRegion
<1>6. CASE c # d
  <2>1. up'[c] = up[c]
    BY <1>1, <1>3, <1>4, <1>6
  <2> QED BY <1>2, <1>3, <2>1, CoverQuiet
<1> QED BY <1>5, <1>6

\* HELLO and REGION_UPDATE of c set c's record; those of others leave it alone.
LEMMA CoverRegions ==
  ASSUME TypeOK, AllSigned, NEW c \in Brokers, Leaf(c), NEW d \in Brokers,
         Hello(d) \/ ChildRegion(d)
  PROVE  SaysNothing(c) \/ HearsRegion(c)
<1>1. PICK b, m, taken : /\ b = Parent[d] /\ m = Head(up[d])
                         /\ taken = [up EXCEPT ![d] = Tail(@)]
  OBVIOUS
<1>2. /\ b \in Brokers /\ b # c /\ b # d /\ up[d] # << >> /\ has_parent(d)
      /\ m.type = (IF Hello(d) THEN "HELLO" ELSE "REGION_UPDATE")
  BY <1>1, BrokerAssumption, NotItsParent DEF Hello, ChildRegion, Bound, Leaf, has_parent
<1>3. /\ up \in [Brokers -> Seq(UpMsg)] /\ my_region \in [Brokers -> RegionType]
      /\ children \in [Brokers -> [Brokers -> ChildBroker \cup {NoChild}]]
  BY DEF TypeOK, NetworkTypes, OverlayTypes
<1>4. m.id = d
  <2>1. 1 \in DOMAIN up[d] /\ m = up[d][1]
    BY <1>1, <1>2, <1>3
  <2> QED BY <1>2, <2>1 DEF AllSigned, Signed
<1>5. my_region'[c] = my_region[c]
  BY <1>1, <1>2, <1>3 DEF Hello, ChildRegion
<1>6. up'[c] = taken[c]
  <2>1. taken \in [Brokers -> Seq(UpMsg)]
    BY <1>1, <1>2, <1>3, TakenType
  <2>2. \/ up' = taken
        \/ \E region \in RegionType : up' = ToParent(taken, b, RegionUpdates(b, region))
    <3>1. Hello(d) => up' = taken
      BY <1>1 DEF Hello
    <3> QED BY <1>1, <3>1, RegionTravels
  <2> QED BY <1>2, <2>1, <2>2 DEF ToParent
<1>7. \/ children' = children
      \/ \E record : children' = [children EXCEPT ![b] = [@ EXCEPT ![d] = record]]
  BY <1>1, <1>4 DEF Hello, ChildRegion
<1>8. CASE c # d
  <2>1. up'[c] = up[c]
    BY <1>1, <1>3, <1>6, <1>8
  <2>2. Parent[c] \in Brokers
    BY BrokerAssumption DEF Leaf, has_parent
  <2>3. children'[Parent[c]][c] = children[Parent[c]][c]
    <3>1. CASE children' = children
      BY <3>1
    <3>2. CASE \E record : children' = [children EXCEPT ![b] = [@ EXCEPT ![d] = record]]
      <4>1. PICK record : children' = [children EXCEPT ![b] = [@ EXCEPT ![d] = record]]
        BY <3>2
      <4>2. CASE Parent[c] = b
        BY <1>2, <1>3, <1>8, <4>1, <4>2
      <4>3. CASE Parent[c] # b
        BY <1>3, <2>2, <4>1, <4>3
      <4> QED BY <4>2, <4>3
    <3> QED BY <1>7, <3>1, <3>2
  <2> QED BY <1>5, <2>1, <2>3, CoverQuiet DEF RegionKept
<1>9. CASE c = d
  <2>1. up'[c] = Tail(up[c])
    BY <1>1, <1>3, <1>6, <1>9
  <2>2. CASE Hello(d)
    <3>1. children'[b][d] = HelloChild(b, m)
      BY <1>1, <1>2, <1>3, <1>4, <2>2 DEF Hello
    <3>2. m.type = "HELLO"
      BY <1>2, <2>2
    <3>3. children'[b][d].region = RegionSaid(m)
      BY <3>1, <3>2 DEF HelloChild, RegionSaid
    <3> QED BY <1>1, <1>2, <1>5, <1>9, <2>1, <3>2, <3>3 DEF HearsRegion
  <2>3. CASE ~Hello(d)
    <3>1. m.type = "REGION_UPDATE" /\ ChildRegion(d)
      BY <1>2, <2>3
    <3>2. PICK record : record = [children[b][d] EXCEPT !.region = m.region]
      OBVIOUS
    <3>3. ASSUME children[b][d] # NoChild PROVE children'[b][d].region = RegionSaid(m)
      <4>1. children' = [children EXCEPT ![b] = [@ EXCEPT ![d] = record]]
        BY <1>1, <1>4, <3>1, <3>2, <3>3 DEF ChildRegion
      <4>2. children'[b][d] = record
        BY <1>2, <1>3, <4>1
      <4>3. children[b][d] \in ChildBroker
        BY <1>2, <1>3, <3>3
      <4>4. record.region = m.region
        BY <3>2, <4>3 DEF ChildBroker
      <4> QED BY <3>1, <4>2, <4>4 DEF RegionSaid
    <3> QED BY <1>1, <1>2, <1>5, <1>9, <2>1, <3>1, <3>3 DEF HearsRegion
  <2> QED BY <2>2, <2>3
<1> QED BY <1>8, <1>9

\* A publication changes quadrant distances in the records, and no region.
LEMMA CoverPublish ==
  ASSUME TypeOK, NEW c \in Brokers, has_parent(c), NEW b \in Brokers, NEW m \in PublishMsg,
         NEW from, NEW upIn \in [Brokers -> Seq(UpMsg)], NEW downIn,
         HandlePublish(b, m, from, upIn, downIn)
  PROVE  /\ RegionKept(c) /\ my_region' = my_region
         /\ upIn[c] = up[c] => SaysNothing(c)
         /\ c # b => up'[c] = upIn[c]
<1>1. PICK k \in Keys : k = PubKey(b, m, from)
  BY PubKeyType
<1>2. PICK fwd, told : /\ fwd = [type |-> "PUBLISH", key |-> k, pos |-> m.pos, bn |-> m.bn,
                                 id |-> m.id]
                       /\ told = Told(b, k, m, from)
  OBVIOUS
<1>3. fwd \in UpMsg /\ fwd.type = "PUBLISH"
  BY <1>2 DEF UpMsg, PublishMsg
<1>4. /\ up' = ToParent(upIn, b, <<fwd>>) \/ up' = upIn
      /\ children' = [children EXCEPT ![b] = ChildrenAfter(b, m, told)]
      /\ UNCHANGED my_region
  BY <1>1, <1>2 DEF HandlePublish
<1>5. RegionKept(c)
  <2>1. children \in [Brokers -> [Brokers -> ChildBroker \cup {NoChild}]] /\ Parent[c] \in Brokers
    BY BrokerAssumption DEF TypeOK, OverlayTypes, has_parent
  <2>2. CASE Parent[c] # b \/ c \notin told
    BY <1>4, <2>1, <2>2 DEF RegionKept, ChildrenAfter
  <2>3. CASE Parent[c] = b /\ c \in told
    <3>1. children[b][c] \in ChildBroker
      BY <1>2, <2>1, <2>3 DEF Told, Interested, Known
    <3>2. children'[b][c] = [children[b][c] EXCEPT
                               !.closest_quad[QuadOf(b, c, m)] = QuadDist(b, c, m)]
      BY <1>4, <2>1, <2>3 DEF ChildrenAfter
    <3>3. children'[b][c].region = children[b][c].region
      BY <3>1, <3>2 DEF ChildBroker
    <3> QED BY <2>3, <3>3 DEF RegionKept
  <2> QED BY <2>2, <2>3
<1>6. <<fwd>> \in Seq(UpMsg) /\ RegionMsgs(<<fwd>>) = {}
  BY <1>3 DEF RegionMsgs
<1>7. c # b => up'[c] = upIn[c]
  BY <1>4 DEF ToParent
<1>8. ASSUME upIn[c] = up[c] PROVE SaysNothing(c)
  <2>1. CASE up' = upIn
    BY <1>4, <1>5, <1>8, <2>1, CoverQuiet
  <2>2. CASE up' = ToParent(upIn, b, <<fwd>>)
    BY <1>4, <1>5, <1>6, <1>8, <2>2, CoverOther
  <2> QED BY <1>4, <2>1, <2>2
<1> QED BY <1>4, <1>5, <1>7, <1>8

LEMMA CoverPublications ==
  ASSUME TypeOK, NEW c \in Brokers, Leaf(c),
         \/ \E p \in Publications : ClientPublish(p)
         \/ \E d \in Brokers : ChildPublish(d) \/ ParentPublish(d)
  PROVE  SaysNothing(c) \/ HearsRegion(c)
<1>1. up \in [Brokers -> Seq(UpMsg)] /\ has_parent(c)
  BY DEF TypeOK, NetworkTypes, Leaf
<1>2. ASSUME NEW p \in Publications, ClientPublish(p) PROVE SaysNothing(c)
  <2>1. p.broker \in Brokers
    BY <1>2, Published
  <2>2. PICK m \in PublishMsg : HandlePublish(p.broker, m, NoBroker, up, down)
    BY <1>2, Published
  <2> QED BY <1>1, <2>1, <2>2, CoverPublish
<1>3. ASSUME NEW d \in Brokers, ParentPublish(d) PROVE SaysNothing(c)
  <2>1. PICK taken : taken = [down EXCEPT ![d] = Tail(@)]
    OBVIOUS
  <2>2. HandlePublish(d, Head(down[d]), Parent[d], up, taken) /\ Head(down[d]) \in PublishMsg
    BY <1>3, <2>1, Published DEF ParentPublish
  <2> QED BY <1>1, <2>2, CoverPublish
<1>4. ASSUME NEW d \in Brokers, ChildPublish(d) PROVE SaysNothing(c) \/ HearsRegion(c)
  <2>1. PICK taken : taken = [up EXCEPT ![d] = Tail(@)]
    OBVIOUS
  <2>2. /\ HandlePublish(Parent[d], Head(up[d]), d, taken, down)
        /\ Head(up[d]) \in PublishMsg /\ Parent[d] \in Brokers /\ Parent[d] # c
        /\ up[d] # << >> /\ Head(up[d]).type = "PUBLISH"
    BY <1>4, <2>1, Published DEF ChildPublish, Leaf
  <2>3. taken \in [Brokers -> Seq(UpMsg)]
    BY <1>1, <2>1, <2>2, TakenType
  <2>4. /\ RegionKept(c) /\ my_region' = my_region
        /\ taken[c] = up[c] => SaysNothing(c)
        /\ up'[c] = taken[c]
    BY <1>1, <2>2, <2>3, CoverPublish
  <2>5. CASE c = d
    <3>1. up'[c] = Tail(up[c])
      BY <1>1, <2>1, <2>4, <2>5
    <3> QED BY <2>2, <2>4, <2>5, <3>1 DEF HearsRegion
  <2>6. CASE c # d
    BY <1>1, <2>1, <2>4, <2>6
  <2> QED BY <2>5, <2>6
<1> QED BY <1>2, <1>3, <1>4

\* Steps that are about no region of a running leaf.
LEMMA CoverOthers ==
  ASSUME TypeOK, NEW c \in Brokers, has_parent(c), phase[c] = "running",
         \/ \E h \in Beats : Heartbeat(h)
         \/ \E b \in Brokers :
              \/ HelloAck(b) \/ Sweep(b) \/ EpollTimeout(b) \/ StatsRequest(b)
              \/ LoseDown(b) \/ (LoseUp(b) /\ b # c)
              \/ (Starts(b) /\ ~(b = Parent[c] /\ FailFast(b)))
              \/ (Crash(b) /\ b \notin {c, Parent[c]})
         \/ Tick \/ UNCHANGED vars
  PROVE  SaysNothing(c)
<1>1. CASE \E b \in Brokers : Crash(b) /\ b \notin {c, Parent[c]}
  <2>1. PICK b \in Brokers : Crash(b) /\ b \notin {c, Parent[c]}
    BY <1>1
  <2>2. /\ children' = [children EXCEPT ![b] = [x \in Brokers |-> NoChild]]
        /\ my_region' = [my_region EXCEPT ![b] = RegionOf(Home[b])]
        /\ up' = [x \in Brokers |-> IF Parent[x] = b THEN << >> ELSE up[x]]
    BY <2>1 DEF Crash, Vanish
  <2>3. children'[Parent[c]] = children[Parent[c]] /\ my_region'[c] = my_region[c] /\ up'[c] = up[c]
    BY <2>1, <2>2, BrokerAssumption DEF has_parent, TypeOK, OverlayTypes
  <2>4. RegionKept(c)
    BY <2>3 DEF RegionKept
  <2> QED BY <2>3, <2>4, CoverQuiet
<1>2. CASE \E b \in Brokers : Starts(b) /\ ~(b = Parent[c] /\ FailFast(b))
  <2>1. PICK b \in Brokers : Starts(b) /\ ~(b = Parent[c] /\ FailFast(b))
    BY <1>2
  <2>2. UNCHANGED <<children, my_region>>
    BY <2>1 DEF Starts, Bind, GenerateKey, WriteKeyFile, UnlinkFullKeyFile,
    WriteFullKeyFile, LoadKey, FailFast,
                tableVars, overlayVars
  <2>3. b # c
    BY <2>1 DEF Starts, Bind, GenerateKey, WriteKeyFile, UnlinkFullKeyFile,
    WriteFullKeyFile, LoadKey, FailFast
  <2>4. up'[c] = up[c]
    BY <2>1, <2>3
    DEF Starts, Bind, GenerateKey, WriteKeyFile, UnlinkFullKeyFile,
    WriteFullKeyFile, LoadKey, FailFast, Started,
        Vanish, ToParent, worldVars, TypeOK, NetworkTypes
  <2>5. RegionKept(c)
    BY <2>2 DEF RegionKept
  <2> QED BY <2>2, <2>4, <2>5, CoverQuiet
<1>3. CASE \/ \E h \in Beats : Heartbeat(h)
           \/ \E b \in Brokers :
                \/ HelloAck(b) \/ Sweep(b) \/ EpollTimeout(b) \/ StatsRequest(b)
                \/ LoseDown(b) \/ (LoseUp(b) /\ b # c)
           \/ Tick \/ UNCHANGED vars
  <2>1. UNCHANGED <<children, my_region>>
    <3>1. (\E h \in Beats : Heartbeat(h)) => UNCHANGED <<children, my_region>>
      BY DEF Heartbeat, overlayVars
    <3>2. (\E b \in Brokers : HelloAck(b) \/ Sweep(b) \/ EpollTimeout(b) \/ StatsRequest(b))
            => UNCHANGED <<children, my_region>>
      BY DEF HelloAck, Sweep, EpollTimeout, StatsRequest, overlayVars
    <3>3. (\E b \in Brokers : LoseDown(b) \/ LoseUp(b)) \/ Tick \/ UNCHANGED vars
            => UNCHANGED <<children, my_region>>
      BY DEF LoseDown, LoseUp, Tick, vars, tableVars, overlayVars
    <3> QED BY <1>3, <3>1, <3>2, <3>3
  <2>2. up'[c] = up[c]
    <3>1. (\E h \in Beats : Heartbeat(h)) => UNCHANGED up
      BY DEF Heartbeat
    <3>2. (\E b \in Brokers : HelloAck(b) \/ Sweep(b) \/ EpollTimeout(b) \/ StatsRequest(b))
            => UNCHANGED up
      BY DEF HelloAck, Sweep, EpollTimeout, StatsRequest, worldVars
    <3>3. (\E b \in Brokers : LoseDown(b)) \/ Tick \/ UNCHANGED vars => UNCHANGED up
      BY DEF LoseDown, Tick, vars, worldVars
    <3>4. \A b \in Brokers : LoseUp(b) /\ b # c => up'[c] = up[c]
      BY DEF LoseUp, TypeOK, NetworkTypes
    <3> QED BY <1>3, <3>1, <3>2, <3>3, <3>4
  <2>3. RegionKept(c)
    BY <2>1 DEF RegionKept
  <2> QED BY <2>1, <2>2, <2>3, CoverQuiet
<1> QED BY <1>1, <1>2, <1>3

\* While a leaf runs and its parent is up, every step is one of these or a loss
\* or an end.
LEMMA CoverSteps ==
  ASSUME TypeOK, AllSigned, [Next]_vars, NEW c \in Brokers, Leaf(c), phase[c] = "running",
         phase[Parent[c]] # "down"
  PROVE  \/ SaysNothing(c) \/ SaysRegion(c) \/ HearsRegion(c)
         \/ LoseUp(c) \/ Crash(c) \/ Crash(Parent[c]) \/ FailFast(Parent[c])
BY CoverSubscribe, CoverChildSubscribe, CoverRegions, CoverPublications, CoverOthers
DEF Next, FromClients, FromChild, FromParent, Leaf

\* A leaf that starts says where it stands.
LEMMA CoverStarts ==
  ASSUME TypeOK, InterestInv, [Next]_vars, NEW c \in Brokers, has_parent(c),
         phase[c] # "running", phase'[c] = "running", Kept(c)',
         my_region[c] = RegionOf(Home[c])
  PROVE  RecordComing(c, my_region[c])'
<1>1. /\ phase \in [Brokers -> Phases]
      /\ Parent[c] \in Brokers /\ Parent[c] # c /\ Parent[c] # NoBroker
      /\ up \in [Brokers -> Seq(UpMsg)]
  BY BrokerAssumption, NotItsParent DEF TypeOK, ProcessTypes, NetworkTypes, has_parent
<1>2. LoadKey(c)
  BY PhaseSteps DEF InterestInv, FirstKeyInv
<1>3. PICK hello : hello = [type |-> "HELLO", id |-> c, pos |-> Home[c]]
  OBVIOUS
<1>4. /\ up' = ToParent(up, c, << hello >>) /\ phase' = [phase EXCEPT ![c] = "running"]
      /\ UNCHANGED my_region
  BY <1>2, <1>3 DEF LoadKey, Started, overlayVars
<1>5. phase'[Parent[c]] # "down"
  <2>1. OrderInv'
    BY OrderKept DEF InterestInv
  <2> QED BY <2>1 DEF Kept, OrderInv, KeptByOrder, has_parent
<1>6. up'[c] = up[c] \o << hello >>
  BY <1>1, <1>4, <1>5 DEF ToParent, Bound
<1>7. hello \in UpMsg /\ hello.type = "HELLO" /\ RegionSaid(hello) = RegionOf(Home[c])
  BY <1>3, BrokerAssumption DEF UpMsg, HelloMsg, RegionSaid
<1>8. << hello >> \in Seq(UpMsg) /\ DOMAIN << hello >> = {1} /\ << hello >>[1] = hello
  BY <1>7
<1>9. LastSaid(<< hello >>, my_region'[c])
  <2>1. RegionMsgs(<< hello >>) = {1}
    BY <1>7, <1>8 DEF RegionMsgs
  <2> QED BY <1>4, <1>7, <1>8, <2>1 DEF LastSaid
<1>10. SaysRegion(c)
  BY <1>6, <1>8, <1>9 DEF SaysRegion
<1> QED BY <1>10, SaidRegion

\* Only its own clients move the region of a leaf, or add places to it.
LEMMA LeafMoves ==
  ASSUME TypeOK, [Next]_vars, NEW c \in Brokers, Leaf(c), ~Crash(c),
         ~ \E s \in Subscriptions : s.broker = c /\ ClientSubscribe(s)
  PROVE  my_region'[c] = my_region[c]
<1>1. my_region \in [Brokers -> RegionType]
  BY DEF TypeOK, OverlayTypes
<1>2. \A s \in Subscriptions : ClientSubscribe(s) => my_region'[c] = my_region[c]
  BY <1>1 DEF ClientSubscribe
<1>3. \A d \in Brokers : Hello(d) \/ ChildRegion(d) => my_region'[c] = my_region[c]
  BY <1>1 DEF Hello, ChildRegion, Leaf
<1>4. ASSUME NEW b \in Brokers, Crash(b) PROVE my_region'[c] = my_region[c]
  <2>1. my_region' = [my_region EXCEPT ![b] = RegionOf(Home[b])] /\ b # c
    BY <1>4 DEF Crash
  <2> QED BY <1>1, <2>1
<1>5. /\ \A p : ClientPublish(p) => UNCHANGED my_region
      /\ \A b : ChildPublish(b) \/ ParentPublish(b) => UNCHANGED my_region
  <2>1. \A b, m, from, upIn, downIn :
          HandlePublish(b, m, from, upIn, downIn) => UNCHANGED my_region
    BY DEF HandlePublish
  <2> QED BY <2>1 DEF ClientPublish, ChildPublish, ParentPublish
<1>6. (\E h : Heartbeat(h)) \/ (\E b : ChildSubscribe(b) \/ HelloAck(b)) => UNCHANGED my_region
  BY DEF Heartbeat, ChildSubscribe, HelloAck, overlayVars
<1>7. (\E b : Starts(b)) => UNCHANGED my_region
  BY DEF Starts, Bind, GenerateKey, WriteKeyFile, UnlinkFullKeyFile,
    WriteFullKeyFile, LoadKey, FailFast,
         tableVars, overlayVars
<1>8. (\E b : Sweep(b) \/ EpollTimeout(b) \/ StatsRequest(b) \/ LoseUp(b) \/ LoseDown(b))
        \/ Tick \/ UNCHANGED vars => UNCHANGED my_region
  BY DEF Sweep, EpollTimeout, StatsRequest, LoseUp, LoseDown, Tick, vars, tableVars, overlayVars
<1> QED
  BY <1>2, <1>3, <1>4, <1>5, <1>6, <1>7, <1>8 DEF Next, FromClients, FromChild, FromParent

\* The subscribers of c lie within its region.
Covers(c) ==
    \A k \in Keys : \A i \in DOMAIN subscribers[c][k] :
      Contains(my_region[c], subscribers[c][k][i].pos)

LEMMA NoNewPlaces ==
  ASSUME TypeOK, [Next]_vars, NEW c \in Brokers,
         ~ \E s \in Subscriptions : s.broker = c /\ ClientSubscribe(s)
  PROVE  \A k \in Keys : \A i \in DOMAIN subscribers'[c][k] :
           /\ i \in DOMAIN subscribers[c][k]
           /\ subscribers'[c][k][i].pos = subscribers[c][k][i].pos
<1>1. subscribers \in [Brokers -> [Keys -> Seq(GeoClient)]]
  BY DEF TypeOK, GroupTypes
<1>2. CASE \E s \in Subscriptions : ClientSubscribe(s)
  <2>1. PICK s \in Subscriptions : ClientSubscribe(s)
    BY <1>2
  <2>2. PICK b, k : b = s.broker /\ k = SubKey(b, s)
    OBVIOUS
  <2>3. PICK gc : subscribers' = [subscribers EXCEPT ![b][k] = Append(@, gc)] /\ b # c
    BY <2>1, <2>2 DEF ClientSubscribe
  <2>4. subscribers'[c] = subscribers[c]
    BY <1>1, <2>3
  <2> QED BY <2>4
<1>3. CASE \E b \in Brokers : Sweep(b) \/ Crash(b)
  <2>1. PICK b \in Brokers : Sweep(b) \/ Crash(b)
    BY <1>3
  <2>2. \/ UNCHANGED subscribers
        \/ subscribers' = Without(subscribers, b, Expired(b), << >>)
        \/ subscribers' = [subscribers EXCEPT ![b] = EmptyKeyed]
    BY <2>1 DEF Sweep, cleanupExpired, Crash
  <2>3. CASE subscribers' = Without(subscribers, b, Expired(b), << >>)
    <3>1. \A k \in Keys : subscribers'[c][k] = subscribers[c][k] \/ subscribers'[c][k] = << >>
      BY <1>1, <2>3 DEF Without
    <3> QED BY <3>1
  <2>4. CASE subscribers' = [subscribers EXCEPT ![b] = EmptyKeyed]
    <3>1. \A k \in Keys : subscribers'[c][k] = subscribers[c][k] \/ subscribers'[c][k] = << >>
      BY <1>1, <2>4 DEF EmptyKeyed
    <3> QED BY <3>1
  <2> QED BY <2>2, <2>3, <2>4
<1>4. (\E h \in Beats : Heartbeat(h)) \/ Tick \/ UNCHANGED softVars => UNCHANGED subscribers
  BY DEF Heartbeat, Tick, softVars, tableVars, groupVars
<1>5. (\E b \in Brokers : Starts(b)) => UNCHANGED subscribers
  BY DEF Starts, Bind, GenerateKey, WriteKeyFile, UnlinkFullKeyFile,
    WriteFullKeyFile, LoadKey, FailFast,
         tableVars, groupVars
<1>6. LeavesGroups => SamePlaces
  BY DEF LeavesGroups
<1> QED BY <1>2, <1>3, <1>4, <1>5, <1>6, SoftSteps DEF SamePlaces

\* A merged region contains what either part contained.
LEMMA MergedCovers ==
  ASSUME NEW r \in RegionType, NEW p \in Points
  PROVE  /\ Contains(Merge(r, RegionOf(p)), p)
         /\ \A q \in Points : Contains(r, q) => Contains(Merge(r, RegionOf(p)), q)
<1>1. /\ r.min_lat \in Int /\ r.max_lat \in Int /\ r.min_lon \in Int /\ r.max_lon \in Int
      /\ \A q \in Points : q.lat \in Int /\ q.lon \in Int
  BY DEF RegionType, Points, Latitudes, Longitudes
<1> QED BY <1>1 DEF Contains, Merge, RegionOf, Lower, Higher

LEMMA LeafCovers ==
  ASSUME TypeOK, [Next]_vars, NEW c \in Brokers, Leaf(c), Covers(c)
  PROVE  Covers(c)'
<1>1. /\ subscribers \in [Brokers -> [Keys -> Seq(GeoClient)]]
      /\ my_region \in [Brokers -> RegionType]
  BY DEF TypeOK, GroupTypes, OverlayTypes
<1>2. CASE \E s \in Subscriptions : s.broker = c /\ ClientSubscribe(s)
  <2>1. PICK s \in Subscriptions : s.broker = c /\ ClientSubscribe(s)
    BY <1>2
  <2>2. PICK k, region : k = SubKey(c, s) /\ region = Merge(my_region[c], RegionOf(s.pos))
    OBVIOUS
  <2>7. PICK bm : subscribers' = [subscribers EXCEPT ![c][k] = Append(@, NewClient(c, k, s, bm))]
    BY <2>1, <2>2 DEF ClientSubscribe
  <2>8. PICK new : new = NewClient(c, k, s, bm)
    OBVIOUS
  <2>3. s.pos \in Points /\ k \in Keys /\ new.pos = s.pos
    BY <2>1, <2>2, <2>8, BrokerAssumption, SubKeyType DEF SubscriptionType, NewClient
  <2>4. /\ subscribers' = [subscribers EXCEPT ![c][k] = Append(@, new)]
        /\ my_region'[c] = region
    BY <1>1, <2>1, <2>2, <2>7, <2>8 DEF ClientSubscribe
  <2>5. \A q \in Points : Contains(my_region[c], q) => Contains(region, q)
    BY <1>1, <2>2, <2>3, MergedCovers
  <2>6. ASSUME NEW l \in Keys, NEW i \in DOMAIN subscribers'[c][l]
        PROVE  Contains(region, subscribers'[c][l][i].pos)
    <3>1. CASE i \in DOMAIN subscribers[c][l] /\ subscribers'[c][l][i] = subscribers[c][l][i]
      <4>1. subscribers[c][l][i] \in GeoClient
        BY <1>1, <3>1
      <4>2. subscribers[c][l][i].pos \in Points
        BY <4>1 DEF GeoClient
      <4> QED BY <2>5, <3>1, <4>2 DEF Covers
    <3>2. CASE subscribers'[c][l][i] = new
      BY <1>1, <2>2, <2>3, <3>2, MergedCovers
    <3>3. \/ i \in DOMAIN subscribers[c][l] /\ subscribers'[c][l][i] = subscribers[c][l][i]
          \/ subscribers'[c][l][i] = new
      <4>1. CASE l # k
        BY <1>1, <2>3, <2>4, <2>6, <4>1
      <4>2. CASE l = k
        <5>1. /\ subscribers'[c][l] = Append(subscribers[c][l], new)
              /\ subscribers[c][l] \in Seq(GeoClient)
          BY <1>1, <2>3, <2>4, <4>2
        <5> HIDE DEF Covers
        <5> QED BY <2>6, <5>1
      <4> QED BY <4>1, <4>2
    <3> QED BY <3>1, <3>2, <3>3
  <2> QED BY <2>4, <2>6 DEF Covers
<1>3. CASE Crash(c)
  <2>1. \A k \in Keys : subscribers'[c][k] = << >>
    BY <1>1, <1>3 DEF Crash, EmptyKeyed
  <2> QED BY <2>1 DEF Covers
<1>4. CASE ~Crash(c) /\ ~ \E s \in Subscriptions : s.broker = c /\ ClientSubscribe(s)
  BY <1>4, LeafMoves, NoNewPlaces DEF Covers
<1> QED BY <1>2, <1>3, <1>4

\* A leaf's region covers its subscribers, and is what its parent has on record
\* or will.
CoverInv ==
    \A c \in Brokers : Leaf(c) =>
      /\ phase[c] # "running" => my_region[c] = RegionOf(Home[c])
      /\ Covers(c)
      /\ phase[c] = "running" /\ Kept(c) => RecordComing(c, my_region[c])

LEMMA NextCover ==
  ASSUME TypeOK, InterestInv, CoverInv, [Next]_vars
  PROVE  CoverInv'
<1> SUFFICES ASSUME NEW c \in Brokers, Leaf(c)
             PROVE  /\ phase'[c] # "running" => my_region'[c] = RegionOf(Home[c])
                    /\ Covers(c)'
                    /\ phase'[c] = "running" /\ Kept(c)' => RecordComing(c, my_region[c])'
  BY DEF CoverInv, Leaf, has_parent
<1>1. /\ phase[c] # "running" => my_region[c] = RegionOf(Home[c])
      /\ Covers(c) /\ has_parent(c)
      /\ phase[c] = "running" /\ Kept(c) => RecordComing(c, my_region[c])
  BY DEF CoverInv, Leaf
<1>2. ASSUME phase'[c] # "running" PROVE my_region'[c] = RegionOf(Home[c])
  <2>1. CASE Crash(c)
    BY <2>1 DEF Crash, TypeOK, OverlayTypes
  <2>2. CASE ~Crash(c)
    <3>1. phase[c] # "running"
      BY <1>2, <2>2, PhaseSteps
    <3>2. ~ \E s \in Subscriptions : s.broker = c /\ ClientSubscribe(s)
      BY <3>1 DEF ClientSubscribe, AtEpoll
    <3> QED BY <1>1, <2>2, <3>1, <3>2, LeafMoves
  <2> QED BY <2>1, <2>2
<1>3. ASSUME phase'[c] = "running", Kept(c)' PROVE RecordComing(c, my_region[c])'
  <2>1. CASE phase[c] # "running"
    BY <1>1, <1>3, <2>1, CoverStarts
  <2>2. CASE phase[c] = "running"
    <3>1. Kept(c) /\ ~LoseUp(c) /\ ~Crash(Parent[c]) /\ ~FailFast(Parent[c])
      BY <1>1, <1>3, <2>2, KeptBefore
    <3>2. ~Crash(c)
      BY <1>3 DEF Crash, Vanish, TypeOK, ProcessTypes
    <3>3. /\ AllSigned /\ RecordComing(c, my_region[c]) /\ Introduced(c)
          /\ phase[Parent[c]] # "down"
      BY <1>1, <2>2, <3>1 DEF InterestInv, Link, Kept, OrderInv
    <3>4. SaysNothing(c) \/ SaysRegion(c) \/ HearsRegion(c)
      BY <2>2, <3>1, <3>2, <3>3, CoverSteps
    <3> QED BY <3>3, <3>4, SaidNothing, SaidRegion, HeardRegion
  <2> QED BY <2>1, <2>2
<1> QED BY <1>1, <1>2, <1>3, LeafCovers

LEMMA CoverKnown ==
  ASSUME InterestInv, CoverInv, \A c \in Brokers : has_parent(c) => Kept(c)
  PROVE  LeafCoverageKnown
<1> SUFFICES ASSUME NEW c \in Brokers, NEW k \in Keys, Leaf(c), RegionSettled(c)
             PROVE  \A i \in DOMAIN subscribers[c][k] :
                      Contains(children[Parent[c]][c].region, subscribers[c][k][i].pos)
  BY DEF LeafCoverageKnown, Leaf
<1>1. RecordComing(c, my_region[c]) /\ Covers(c)
  BY DEF CoverInv, RegionSettled, Leaf
<1>2. RegionMsgs(up[c]) = {}
  BY DEF RegionSettled, InFlight, RegionMsgs
<1>3. children[Parent[c]][c].region = my_region[c]
  BY <1>1, <1>2 DEF RecordComing, LastSaid
<1> QED BY <1>1, <1>3 DEF Covers

\* Where parents start first and neither they die nor datagrams get lost, a
\* parent's record of a leaf with nothing about its region on the way covers
\* every subscriber the leaf has, whatever was killed and restarted below
\* (handleSubscribe, handleHello, handleRegionUpdate).
THEOREM LeafCoverage ==
  ASSUME MaxLosses = 0, \A c \in Brokers : has_parent(c) => KeptByOrder(c)
  PROVE  Spec => []LeafCoverageKnown
<1> DEFINE Lossless == spent.losses = 0
           Inv == InterestInv /\ CoverInv /\ Lossless
<1>1. Init => Inv
  <2> SUFFICES ASSUME Init PROVE CoverInv /\ Lossless
    BY InterestStarts
  <2>1. /\ phase = [b \in Brokers |-> "down"]
        /\ my_region = [b \in Brokers |-> RegionOf(Home[b])]
        /\ subscribers = [b \in Brokers |-> EmptyKeyed]
        /\ spent.losses = 0
    BY DEF Init
  <2> QED BY <2>1 DEF CoverInv, Covers, EmptyKeyed
<1>2. TypeOK /\ Inv /\ [Next]_vars => Inv'
  BY NextInterest, NextCover, LossSteps
<1>3. Inv => LeafCoverageKnown
  BY CoverKnown DEF Kept
<1> QED BY <1>1, <1>2, <1>3, TypeCorrect, PTL DEF Spec

=============================================================================
