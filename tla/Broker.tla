------------------------------- MODULE Broker -------------------------------
(***************************************************************************)
(* A tree of DNS++ brokers (src/broker/broker.{h,cpp}).  Every broker is   *)
(* one single-threaded process: an epoll loop that takes one datagram, runs*)
(* its handler to the end, and then checks whether the periodic cleanup is *)
(* due.  A broker talks to its parent over UDP; each direction of a        *)
(* parent-child link is a FIFO channel, from which datagrams may be lost.  *)
(* Clients are the environment: they subscribe, publish and send           *)
(* heartbeats to the broker they are attached to.                          *)
(***************************************************************************)
EXTENDS Geo, BrakeWindow, FiniteSets

CONSTANTS
    Brokers,              \* the broker processes
    Parent,               \* [Brokers -> Brokers \cup {NoBroker}], a tree
    NoBroker,             \* the root's parent; also "no broker is sweeping"
    Home,                 \* [Brokers -> Points]: config_.lat, config_.lon
    Services,             \* service names
    Clients,              \* client addresses
    BrakeScope,           \* config_.brake_scope: "upward", "local" or "both"
    RequireHe,            \* config_.require_he of the non-root brokers
    TTL_SECONDS,
    CLEANUP_INTERVAL_SEC,
    EPOLL_TIMEOUT_SEC,
    MAX_PUB_CACHE,
    NoBlind,              \* a message or table entry without a blinded value
    NoChild               \* a broker that never said HELLO

\* What the environment may do, and how often: bounds of the model.
CONSTANTS
    Subscriptions,        \* the SUBSCRIBE datagrams clients may send
    Publications,         \* the PUBLISH datagrams publishers may send
    Beats,                \* the HEARTBEAT datagrams clients may send
    Polled,               \* the brokers whose statistics are asked for
    Killable,             \* the brokers that may be killed
    ParentFirst,          \* deployments that start a parent before its children
    MaxSubs, MaxPubs, MaxBeats, MaxTime, MaxCrashes, MaxLosses

\* The key of every routing table: a service name to which hashServiceName has
\* been applied h times.  MaxHash bounds h; correct brokers never pass one.
MaxHash == 2
Keys == [svc : Services, h : 0 .. MaxHash]
Name(s) == [svc |-> s, h |-> 0]
hashServiceName(k) == [k EXCEPT !.h = IF @ < MaxHash THEN @ + 1 ELSE @]

\* A blinded value: under which HE key, and of which service name.
Blinded == [key : Nat \ {0}, svc : Services]
NoKey == 0
NoTime == -1

SubscriptionType ==
    [broker : Brokers, client : Clients, svc : Services, pos : Points,
     enc : BOOLEAN, query : BOOLEAN]
PublicationType ==
    [broker : Brokers, svc : Services, pos : Points, enc : BOOLEAN]
BeatType == [broker : Brokers, svc : Services]

ASSUME BrokerAssumption ==
    /\ IsFiniteSet(Services)
    /\ IsFiniteSet(Brokers) /\ NoBroker \notin Brokers
    /\ Parent \in [Brokers -> Brokers \cup {NoBroker}]
    /\ Home \in [Brokers -> Points]
    /\ BrakeScope \in {"upward", "local", "both"}
    /\ RequireHe \in BOOLEAN /\ ParentFirst \in BOOLEAN
    /\ TTL_SECONDS \in Nat /\ CLEANUP_INTERVAL_SEC \in Nat
    /\ EPOLL_TIMEOUT_SEC \in Nat \ {0} /\ MAX_PUB_CACHE \in Nat \ {0}
    /\ NoBlind \notin Blinded
    /\ Subscriptions \subseteq SubscriptionType
    /\ Publications \subseteq PublicationType
    /\ Beats \subseteq BeatType
    /\ Polled \subseteq Brokers /\ Killable \subseteq Brokers

\* Parents lie above their children, and no broker above itself.
ASSUME TreeAssumption ==
    \E depth \in [Brokers -> 0 .. Cardinality(Brokers)] :
      \A b \in Brokers : Parent[b] # NoBroker => depth[Parent[b]] < depth[b]

VARIABLES
    \* ---- the broker process
    phase,             \* one of Phases
    sweeping,          \* the broker between its handler and its cleanup check
    last_cleanup,
    \* ---- routing tables of the broker
    my_region,
    children,
    subscribers,
    pub_cache,
    last_active,
    brake_count_up,
    brake_count_local,
    child_active,
    ot_parent,
    he_key,            \* which key he_n_ and he_mu_ belong to; NoKey: disabled
    stat,
    \* ---- the world outside the process
    now,               \* time(nullptr)
    idle,              \* seconds since the broker's loop last went round
    key_file,          \* content of /tmp/dnspp_heps.key
    full_key_file,     \* content of /tmp/dnspp_heps_full.key
    client_keys,       \* what a client may have found in full_key_file so far
    keys_made,         \* how many key pairs root brokers have generated
    up, down,          \* channels child -> parent and parent -> child, by child
    spent,             \* how much of each bound below has been used
    \* ---- history, read by properties only
    ledger,            \* every subscription, with what its client was sent
    offers,            \* the living parent's forwarding decisions, by child
    passed,            \* when the brake let a publication pass
    touched            \* when a client last mentioned a service to a broker

loopVars == <<phase, sweeping, last_cleanup>>
groupVars == <<subscribers, pub_cache, last_active>>
brakeVars == <<brake_count_up, brake_count_local>>
overlayVars == <<my_region, children, child_active, ot_parent>>
tableVars == <<groupVars, brakeVars, overlayVars, he_key, stat>>
fileVars == <<key_file, full_key_file, client_keys, keys_made>>
worldVars == <<now, idle, fileVars, up, down, spent>>
historyVars == <<ledger, offers, passed, touched>>
vars == <<loopVars, tableVars, worldVars, historyVars>>

-----------------------------------------------------------------------------
\* Types of the table entries and of the datagrams between brokers.

\* GeoClient; sid is the subscription's number in the ledger (history).
GeoClient == [addr : Clients, pos : Points, cached_closest_dist : Nat,
              bm : Blinded \cup {NoBlind}, sid : Nat]
CachedPub == [pos : Points, id : Nat, bn : Blinded \cup {NoBlind}]
ChildBroker == [pos : Points, region : RegionType,
                closest_quad : [Quadrants -> Nat]]
\* An absent record is not a record.
ASSUME NoChildAssumption == NoChild \notin ChildBroker

Windows == [Keys -> [Quadrants -> Seq(Nat)]]
Counters ==
    {"forward_up", "forward_down", "delivered_local", "braked_up", "braked_local",
     "match_calls", "match_hits", "pub_received", "sub_received", "sub_groups",
     "he_mode"}
Stats == [Counters -> Nat]

HelloMsg == [type : {"HELLO"}, id : Brokers, pos : Points]
HelloAckMsg == [type : {"HELLO_ACK"}, id : Brokers]
SubscribeMsg == [type : {"SUBSCRIBE"}, key : Keys, pos : Points]
RegionMsg == [type : {"REGION_UPDATE"}, id : Brokers, region : RegionType]
PublishMsg == [type : {"PUBLISH"}, key : Keys, pos : Points,
               bn : Blinded \cup {NoBlind}, id : Nat]
UpMsg == HelloMsg \cup SubscribeMsg \cup RegionMsg \cup PublishMsg
DownMsg == HelloAckMsg \cup PublishMsg

\* What the history remembers of a subscription, a delivery and an offer.
Delivery == [id : Nat, dist : Nat, by : {"query", "push"}]
LedgerEntry == [client : Clients, broker : Brokers, key : Keys,
                at : Nat, got : Seq(Delivery)]
Offer == [key : Keys, quad : Quadrants, dist : Nat, sent : BOOLEAN]

\* What clients, crashes and the network have used of their bounds.
Budgets == [pubs : Nat, beats : Nat, crashes : Nat, losses : Nat]

\* A process: not there; with its socket bound; a root that writes the brokers'
\* key file, has written it, writes the clients' key file; in its event loop.
Phases == {"down", "bound", "writing", "published", "sharing", "running"}

\* What LoopBody leaves alone or sets by itself.
ProcessTypes ==
    /\ phase \in [Brokers -> Phases]
    /\ sweeping \in Brokers \cup {NoBroker}
    /\ last_cleanup \in [Brokers -> Nat]
    /\ he_key \in [Brokers -> Nat]
    /\ now \in Nat
    /\ idle \in [Brokers -> Nat]
    /\ key_file \in Nat /\ full_key_file \in Nat /\ keys_made \in Nat
    /\ client_keys \in SUBSET Nat
GroupTypes ==
    /\ subscribers \in [Brokers -> [Keys -> Seq(GeoClient)]]
    /\ pub_cache \in [Brokers -> [Keys -> Seq(CachedPub)]]
    /\ last_active \in [Brokers -> [Keys -> Nat \cup {NoTime}]]
BrakeTypes ==
    /\ brake_count_up \in [Brokers -> Windows]
    /\ brake_count_local \in [Brokers -> Windows]
OverlayTypes ==
    /\ my_region \in [Brokers -> RegionType]
    /\ children \in [Brokers -> [Brokers -> ChildBroker \cup {NoChild}]]
    /\ child_active \in [Brokers -> [Keys -> SUBSET Brokers]]
    /\ ot_parent \in [Brokers -> SUBSET Keys]
NetworkTypes ==
    /\ up \in [Brokers -> Seq(UpMsg)]
    /\ down \in [Brokers -> Seq(DownMsg)]
    /\ spent \in Budgets
HistoryTypes ==
    /\ ledger \in Seq(LedgerEntry)
    /\ offers \in [Brokers -> Seq(Offer)]
    /\ passed \in [Brokers -> [{"up", "local"} -> Windows]]
    /\ touched \in [Brokers -> [Services -> Nat \cup {NoTime}]]

TypeOK ==
    /\ ProcessTypes /\ GroupTypes /\ BrakeTypes /\ OverlayTypes
    /\ stat \in [Brokers -> Stats] /\ NetworkTypes /\ HistoryTypes

-----------------------------------------------------------------------------
\* Initial states: no broker has been started and no key file exists.

EmptyKeyed == [k \in Keys |-> << >>]
EmptyWindows == [k \in Keys |-> [q \in Quadrants |-> << >>]]
ZeroStats == [x \in Counters |-> 0]

Init ==
    /\ phase = [b \in Brokers |-> "down"]
    /\ sweeping = NoBroker
    /\ last_cleanup = [b \in Brokers |-> 0]
    /\ my_region = [b \in Brokers |-> RegionOf(Home[b])]
    /\ children = [b \in Brokers |-> [c \in Brokers |-> NoChild]]
    /\ subscribers = [b \in Brokers |-> EmptyKeyed]
    /\ pub_cache = [b \in Brokers |-> EmptyKeyed]
    /\ last_active = [b \in Brokers |-> [k \in Keys |-> NoTime]]
    /\ brake_count_up = [b \in Brokers |-> EmptyWindows]
    /\ brake_count_local = [b \in Brokers |-> EmptyWindows]
    /\ child_active = [b \in Brokers |-> [k \in Keys |-> {}]]
    /\ ot_parent = [b \in Brokers |-> {}]
    /\ he_key = [b \in Brokers |-> NoKey]
    /\ stat = [b \in Brokers |-> ZeroStats]
    /\ now = 0
    /\ idle = [b \in Brokers |-> 0]
    /\ key_file = NoKey /\ full_key_file = NoKey /\ keys_made = 0
    /\ client_keys = {NoKey}
    /\ up = [b \in Brokers |-> << >>]
    /\ down = [b \in Brokers |-> << >>]
    /\ spent = [pubs |-> 0, beats |-> 0, crashes |-> 0, losses |-> 0]
    /\ ledger = << >>
    /\ offers = [b \in Brokers |-> << >>]
    /\ passed = [b \in Brokers |-> [d \in {"up", "local"} |-> EmptyWindows]]
    /\ touched = [b \in Brokers |-> [s \in Services |-> NoTime]]

-----------------------------------------------------------------------------
\* Helpers.

\* The broker is in epoll_wait, and no other broker is inside its loop body.
AtEpoll(b) == phase[b] = "running" /\ sweeping = NoBroker

\* One iteration: a handler runs, the cleanup check of the same iteration is
\* next.  No handler touches the keys, the clock or the process.
LoopBody(b) ==
    /\ sweeping' = b
    /\ idle' = [idle EXCEPT ![b] = 0]
    /\ UNCHANGED <<phase, last_cleanup, he_key, now, fileVars>>

has_parent(b) == Parent[b] # NoBroker
Bound(b) == b # NoBroker /\ phase[b] # "down"

\* Mutant: a send on a non-empty queue fails and is not retried.
ToParentIfIdle(channels, b, msgs) ==
    IF has_parent(b) /\ Bound(Parent[b]) /\ channels[b] = << >>
    THEN [channels EXCEPT ![b] = @ \o msgs] ELSE channels

\* The upward channels after b's sendto calls with the datagrams msgs: a
\* datagram to a port nobody has bound is gone.
ToParent(channels, b, msgs) ==
    IF has_parent(b) /\ Bound(Parent[b])
    THEN [channels EXCEPT ![b] = @ \o msgs] ELSE channels

he_enabled(b) == he_key[b] # NoKey

\* What a client may send for the service s: plaintext, or a value blinded with
\* a key it loaded when it started, however long ago.  A client that finds no
\* key exits before it sends anything.
Blind(enc, s) == IF enc THEN [key : client_keys \ {NoKey}, svc : {s}]
                 ELSE {NoBlind}

RegionUpdate(b, region) ==
    [type |-> "REGION_UPDATE", id |-> b, region |-> region]

\* Mutant: only the latitudes are compared.
RegionUpdatesByLatitude(b, region) ==
    IF region.min_lat = my_region[b].min_lat /\ region.max_lat = my_region[b].max_lat
    THEN << >> ELSE << RegionUpdate(b, region) >>

\* REGION_UPDATE is sent only when the region changed.
RegionUpdates(b, region) ==
    IF region = my_region[b] THEN << >> ELSE << RegionUpdate(b, region) >>

\* Mutant: once per broker instead of once per key.
RelayOnce(b, k) ==
    IF ot_parent[b] # {} THEN << >>
    ELSE << [type |-> "SUBSCRIBE", key |-> k, pos |-> Home[b]] >>

\* SUBSCRIBE is relayed upward once per key, in the broker's own name.
Relay(b, k) ==
    IF k \in ot_parent[b] THEN << >>
    ELSE << [type |-> "SUBSCRIBE", key |-> k, pos |-> Home[b]] >>

\* ot_parent_ after the relay: only a broker with a parent keeps it.
Relayed(b, k) ==
    IF has_parent(b) THEN [ot_parent EXCEPT ![b] = @ \cup {k}] ELSE ot_parent

-----------------------------------------------------------------------------
\* Starting and stopping a process: the constructor, initCrypto and the first
\* lines of start().

\* socket() and bind(): from here on datagrams are queued for the broker, but
\* the event loop does not run before initCrypto has returned.
Bind(b) ==
    /\ phase[b] = "down"
    /\ ParentFirst /\ has_parent(b) => phase[Parent[b]] = "running"
    /\ phase' = [phase EXCEPT ![b] = "bound"]
    /\ UNCHANGED <<sweeping, last_cleanup, tableVars, worldVars, historyVars>>

\* start(): HELLO to the parent, once, and the loop begins.
Started(b) ==
    /\ phase' = [phase EXCEPT ![b] = "running"]
    /\ last_cleanup' = [last_cleanup EXCEPT ![b] = now]
    /\ idle' = [idle EXCEPT ![b] = 0]
    /\ up' = ToParent(up, b,
                      << [type |-> "HELLO", id |-> b, pos |-> Home[b]] >>)

\* Mutant: the clients' file is written first, the brokers' old one left until
\* the new one is complete.
GenerateKeyForClients(b) ==
    /\ phase[b] = "bound" /\ ~has_parent(b)
    /\ keys_made' = keys_made + 1
    /\ he_key' = [he_key EXCEPT ![b] = keys_made + 1]
    /\ full_key_file' = keys_made + 1
    /\ client_keys' = client_keys \cup {keys_made + 1}
    /\ phase' = [phase EXCEPT ![b] = "writing"]
    /\ UNCHANGED <<sweeping, last_cleanup, groupVars, brakeVars, overlayVars, stat,
                   now, idle, key_file, up, down, spent, historyVars>>

\* A root generates its key pair and unlinks the brokers' old key file: until
\* fclose flushes the new one, a reader finds it missing or malformed.
GenerateKey(b) ==
    /\ phase[b] = "bound" /\ ~has_parent(b)
    /\ keys_made' = keys_made + 1
    /\ he_key' = [he_key EXCEPT ![b] = keys_made + 1]
    /\ key_file' = NoKey
    /\ phase' = [phase EXCEPT ![b] = "writing"]
    /\ UNCHANGED <<sweeping, last_cleanup, groupVars, brakeVars, overlayVars, stat,
                   now, idle, full_key_file, client_keys, up, down, spent,
                   historyVars>>

\* The brokers' key file is complete; the clients still find the old one.
WriteKeyFile(b) ==
    /\ phase[b] = "writing"
    /\ key_file' = he_key[b]
    /\ phase' = [phase EXCEPT ![b] = "published"]
    /\ UNCHANGED <<sweeping, last_cleanup, tableVars, now, idle, full_key_file,
                   client_keys, keys_made, up, down, spent, historyVars>>

\* openKeyFile600 unlinks the clients' old key file.
UnlinkFullKeyFile(b) ==
    /\ phase[b] = "published"
    /\ full_key_file' = NoKey
    /\ phase' = [phase EXCEPT ![b] = "sharing"]
    /\ UNCHANGED <<sweeping, last_cleanup, tableVars, now, idle, key_file,
                   client_keys, keys_made, up, down, spent, historyVars>>

\* The clients' key file is complete, clients that start from now on load it,
\* and the root enters its loop.
WriteFullKeyFile(b) ==
    /\ phase[b] = "sharing"
    /\ full_key_file' = he_key[b]
    /\ client_keys' = client_keys \cup {he_key[b]}
    /\ Started(b)
    /\ UNCHANGED <<sweeping, tableVars, now, key_file, keys_made, down, spent,
                   historyVars>>

\* Mutant: require_he is not looked at.
KeyAlwaysUsable == TRUE

\* The key file suffices: it holds a key, or plaintext will do.
KeyUsable == key_file # NoKey \/ ~RequireHe

\* A non-root broker loads the key file, or runs in plaintext.
LoadKey(b) ==
    /\ phase[b] = "bound" /\ has_parent(b)
    /\ KeyUsable
    /\ he_key' = [he_key EXCEPT ![b] = key_file]
    /\ Started(b)
    /\ UNCHANGED <<sweeping, groupVars, brakeVars, overlayVars, stat, now,
                   fileVars, down, spent, historyVars>>

\* The process is gone, with its memory and its socket's receive queue.
Vanish(b) ==
    /\ phase' = [phase EXCEPT ![b] = "down"]
    /\ up' = [c \in Brokers |-> IF Parent[c] = b THEN << >> ELSE up[c]]
    /\ down' = [down EXCEPT ![b] = << >>]

\* require_he and no usable key file: the process exits before its loop.
FailFast(b) ==
    /\ phase[b] = "bound" /\ has_parent(b)
    /\ ~KeyUsable
    /\ Vanish(b)
    /\ UNCHANGED <<sweeping, last_cleanup, tableVars, now, idle, fileVars,
                   spent, historyVars>>

\* A broker is killed, while it starts or in its loop; MaxCrashes bounds how
\* often.
Crash(b) ==
    /\ b \in Killable /\ phase[b] # "down" /\ sweeping = NoBroker
    /\ spent.crashes < MaxCrashes
    /\ spent' = [spent EXCEPT !.crashes = @ + 1]
    /\ Vanish(b)
    /\ my_region' = [my_region EXCEPT ![b] = RegionOf(Home[b])]
    /\ children' = [children EXCEPT ![b] = [c \in Brokers |-> NoChild]]
    /\ subscribers' = [subscribers EXCEPT ![b] = EmptyKeyed]
    /\ pub_cache' = [pub_cache EXCEPT ![b] = EmptyKeyed]
    /\ last_active' = [last_active EXCEPT ![b] = [k \in Keys |-> NoTime]]
    /\ brake_count_up' = [brake_count_up EXCEPT ![b] = EmptyWindows]
    /\ brake_count_local' = [brake_count_local EXCEPT ![b] = EmptyWindows]
    /\ child_active' = [child_active EXCEPT ![b] = [k \in Keys |-> {}]]
    /\ ot_parent' = [ot_parent EXCEPT ![b] = {}]
    /\ he_key' = [he_key EXCEPT ![b] = NoKey]
    /\ stat' = [stat EXCEPT ![b] = ZeroStats]
    /\ idle' = [idle EXCEPT ![b] = 0]
    /\ offers' = [c \in Brokers |-> IF Parent[c] = b THEN << >> ELSE offers[c]]
    /\ UNCHANGED <<sweeping, last_cleanup, now, fileVars, ledger, passed, touched>>

-----------------------------------------------------------------------------
\* SUBSCRIBE.

\* The key a subscription is filed under at broker b.
SubKey(b, s) ==
    IF s.enc /\ he_enabled(b) THEN hashServiceName(Name(s.svc))
    ELSE Name(s.svc)

\* The cached publications of k nearest to p; the loop keeps the first of them.
Nearest(b, k, p) ==
    LET cache == pub_cache[b][k]
        dist(i) == GeoDistance(p, cache[i].pos)
    IN  {i \in DOMAIN cache : \A j \in DOMAIN cache :
            dist(i) < dist(j) \/ (dist(i) = dist(j) /\ i <= j)}

\* What a query is answered with: at most one delivery.
QueryReply(b, k, s) ==
    IF ~s.query THEN << >>
    ELSE IF Nearest(b, k, s.pos) = {} THEN << >>
    ELSE LET best == pub_cache[b][k][CHOOSE i \in Nearest(b, k, s.pos) : TRUE]
         IN  << [id |-> best.id, dist |-> GeoDistance(s.pos, best.pos),
                 by |-> "query"] >>

\* Mutant: s: the client starts at -1, or the query's answer is forgotten.
NewClientUnset(b, k, s, bm) ==
    [addr |-> s.client, pos |-> s.pos, cached_closest_dist |-> -1,
     bm |-> bm, sid |-> Len(ledger) + 1]
NewClientForgetful(b, k, s, bm) ==
    [addr |-> s.client, pos |-> s.pos, cached_closest_dist |-> DoubleMax,
     bm |-> bm, sid |-> Len(ledger) + 1]

NewClient(b, k, s, bm) ==
    [addr |-> s.client, pos |-> s.pos,
     cached_closest_dist |->
        IF QueryReply(b, k, s) = << >> THEN DoubleMax
        ELSE QueryReply(b, k, s)[1].dist,
     bm |-> bm, sid |-> Len(ledger) + 1]

\* A client subscribes at the broker it is attached to.
ClientSubscribe(s) ==
    LET b == s.broker
        k == SubKey(b, s)
        region == Merge(my_region[b], RegionOf(s.pos))
    IN  /\ AtEpoll(b)
        /\ Len(ledger) < MaxSubs
        /\ \E bm \in Blind(s.enc, s.svc) : subscribers' =
             [subscribers EXCEPT ![b][k] = Append(@, NewClient(b, k, s, bm))]
        /\ last_active' = [last_active EXCEPT ![b][k] = now]
        /\ my_region' = [my_region EXCEPT ![b] = region]
        /\ up' = ToParent(up, b, RegionUpdates(b, region) \o Relay(b, k))
        /\ ot_parent' = Relayed(b, k)
        /\ stat' = [stat EXCEPT ![b].sub_received = @ + 1]
        /\ ledger' = Append(ledger,
             [client |-> s.client, broker |-> b, key |-> k, at |-> now,
              got |-> QueryReply(b, k, s)])
        /\ touched' = [touched EXCEPT ![b][s.svc] = now]
        /\ LoopBody(b)
        /\ UNCHANGED <<children, child_active, pub_cache, brakeVars, down, spent,
                       offers, passed>>

\* Mutant: every sender is taken for a child.
AnyoneKnown(b, c) == TRUE

\* findChildByAddr: c said HELLO to b since b started.
Known(b, c) == children[b][c] # NoChild

\* A child relays its interest in a key (FROM_CHILD).
ChildSubscribe(c) ==
    LET b == Parent[c]
        k == Head(up[c]).key
        taken == [up EXCEPT ![c] = Tail(@)]
    IN  /\ Bound(b) /\ AtEpoll(b)
        /\ up[c] # << >> /\ Head(up[c]).type = "SUBSCRIBE"
        /\ stat' = [stat EXCEPT ![b].sub_received = @ + 1]
        /\ IF Known(b, c)
           THEN /\ child_active' = [child_active EXCEPT ![b][k] = @ \cup {c}]
                /\ up' = ToParent(taken, b, Relay(b, k))
                /\ ot_parent' = Relayed(b, k)
           ELSE /\ up' = taken
                /\ UNCHANGED <<child_active, ot_parent>>
        /\ LoopBody(b)
        /\ UNCHANGED <<my_region, children, groupVars, brakeVars, down, spent,
                       historyVars>>

-----------------------------------------------------------------------------
\* PUBLISH.  In the operators below m is the publication as it arrived at b, k
\* the key it is filed under, and from the broker it came from (NoBroker for a
\* publisher's own datagram).

\* Mutant: a relayed publication is hashed again.
PubKeyRehashed(b, m, from) ==
    IF m.bn # NoBlind /\ he_enabled(b) THEN hashServiceName(m.key) ELSE m.key

\* Only a publisher's own publication has its plaintext name hashed.
PubKey(b, m, from) ==
    IF m.bn # NoBlind /\ he_enabled(b) /\ from = NoBroker
    THEN hashServiceName(m.key) ELSE m.key

\* The cache keeps the newest MAX_PUB_CACHE publications of a key.
Cached(cache, entry) ==
    LET longer == Append(cache, entry)
    IN  IF Len(longer) > MAX_PUB_CACHE THEN Tail(longer) ELSE longer

BrakesUpward == BrakeScope \in {"upward", "both"}
BrakesLocal == BrakeScope \in {"local", "both"}

\* Mutant: s: only publishers' own publications climb; all of them do.
ClimbsOnce(b, from) == has_parent(b) /\ from = NoBroker
ClimbsAlways(b, from) == has_parent(b)

\* A publication climbs unless it came down; the upward brake may stop it.
Climbs(b, from) == has_parent(b) /\ from # Parent[b]
PassesUp(b, k, m, from) ==
    /\ Climbs(b, from)
    /\ BrakesUpward => Allows(brake_count_up[b][k][Hemisphere(m.pos)], now)

\* Mutant: the child it came from is not skipped.
InterestedEcho(b, k, from) == {c \in child_active[b][k] : Known(b, c)}

\* The children a publication is considered for: interested, known by HELLO,
\* and not the one it came from.
Interested(b, k, from) ==
    {c \in child_active[b][k] : c # from /\ Known(b, c)}

\* The quadrant of child c's region, and the distance to its centre, that
\* decide whether c is told.
QuadOf(b, c, m) == QuadrantOf(children[b][c].region, m.pos)
QuadDist(b, c, m) ==
    GeoDistance(m.pos, QuadrantCenter(children[b][c].region, QuadOf(b, c, m)))

\* Nearer to the centre of its quadrant than anything sent there before.
Told(b, k, m, from) ==
    {c \in Interested(b, k, from) :
        QuadDist(b, c, m) < children[b][c].closest_quad[QuadOf(b, c, m)]}

\* Local delivery is attempted when the key has subscribers and the local brake
\* lets the publication pass; the brake is not consulted without subscribers.
PassesLocal(b, k, m) ==
    /\ subscribers[b][k] # << >>
    /\ BrakesLocal => Allows(brake_count_local[b][k][Hemisphere(m.pos)], now)

\* executeMatch runs once, against the first subscriber of the group.
Matching(b, m) == he_enabled(b) /\ m.bn # NoBlind
Matches(b, k, m) ==
    PassesLocal(b, k, m) /\ Matching(b, m)
      /\ subscribers[b][k][1].bm # NoBlind

\* Its outcome: both values blinded with the broker's own key compare exactly;
\* values blinded with another key decrypt to noise.
MatchOutcomes(b, bn, bm) ==
    IF bn.key = he_key[b] /\ bm.key = he_key[b] THEN {bn.svc = bm.svc}
    ELSE BOOLEAN

Outcomes(b, k, m) ==
    IF Matches(b, k, m) THEN MatchOutcomes(b, m.bn, subscribers[b][k][1].bm)
    ELSE {FALSE}

\* Mutant: the loop over the group ends after its first client.
ServedFirst(b, k, m, hit) ==
    IF PassesLocal(b, k, m) /\ (Matching(b, m) => hit)
    THEN {i \in {1} :
            GeoDistance(m.pos, subscribers[b][k][i].pos)
              < subscribers[b][k][i].cached_closest_dist}
    ELSE {}

\* Mutant: as near is near enough.
ServedAsNear(b, k, m, hit) ==
    IF PassesLocal(b, k, m) /\ (Matching(b, m) => hit)
    THEN {i \in DOMAIN subscribers[b][k] :
            GeoDistance(m.pos, subscribers[b][k][i].pos)
              <= subscribers[b][k][i].cached_closest_dist}
    ELSE {}

\* The subscribers delivered to: those the publication is strictly nearer to
\* than everything they were sent before.
Served(b, k, m, hit) ==
    IF PassesLocal(b, k, m) /\ (Matching(b, m) => hit)
    THEN {i \in DOMAIN subscribers[b][k] :
            GeoDistance(m.pos, subscribers[b][k][i].pos)
              < subscribers[b][k][i].cached_closest_dist}
    ELSE {}

\* Mutant: what was delivered is not remembered.
GroupUnchanged(group, m, served) == group

\* The group and the ledger after delivery to the subscribers in served.
GroupAfter(group, m, served) ==
    [i \in DOMAIN group |->
        IF i \in served
        THEN [group[i] EXCEPT
                !.cached_closest_dist = GeoDistance(m.pos, group[i].pos)]
        ELSE group[i]]

LedgerAfter(group, m, served) ==
    [n \in DOMAIN ledger |->
        IF \E i \in served : group[i].sid = n
        THEN LET i == CHOOSE j \in served : group[j].sid = n
             IN  [ledger[n] EXCEPT !.got = Append(@,
                    [id |-> m.id, dist |-> GeoDistance(m.pos, group[i].pos),
                     by |-> "push"])]
        ELSE ledger[n]]

\* Mutant: closest_quad is not updated.
ChildrenUnchanged(b, m, told) == children[b]

\* The children's records after the publication went to those in told.
ChildrenAfter(b, m, told) ==
    [c \in Brokers |->
        IF c \in told
        THEN [children[b][c] EXCEPT
                !.closest_quad[QuadOf(b, c, m)] = QuadDist(b, c, m)]
        ELSE children[b][c]]

OffersAfter(b, k, m, considered, told) ==
    [c \in Brokers |->
        IF c \in considered
        THEN Append(offers[c], [key |-> k, quad |-> QuadOf(b, c, m),
                                dist |-> QuadDist(b, c, m), sent |-> c \in told])
        ELSE offers[c]]

\* One brake window after the publication's consultation of it.
Consult(windows, consulted, k, q) ==
    IF consulted THEN [windows EXCEPT ![k][q] = Consulted(@, now)] ELSE windows

\* The history of passes, per direction.
PassedAfter(b, k, q, upward, local) ==
    [passed EXCEPT ![b] =
       [d \in {"up", "local"} |->
          IF (d = "up" /\ upward) \/ (d = "local" /\ local)
          THEN [passed[b][d] EXCEPT ![k][q] = Append(@, now)]
          ELSE passed[b][d]]]

Bit(cond) == IF cond THEN 1 ELSE 0

\* The counters after adding what the record added says.
CountUp(counters, added) ==
    [x \in Counters |->
        counters[x] + IF x \in DOMAIN added THEN added[x] ELSE 0]

\* Mutant: forward_down counts the children considered.
StatOfConsidered(b, k, m, from, hit) ==
    CountUp(stat[b], [pub_received |-> 1, forward_up |-> Bit(PassesUp(b, k, m, from)),
                      forward_down |-> Cardinality(Interested(b, k, from))])

StatAfter(b, k, m, from, hit) ==
    CountUp(stat[b],
      [pub_received |-> 1,
       forward_up |-> Bit(PassesUp(b, k, m, from)),
       braked_up |-> Bit(Climbs(b, from) /\ ~PassesUp(b, k, m, from)),
       forward_down |-> Cardinality(Told(b, k, m, from)),
       braked_local |-> Bit(subscribers[b][k] # << >> /\ ~PassesLocal(b, k, m)),
       delivered_local |-> Cardinality(Served(b, k, m, hit)),
       match_calls |-> Bit(Matches(b, k, m)),
       match_hits |-> Bit(hit)])

\* handlePublish: cache, forward upward, forward downward, deliver.
\* upIn and downIn are the channels without the datagram being handled.
HandlePublish(b, m, from, upIn, downIn) ==
    LET k == PubKey(b, m, from)
        q == Hemisphere(m.pos)
        fwd == [type |-> "PUBLISH", key |-> k, pos |-> m.pos, bn |-> m.bn,
                id |-> m.id]
        upward == PassesUp(b, k, m, from)
        considered == Interested(b, k, from)
        told == Told(b, k, m, from)
        group == subscribers[b][k]
        local == PassesLocal(b, k, m)
    IN  \E hit \in Outcomes(b, k, m) :
          LET served == Served(b, k, m, hit) IN
          /\ pub_cache' = [pub_cache EXCEPT
               ![b][k] = Cached(@, [pos |-> m.pos, id |-> m.id, bn |-> m.bn])]
          /\ brake_count_up' = [brake_count_up EXCEPT ![b] =
               Consult(@, Climbs(b, from) /\ BrakesUpward, k, q)]
          /\ up' = IF upward THEN ToParent(upIn, b, <<fwd>>) ELSE upIn
          /\ children' = [children EXCEPT ![b] = ChildrenAfter(b, m, told)]
          /\ down' = [c \in Brokers |->
               IF c \in told /\ Bound(c) THEN Append(downIn[c], fwd)
               ELSE downIn[c]]
          /\ brake_count_local' = [brake_count_local EXCEPT ![b] =
               Consult(@, group # << >> /\ BrakesLocal, k, q)]
          /\ subscribers' =
               [subscribers EXCEPT ![b][k] = GroupAfter(group, m, served)]
          /\ stat' = [stat EXCEPT ![b] = StatAfter(b, k, m, from, hit)]
          /\ ledger' = LedgerAfter(group, m, served)
          /\ offers' = OffersAfter(b, k, m, considered, told)
          /\ passed' = PassedAfter(b, k, q, upward, local)
          /\ LoopBody(b)
          /\ UNCHANGED <<my_region, child_active, ot_parent, last_active,
                         touched>>

\* A publisher sends a publication to its broker.
ClientPublish(p) ==
    /\ AtEpoll(p.broker)
    /\ spent.pubs < MaxPubs
    /\ spent' = [spent EXCEPT !.pubs = @ + 1]
    /\ \E bn \in Blind(p.enc, p.svc) :
         HandlePublish(p.broker,
           [type |-> "PUBLISH", key |-> Name(p.svc), pos |-> p.pos, bn |-> bn,
            id |-> spent.pubs + 1],
           NoBroker, up, down)

\* A child's publication climbs to its parent (FROM_CHILD).
ChildPublish(c) ==
    /\ Bound(Parent[c]) /\ AtEpoll(Parent[c])
    /\ up[c] # << >> /\ Head(up[c]).type = "PUBLISH"
    /\ HandlePublish(Parent[c], Head(up[c]), c,
                     [up EXCEPT ![c] = Tail(@)], down)
    /\ UNCHANGED spent

\* A parent's publication comes down to b (FROM_PARENT).
ParentPublish(b) ==
    /\ has_parent(b) /\ AtEpoll(b)
    /\ down[b] # << >> /\ Head(down[b]).type = "PUBLISH"
    /\ HandlePublish(b, Head(down[b]), Parent[b],
                     up, [down EXCEPT ![b] = Tail(@)])
    /\ UNCHANGED spent

-----------------------------------------------------------------------------
\* HEARTBEAT, HELLO, HELLO_ACK, REGION_UPDATE and STATS_REQUEST.

\* Mutant: the hashed key.
BeatHashedKey(h) == hashServiceName(Name(h.svc))

\* The key a heartbeat refreshes: always the plaintext name.
BeatKey(h) == Name(h.svc)

Heartbeat(h) ==
    /\ AtEpoll(h.broker)
    /\ spent.beats < MaxBeats
    /\ spent' = [spent EXCEPT !.beats = @ + 1]
    /\ last_active' = [last_active EXCEPT ![h.broker][BeatKey(h)] = now]
    /\ touched' = [touched EXCEPT ![h.broker][h.svc] = now]
    /\ LoopBody(h.broker)
    /\ UNCHANGED <<subscribers, pub_cache, brakeVars, overlayVars, stat, up, down,
                   ledger, offers, passed>>

\* updateMyRegion: the broker's own coordinates and its children's regions.
\* Folded pairwise in the code; the box of all of them here.
Boxes(b, kids) ==
    {RegionOf(Home[b])} \cup
    {kids[c].region : c \in {x \in Brokers : kids[x] # NoChild}}
MyRegion(b, kids) ==
    [min_lat |-> CHOOSE v \in {r.min_lat : r \in Boxes(b, kids)} :
                    \A r \in Boxes(b, kids) : v <= r.min_lat,
     max_lat |-> CHOOSE v \in {r.max_lat : r \in Boxes(b, kids)} :
                    \A r \in Boxes(b, kids) : v >= r.max_lat,
     min_lon |-> CHOOSE v \in {r.min_lon : r \in Boxes(b, kids)} :
                    \A r \in Boxes(b, kids) : v <= r.min_lon,
     max_lon |-> CHOOSE v \in {r.max_lon : r \in Boxes(b, kids)} :
                    \A r \in Boxes(b, kids) : v >= r.max_lon]

\* Mutant: the distances start at the least double instead of the largest.
HelloChildUnset(b, m) ==
    [pos |-> m.pos, region |-> RegionOf(m.pos),
     closest_quad |-> IF children[b][m.id] = NoChild THEN [q \in Quadrants |-> 0]
                      ELSE children[b][m.id].closest_quad]

\* The child's record after its HELLO: a new one, or the old one with its
\* region shrunk to a point and its quadrant distances kept.
HelloChild(b, m) ==
    [pos |-> m.pos, region |-> RegionOf(m.pos),
     closest_quad |-> IF children[b][m.id] = NoChild
                      THEN [q \in Quadrants |-> DoubleMax]
                      ELSE children[b][m.id].closest_quad]

\* handleHello: nothing is told to the parent, the child gets HELLO_ACK.
Hello(c) ==
    LET b == Parent[c]
        m == Head(up[c])
        kids == [children[b] EXCEPT ![m.id] = HelloChild(b, m)]
    IN  /\ Bound(b) /\ AtEpoll(b)
        /\ up[c] # << >> /\ m.type = "HELLO"
        /\ children' = [children EXCEPT ![b] = kids]
        /\ my_region' = [my_region EXCEPT ![b] = MyRegion(b, kids)]
        /\ up' = [up EXCEPT ![c] = Tail(@)]
        /\ down' = IF Bound(c)
                   THEN [down EXCEPT ![c] =
                           Append(@, [type |-> "HELLO_ACK", id |-> b])]
                   ELSE down
        /\ LoopBody(b)
        /\ UNCHANGED <<child_active, ot_parent, groupVars, brakeVars, stat, spent,
                       historyVars>>

\* HELLO_ACK is read and ignored.
HelloAck(b) ==
    /\ AtEpoll(b)
    /\ down[b] # << >> /\ Head(down[b]).type = "HELLO_ACK"
    /\ down' = [down EXCEPT ![b] = Tail(@)]
    /\ LoopBody(b)
    /\ UNCHANGED <<groupVars, brakeVars, overlayVars, stat, up, spent,
                   historyVars>>

\* handleRegionUpdate: a known child's region is replaced; a change of the
\* broker's own region travels on.
ChildRegion(c) ==
    LET b == Parent[c]
        m == Head(up[c])
        taken == [up EXCEPT ![c] = Tail(@)]
        kids == [children[b] EXCEPT ![m.id] = [@ EXCEPT !.region = m.region]]
        region == MyRegion(b, kids)
    IN  /\ Bound(b) /\ AtEpoll(b)
        /\ up[c] # << >> /\ m.type = "REGION_UPDATE"
        /\ IF children[b][m.id] # NoChild
           THEN /\ children' = [children EXCEPT ![b] = kids]
                /\ my_region' = [my_region EXCEPT ![b] = region]
                /\ up' = ToParent(taken, b, RegionUpdates(b, region))
           ELSE /\ up' = taken
                /\ UNCHANGED <<children, my_region>>
        /\ LoopBody(b)
        /\ UNCHANGED <<child_active, ot_parent, groupVars, brakeVars, stat, down,
                       spent, historyVars>>

\* handleStatsRequest: the two gauges are taken from the live tables.
Groups(b) == {k \in Keys : subscribers[b][k] # << >>}
StatsRequest(b) ==
    /\ b \in Polled /\ AtEpoll(b)
    /\ stat' = [stat EXCEPT ![b].sub_groups = Cardinality(Groups(b)),
                            ![b].he_mode = Bit(he_enabled(b))]
    /\ LoopBody(b)
    /\ UNCHANGED <<groupVars, brakeVars, overlayVars, up, down, spent,
                   historyVars>>

-----------------------------------------------------------------------------
\* The end of the loop body, the clock and the network.

\* epoll_wait returns with nothing to read.
EpollTimeout(b) ==
    /\ AtEpoll(b)
    /\ idle[b] >= EPOLL_TIMEOUT_SEC
    /\ LoopBody(b)
    /\ UNCHANGED <<groupVars, brakeVars, overlayVars, stat, up, down, spent,
                   historyVars>>

\* A group nobody mentioned for more than TTL_SECONDS; a group whose time is
\* missing has the default-inserted time of zero, long ago.
Stale(t) == t = NoTime \/ now - t > TTL_SECONDS
Expired(b) ==
    {k \in Keys : subscribers[b][k] # << >> /\ Stale(last_active[b][k])}

\* Broker b's entries of a table without those of the dead keys.
Without(table, b, dead, empty) ==
    [table EXCEPT ![b] =
        [k \in Keys |-> IF k \in dead THEN empty ELSE table[b][k]]]

\* cleanupExpired: everything filed under the expired keys is erased.
cleanupExpired(b) ==
    LET dead == Expired(b)
        NoWindows == [q \in Quadrants |-> << >>]
    IN  /\ last_active' = Without(last_active, b, dead, NoTime)
        /\ pub_cache' = Without(pub_cache, b, dead, << >>)
        /\ brake_count_up' = Without(brake_count_up, b, dead, NoWindows)
        /\ brake_count_local' = Without(brake_count_local, b, dead, NoWindows)
        /\ subscribers' = Without(subscribers, b, dead, << >>)

\* Mutant: the interval is measured the wrong way round.
CleanupNeverDue(b) == last_cleanup[b] - now > CLEANUP_INTERVAL_SEC

\* After every iteration: cleanup when more than CLEANUP_INTERVAL_SEC passed.
CleanupDue(b) == now - last_cleanup[b] > CLEANUP_INTERVAL_SEC
Sweep(b) ==
    /\ sweeping = b
    /\ sweeping' = NoBroker
    /\ IF CleanupDue(b)
       THEN /\ cleanupExpired(b)
            /\ last_cleanup' = [last_cleanup EXCEPT ![b] = now]
       ELSE UNCHANGED <<last_active, pub_cache, brake_count_up,
                        brake_count_local, subscribers, last_cleanup>>
    /\ UNCHANGED <<phase, overlayVars, he_key, stat, worldVars, historyVars>>

\* How many seconds may begin before a running broker's next step: epoll_wait
\* returns in time, and a handler with the cleanup check behind it takes less
\* than a second.
Patience(b) == IF sweeping = b THEN 1 ELSE EPOLL_TIMEOUT_SEC

\* One second passes; the loop of every running broker goes round in time.
Tick ==
    /\ now < MaxTime
    /\ \A b \in Brokers : phase[b] = "running" => idle[b] < Patience(b)
    /\ now' = now + 1
    /\ idle' = [b \in Brokers |->
                  IF phase[b] = "running" THEN idle[b] + 1 ELSE 0]
    /\ UNCHANGED <<loopVars, tableVars, fileVars, up, down, spent, historyVars>>

\* UDP loses a datagram; MaxLosses bounds how often.
LoseUp(c) ==
    /\ spent.losses < MaxLosses /\ up[c] # << >>
    /\ spent' = [spent EXCEPT !.losses = @ + 1]
    /\ up' = [up EXCEPT ![c] = Tail(@)]
    /\ UNCHANGED <<loopVars, tableVars, now, idle, fileVars, down, historyVars>>
LoseDown(c) ==
    /\ spent.losses < MaxLosses /\ down[c] # << >>
    /\ spent' = [spent EXCEPT !.losses = @ + 1]
    /\ down' = [down EXCEPT ![c] = Tail(@)]
    /\ UNCHANGED <<loopVars, tableVars, now, idle, fileVars, up, historyVars>>

-----------------------------------------------------------------------------
Starts(b) ==
    \/ Bind(b) \/ GenerateKey(b) \/ WriteKeyFile(b) \/ UnlinkFullKeyFile(b)
    \/ WriteFullKeyFile(b) \/ LoadKey(b) \/ FailFast(b)

FromChild(c) == Hello(c) \/ ChildSubscribe(c) \/ ChildRegion(c) \/ ChildPublish(c)

FromParent(b) == HelloAck(b) \/ ParentPublish(b)

FromClients ==
    \/ \E s \in Subscriptions : ClientSubscribe(s)
    \/ \E p \in Publications : ClientPublish(p)
    \/ \E h \in Beats : Heartbeat(h)

Next ==
    \/ FromClients
    \/ \E b \in Brokers :
         \/ Starts(b) \/ FromChild(b) \/ FromParent(b) \/ Sweep(b)
         \/ EpollTimeout(b) \/ StatsRequest(b)
         \/ Crash(b) \/ LoseUp(b) \/ LoseDown(b)
    \/ Tick

Spec == Init /\ [][Next]_vars

\* Every process gets the CPU: it starts, takes what waits in its socket from
\* every sender, and finishes its iterations.  Clients owe nothing.
Fairness == \A b \in Brokers :
    /\ WF_vars(Starts(b)) /\ WF_vars(Sweep(b))
    /\ WF_vars(FromChild(b)) /\ WF_vars(FromParent(b))
FairSpec == Spec /\ Fairness
=============================================================================
