-------------------------- MODULE BrokerProperties --------------------------
(***************************************************************************)
(* What the brokers of module Broker promise.  Properties of UDP as the    *)
(* code assumes it (no datagram lost, no broker killed, parents started    *)
(* first) are checked in runs whose bounds rule the faults out.            *)
(***************************************************************************)
EXTENDS Broker

SetsExt == INSTANCE FiniteSetsExt

-----------------------------------------------------------------------------
\* Delivery.

\* The promise to subscribers, and that the brokers keep it: every step of the
\* brokers that is seen in the ledger is one the promise allows.
Feed == INSTANCE NearestFeed WITH feed <- ledger, Infinity <- DoubleMax
FeedSpec == Feed!Spec

\* What a subscription was sent only ever gets nearer, over queries and pushes
\* alike: the client of a GeoClient is told of a publication only when it is
\* strictly nearer than all it was told of before (handleSubscribe's query
\* reply, handlePublish's local delivery).
StrictlyNearer ==
    \A n \in DOMAIN ledger : \A i, j \in DOMAIN ledger[n].got :
        i < j => ledger[n].got[j].dist < ledger[n].got[i].dist

\* cached_closest_dist of a live GeoClient is the distance of the last
\* publication its client was really sent: it never runs ahead of the sends.
CachedIsLastSent ==
    \A b \in Brokers : \A k \in Keys : \A i \in DOMAIN subscribers[b][k] :
        LET gc == subscribers[b][k][i]
        IN  gc.cached_closest_dist = Feed!LastDist(ledger[gc.sid].got)

\* A step caches a publication under key k at broker b; which one.
Filed(b, k) == pub_cache'[b][k] # pub_cache[b][k] /\ pub_cache'[b][k] # << >>
Newest(b, k) == pub_cache'[b][k][Len(pub_cache'[b][k])]

\* A publication that a broker files and does not brake is sent to every client
\* of its group that it is nearer to than all that client was sent before, blinded
\* or not, although one Match against the first client decides for the group
\* (handlePublish) -- as long as the root has made one key only, and blinded
\* publications are filed under the hashed name.
NearerIsDelivered ==
    [][\A b \in Brokers : \A k \in Keys :
         /\ Filed(b, k) /\ keys_made <= 1
         /\ Newest(b, k).bn # NoBlind => k.h = 1
         /\ stat'[b].braked_local = stat[b].braked_local
         => \A i \in DOMAIN subscribers'[b][k] :
              subscribers'[b][k][i].cached_closest_dist
                <= GeoDistance(Newest(b, k).pos, subscribers'[b][k][i].pos)]_pub_cache

\* A broker handles a publication once: nothing is echoed to the child it came
\* from or sent back up, so no cache holds one publication twice, whatever the
\* key it is filed under.
HandledOnce ==
    \A b \in Brokers : \A k, l \in Keys :
      \A i \in DOMAIN pub_cache[b][k], j \in DOMAIN pub_cache[b][l] :
        pub_cache[b][k][i].id = pub_cache[b][l][j].id => k = l /\ i = j

\* A publication is filed under one and the same key by all brokers, whether
\* they match on ciphertexts or not: a relayed publication is not hashed again.
OneKeyPerPublication ==
    \A a, b \in Brokers : \A k, l \in Keys :
      \A i \in DOMAIN pub_cache[a][k], j \in DOMAIN pub_cache[b][l] :
        pub_cache[a][k][i].id = pub_cache[b][l][j].id => k = l

-----------------------------------------------------------------------------
\* Soft state.

\* A group outlives its last refresh by no more than the TTL, one cleanup
\* interval, one epoll timeout and the second in which the handler runs: the
\* loop cannot miss a sweep.
ExpiryBound ==
    \A b \in Brokers : \A k \in Keys :
      subscribers[b][k] # << >> =>
        /\ last_active[b][k] # NoTime
        /\ now - last_active[b][k]
             <= TTL_SECONDS + CLEANUP_INTERVAL_SEC + EPOLL_TIMEOUT_SEC + 1

\* A group disappears only if no client subscribed to or sent a heartbeat for
\* its service during the TTL (cleanupExpired, handleHeartbeat).
SilentBeforeExpiry ==
    [][\A b \in Brokers : \A k \in Keys :
          subscribers[b][k] # << >> /\ subscribers'[b][k] = << >>
            /\ phase'[b] = "running"
          => now - touched[b][k.svc] > TTL_SECONDS]_<<subscribers, phase>>

-----------------------------------------------------------------------------
\* The brake.

\* How many passes of a history lie within the window that ends at time t.
Recent(history, t) ==
    Cardinality({i \in DOMAIN history : t - history[i] <= BrakeWindowSec})

\* Per broker, direction, service and quadrant, at most brake_limit
\* publications pass in any window of brake_window_sec: a publication spends
\* nothing of another direction's budget, and no path around the window exists.
BrakeRate ==
    \A b \in Brokers : \A k \in Keys : \A q \in Quadrants :
      /\ BrakesUpward => \A i \in DOMAIN passed[b]["up"][k][q] :
            Recent(SubSeq(passed[b]["up"][k][q], 1, i),
                   passed[b]["up"][k][q][i]) <= BrakeLimit
      /\ BrakesLocal => \A i \in DOMAIN passed[b]["local"][k][q] :
            Recent(SubSeq(passed[b]["local"][k][q], 1, i),
                   passed[b]["local"][k][q][i]) <= BrakeLimit

\* A publication is braked in a direction only if brake_limit others filed under
\* the same key and from the same quadrant really passed in that direction within
\* the window: the windows are independent, and a publication nobody received
\* spends no local budget (brakeAllows, called twice by handlePublish).
BrakedOnlyAtLimit ==
    [][\A b \in Brokers :
         /\ stat'[b].braked_up > stat[b].braked_up =>
              \E k \in Keys : /\ Filed(b, k)
                             /\ Recent(passed[b]["up"][k][Hemisphere(Newest(b, k).pos)],
                                       now) >= BrakeLimit
         /\ stat'[b].braked_local > stat[b].braked_local =>
              \E k \in Keys : /\ Filed(b, k)
                             /\ Recent(passed[b]["local"][k][Hemisphere(Newest(b, k).pos)],
                                       now) >= BrakeLimit]_stat

-----------------------------------------------------------------------------
\* The overlay.

\* The datagrams of one type in a channel.
InFlight(channel, type) == {i \in DOMAIN channel : channel[i].type = type}

\* If b has subscribers or interested children for k, its parent has been told,
\* or the SUBSCRIBE is on its way behind the HELLO that makes the parent accept it.
RelayedOrComing(b, k) ==
    subscribers[b][k] # << >> \/ child_active[b][k] # {} =>
      \/ b \in child_active[Parent[b]][k]
      \/ \E i \in InFlight(up[b], "SUBSCRIBE") :
           /\ up[b][i].key = k
           /\ \/ children[Parent[b]][b] # NoChild
              \/ \E j \in InFlight(up[b], "HELLO") : j < i

\* Interest is never lost on the way up (handleSubscribe's relay to the parent,
\* which drops it if it does not know the child).
InterestRelayed ==
    \A b \in Brokers : \A k \in Keys :
      has_parent(b) /\ phase[b] = "running" => RelayedOrComing(b, k)

\* The same when a child is killed and restarted at any moment, even while it
\* starts: what it has said before and what it says again leaves its parent
\* with every interest of the living child, as long as no datagram is lost and
\* the root, whose every run makes a key, is in its first run.
InterestSurvivesChild ==
    spent.losses = 0 /\ keys_made = 1
      => \A b \in Brokers : \A k \in Keys :
           /\ has_parent(b) /\ phase[b] = "running"
           /\ phase[Parent[b]] \in {"published", "sharing", "running"}
           => RelayedOrComing(b, k)

\* Towards each child and per quadrant of its region, what is forwarded gets
\* strictly nearer to the quadrant's centre (closest_quad).
OffersStrictlyNearer ==
    \A c \in Brokers : \A i, j \in DOMAIN offers[c] :
        /\ i < j /\ offers[c][i].sent /\ offers[c][j].sent
        /\ offers[c][i].quad = offers[c][j].quad
        => offers[c][j].dist < offers[c][i].dist

\* A publication is withheld from an interested child only if a publication of
\* the same service, at least as near, was forwarded to that quadrant before.
WithheldOnlyIfBetterSent ==
    \A c \in Brokers : \A j \in DOMAIN offers[c] :
      ~offers[c][j].sent =>
        \E i \in DOMAIN offers[c] :
          /\ i < j /\ offers[c][i].sent
          /\ offers[c][i].key = offers[c][j].key
          /\ offers[c][i].quad = offers[c][j].quad
          /\ offers[c][i].dist <= offers[c][j].dist

\* What the quadrant cache does promise: a publication is withheld from an
\* interested child only if one at least as near, of whatever service, was
\* forwarded to that quadrant since the parent knows the child (closest_quad is
\* compared before it is written, and kept by a HELLO that is repeated).
WithheldOnlyIfNearerSent ==
    \A c \in Brokers : \A j \in DOMAIN offers[c] :
      ~offers[c][j].sent =>
        \E i \in DOMAIN offers[c] :
          /\ i < j /\ offers[c][i].sent
          /\ offers[c][i].quad = offers[c][j].quad
          /\ offers[c][i].dist <= offers[c][j].dist

\* Nothing about regions is on its way from c.
RegionSettled(c) ==
    /\ phase[c] = "running"
    /\ InFlight(up[c], "HELLO") = {} /\ InFlight(up[c], "REGION_UPDATE") = {}

\* Once its region messages have arrived, a parent's record of a leaf's region
\* covers every live subscriber of the leaf.
LeafCoverageKnown ==
    \A c \in Brokers : \A k \in Keys :
      has_parent(c) /\ RegionSettled(c) /\ (\A d \in Brokers : Parent[d] # c) =>
        \A i \in DOMAIN subscribers[c][k] :
          Contains(children[Parent[c]][c].region, subscribers[c][k][i].pos)

\* The same for every broker with a parent, whether or not it has children.
CoverageKnown ==
    \A c \in Brokers : \A k \in Keys :
      has_parent(c) /\ RegionSettled(c) =>
        \A i \in DOMAIN subscribers[c][k] :
          Contains(children[Parent[c]][c].region, subscribers[c][k][i].pos)

\* Every publication a broker counts as received was sent by a publisher or is
\* counted as forwarded by exactly one broker, or is still on its way.
TrafficConserved ==
    spent.pubs + SetsExt!MapThenSumSet(
        LAMBDA b : stat[b].forward_up + stat[b].forward_down, Brokers)
      = SetsExt!MapThenSumSet(
            LAMBDA b : stat[b].pub_received
                         + Cardinality(InFlight(up[b], "PUBLISH"))
                         + Cardinality(InFlight(down[b], "PUBLISH")), Brokers)

\* Only children whose HELLO was handled since the broker started are on record
\* as interested, through losses and restarts of either side: every entry of
\* child_active_ has an address to forward to.
ActiveChildrenKnown ==
    \A b \in Brokers : \A k \in Keys : \A c \in child_active[b][k] :
        children[b][c] # NoChild

\* With require_he, no blinded publication is ever filed under a plaintext name,
\* however brokers and key files come up: the encrypted experiment does not
\* turn into a plaintext one.
NeverFiledInPlain ==
    RequireHe => \A b \in Brokers : \A k \in Keys :
      \A i \in DOMAIN pub_cache[b][k] :
        pub_cache[b][k][i].bn # NoBlind => k.h = 1

\* Whoever loads a key agrees with those who load theirs at the same time.  A
\* broker that finds a key file gets a key no older than any client has, even
\* between two steps of a root's start or after a kill there; and while the root
\* runs, both files hold its own key and nobody has a newer one (initCrypto
\* writes the brokers' file first and unlinks each file before it is replaced).
LoadersAgree ==
    /\ key_file # NoKey => \A key \in client_keys : key <= key_file
    /\ \A r \in Brokers : ~has_parent(r) /\ phase[r] = "running" =>
          /\ key_file = he_key[r] /\ full_key_file = he_key[r]
          /\ \A b \in Brokers : he_key[b] <= he_key[r]

-----------------------------------------------------------------------------
\* Liveness, under FairSpec.

\* Interest in a key reaches every ancestor of the broker it arose at.
InterestArrives ==
    \A b \in {x \in Brokers : has_parent(x)} : \A k \in Keys :
      subscribers[b][k] # << >> \/ child_active[b][k] # {}
        ~> b \in child_active[Parent[b]][k]

\* Every publication is cached by the root of the tree in the end, wherever it
\* was published, as long as no brake stops it.
PublicationsReachRoot ==
    \A id \in 1 .. MaxPubs :
      spent.pubs >= id ~>
        \E b \in Brokers : \E k \in Keys :
          /\ ~has_parent(b)
          /\ \E i \in DOMAIN pub_cache[b][k] : pub_cache[b][k][i].id = id

=============================================================================
