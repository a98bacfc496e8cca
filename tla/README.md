# DNS++: a TLA+ model of the proximity brokers

DNS++ is a tree of multicast brokers. Clients subscribe to service names with
their coordinates, service replicas publish theirs, and a subscriber is told of a
replica only when it is strictly nearer than everything it was told before.
Names and coordinates may be blinded with a modified Paillier scheme, so that
brokers match them without reading them. This directory models the broker program
of `src/src/`: the brokers and their tree, the process around one broker, and the
datagrams between them. It checks the models with TLC and proves part of what is
checked with TLAPS.

## 1. Inventory

| Component | State | Operations | Talks to |
|---|---|---|---|
| Event loop and lifecycle (`broker.cpp` 45-226, 698-756) | socket, `last_cleanup`, the process itself | constructor (bind, `initCrypto`), `start`, `epoll_wait`, the cleanup check after each iteration | every other part, one handler at a time |
| Subscription groups, query mode (306-395) | `subscribers`, `last_active`, `pub_cache`, `my_region_`, `ot_parent_` | `handleSubscribe` from clients and children | parent: `REGION_UPDATE`, `SUBSCRIBE`; client: query reply |
| Publication routing (400-545) | `pub_cache`, `children[].closest_quad`, `cached_closest_dist`, counters | `handlePublish` from publishers, children, parent | parent, children, clients: `PUBLISH` |
| Propagation brake (267-293) | `brake_count_up_`, `brake_count_local_` | `brakeAllows` | called by `handlePublish` |
| Overlay (295-301, 558-623) | `children`, `child_active_`, `my_region_` | `handleHello`, `handleRegionUpdate`, `updateMyRegion` | parent and children |
| Heartbeat and TTL (551-556, 682-696) | `last_active`, everything filed under a key | `handleHeartbeat`, `cleanupExpired` | clients |
| Statistics (625-680) | `stat_*` | `handleStatsRequest` | measurement scripts |
| HE key files (137-225) | `/tmp/dnspp_heps.key`, `/tmp/dnspp_heps_full.key` | generate, unlink, write, load, fall back, exit | root, other brokers, clients |
| Blinded comparison (`crypto/`, `executeMatch`) | keys | encrypt, blind, subtract, read the sign | broker, clients |
| TLV protocol (`protocol/`) | a datagram in the receive buffer | build, validate, find, get; rebuilt by `handlePublish` | every datagram |
| Geography (`utils/geo.h`) | none | distance, merge, quadrants | broker |
| Logger (`logger/`) | queue, `running`, mutex, condition variable, a worker thread | `pushLog`, `process`, destructor | broker |
| Configuration and `main` (`main.cpp`) | `BrokerConfig`, the fields seen | parse line by line, exit on error, construct, `start`, destroy | broker, logger |

What is hard about it:

* **Interleaving of processes.** A broker is single-threaded, but a tree of them is
  not: SUBSCRIBE, HELLO, REGION_UPDATE and PUBLISH of different brokers cross on
  the links, and children act on what they believe their parent knows.
* **Soft state.** TTLs are per group, refreshed under one key and expired under
  another; cleanup erases tables other parts still rely on.
* **Windows, caches and "nearest so far".** Three memories decide whether a
  publication moves on (brake window, `closest_quad`, `cached_closest_dist`), each
  updated on several paths.
* **Start order and key files.** Files are unlinked, opened and flushed in steps
  while other processes read them; `require_he` turns the race into an exit.
* **UDP and kills.** Interest is relayed once and HELLO is sent once, per run.
* **Two threads in one process.** The logger's worker reads `running` without the
  mutex, sleeps on a condition variable, and is joined by the destructor.
* **Lengths from the network.** A datagram is cut to the buffer, validated once and
  searched many times by offsets it brings along; a relayed one is built anew.

`PROJECT.json` lists these as hazards, each at its line with the properties that
would catch it.

What makes each component correct:

* groups and routing: nothing but strictly nearer things are delivered, and what is
  nearer and not braked is delivered to all of its group; the memory of what was
  delivered agrees with what was sent; nothing is echoed, circulated or counted
  twice; a name is hashed once;
* brake: at most `brake_limit` passes per window and direction, and nothing is
  braked before its own window is full;
* TTL: a group is swept in bounded time, and never while its clients are alive;
* overlay: interest reaches every ancestor; a parent knows what its child covers;
  a publication is withheld only because a better one went the same way;
* lifecycle and keys: with `require_he` nothing runs in plaintext, no leaf loses its
  HELLO to a parent that is still starting, a leaf never loads an older key than any
  client has, and while the root runs everybody who loads a key gets the root's;
* process: an accepted configuration is what the file says, a broker in plaintext
  says so, and shutdown ends;
* logger: every line is printed once and in order, and no wakeup is lost;
* TLV protocol: no read passes the end of the datagram, what was cut is refused,
  what was built is accepted, and what is read is what was written.

## 2. Modules

| Module | Models |
|---|---|
| `Geo` | `utils/geo.h`, and `getQuadrant` of the brake |
| `BrakeWindow` | one sliding window of `brakeAllows` |
| `Broker` | the whole broker process and a tree of them; extends the two above |
| `NearestFeed` | the abstract promise to subscribers |
| `BlindedMatch` | `crypto/`, `executeMatch`'s arithmetic, and whose key is where |
| `BrokerProperties` | every property, and the refinement mapping to `NearestFeed` |
| `Logger` | the two threads of `logger/` around their queue |
| `Config` | `parseConfig`, a line at a time |
| `Process` | `main`, constructor and destructor; composes `Config` and `Logger` |
| `TlvMessage` | building, parsing and relaying one datagram |
| `MCSingle`, `MCTree`, `MCBlinded`, `MCProcess`, `MCTlv` | constants for TLC: one broker; a root with leaves, a chain of three; small moduli; short configuration files; short datagrams |
| `OperatorTheorems` | lemmas and theorems about the operators of `Geo` and `BrakeWindow` |
| `BlindedMatchTheorems` | the broker recovers the exact difference and its verdict is equality, proved |
| `BrokerTypes` | the type invariant, proved |
| `BrokerDelivery` | the delivery invariant, the refinement, and that nothing nearer is withheld, proved; extends `BrokerRouting` |
| `BrokerFaults` | what survives kills and losses, the life of a group, interest and coverage, proved |
| `BrokerRouting` | a publication's way through the tree, the brake over time and the sum of all traffic, proved |
| `ProcessTheorems` | the queue between the threads and the configuration, proved |
| `TlvTheorems` | the parser for any bytes, and builder and relays for clients' messages, proved |

### How `Broker` corresponds to the code

Each table of `DnsMulticastBroker` is a variable indexed by broker, under the
name it has in the class. A key is a record `[svc, h]`: a service name and how
often `hashServiceName` was applied to it. `phase` is where a process is:
`down`, `bound` (the constructor has bound the socket, `initCrypto` runs), for a
root `writing`, `published` and `sharing`, then `running`. Because the socket is
bound before the key is there, datagrams that arrive early wait in the queue.

A root replaces two files, and each operation another process can see is a step
of its own: `GenerateKey` up to the unlink of the brokers' file (140), `WriteKeyFile`
the `fclose` that completes it (170; `published`), `UnlinkFullKeyFile` the unlink of
the clients' file (140, called at 175; `sharing`), `WriteFullKeyFile` its `fclose` (187)
and the start of the loop. A kill may fall between any two. A line of the files is
seen at `fclose`, for both are shorter than a stdio buffer. A leaf's read of the key
file and its HELLO are one step (`LoadKey`): it reads once, and what it does in
between concerns nobody else.

`client_keys` are the keys that clients may have: `test_client.cpp:70` loads the full
key file once, when the client starts, and the client may send long after. So a key
that was on file is never forgotten, and what a client blinds is blinded with any of
them (`Blind`); a client that finds no key exits.

A handler is one action: `ClientSubscribe` and `ChildSubscribe`
(`handleSubscribe`), `ClientPublish`, `ChildPublish` and `ParentPublish`
(`handlePublish`, which is `HandlePublish` for all three), `Heartbeat`, `Hello`,
`HelloAck`, `ChildRegion`, `StatsRequest`, `EpollTimeout`. After each the broker is
`sweeping` until `Sweep` has made the cleanup check of the same loop iteration;
the clock may advance in between. No other broker's handler runs in that gap:
brokers share no memory, so the interleavings left out commute with the check.
`Tick` lets a second begin only if no running broker has been idle for its
`Patience`: `epoll_wait` returns in time, and handler and check take less than a
second.
A handler takes no model time and reads the clock once.

`up[c]` and `down[c]` are the datagrams from `c` to its parent and back, in
order; between different senders there is no order. A datagram to a broker whose
socket is not bound is gone. `LoseUp` and `LoseDown` lose the datagram at the
head of a link (the channel's earlier ones have been read, so any datagram can
be the one lost). `Crash` kills a broker and resets all of its memory; `Bind`
starts it again. Links neither duplicate nor reorder: parent and child are in
practice neighbours on one network or on one host.

Four variables are history, read by properties only. `ledger` lists the
subscriptions with what each client was sent; `offers` every forwarding decision
of the living parent towards a child (a parent's kill empties it, as the record it
decides by is gone too); `passed` when the brake let a publication pass; `touched` when
a client last mentioned a service. `spent` counts what the environment used of
its bounds.

What is abstracted:

* **Distances** are the squares of the code's, scaled by 10^4, in whole degrees,
  with Bhaskara's rational cosine. The code only compares distances, and
  squaring keeps their order. Positions of the runs are multiples of four, so
  that quadrant centres are exact. Ties of the model and ties of the floating
  point code are not the same ones; the properties are stated for `<` as the code
  compares it.
* **Blinded values** are a key and a service; `executeMatch` is exact when both
  are blinded with the broker's key and an arbitrary outcome otherwise.
  `BlindedMatch` is where that is checked and proved.
* **Messages** are records. Payloads, the bytes of TLVs and the statistics
  response are left out. A key file is empty or holds a key: the code treats a
  missing, a half-written and a malformed file the same way.
* **The clock** counts seconds, like `time(nullptr)`, and does not run backwards.

### How `BlindedMatch` corresponds to the code

`KeyAssumption` is what `keyGen` gives: primes p and q, lambda invertible modulo n,
and Carmichael's theorem for n², which is about numbers and not about this code.
TLC evaluates all of it for the moduli of its run. For primes of equal length it
holds whenever p and q differ; `gen_prime` draws them independently, so that they
are equal with negligible probability.

`Broker` and `BlindedMatch` do not share state: the first takes for granted what the
second shows of `executeMatch`. `keyGen`, `encrypt`, `blindNotification` and
`blindSubscription` are the functions of `Paillier` and `Heps` with their random
draws as parameters; `Recovered` and `Threshold` are the two halves of
`executeMatch`. The modular powers are computed, so TLC sees the code's own
arithmetic modulo n². `file` is the full key file clients blind with, `matcher` the
public half of the broker that compares, and a root may be started again in
between (`RootRun`), so that all three parties may hold different keys. Names are
their hashes; hexadecimal text, which carries the same integers, is left out, and
so are the search for primes and its two failures. `encrypt` draws a unit of Z_n.

Three things the model makes visible. `encrypt`'s randomness disappears from a
blinded subscription (`DifferenceExact` depends on it), so under one key equal names
blind to equal subscriptions. The fallback of `Paillier.cpp:85` to `r_m = 1` would
break the comparison: the spread is then not below the stretch. And with keys of
different root runs the division in `executeMatch` is not exact and names that
differ may match, which is why `Broker` leaves that outcome open.

### How `Process`, `Config` and `Logger` correspond to the code

`Process` is one operating system process before and around the loop that `Broker`
models. `main` is where the main thread is: `parsing` (`parseConfig`), `body` and
`crypto` (the constructor), `listen`, `mode`, `key` (the lines it logs), `start`,
`looping`, and the ways out: `exited`, `aborted`, `returned`. In `looping` the main
thread logs nothing, because no handler of the broker does.

`Config` reads a line per step. A line is its key and what its text converts to,
`Junk` where the conversion throws, which covers text that is no number, trailing
characters and integers too long for an `int`. `file` is history.

`Logger` cuts `pushLog`, the destructor and `process` where the other thread can step
in: at the mutex, at `wait` (which tests, then releases and sleeps in one step), at the
read of `running` outside the mutex (`Test`), and between printing a line and popping
it. That read races with the destructor's write; since the loop's calls keep a
compiler from hoisting it, it returns the old or the new value, which are the
model's interleavings. A notification wakes the worker if it sleeps and is
forgotten otherwise; the worker may also wake for no reason. `pushed` and `printed`
are history.

Two things the model makes visible. Coordinates that read `nan` are accepted
(`main.cpp:105`), as every comparison with NaN is false. The parent's port is not
range-checked: it wraps modulo 2^16 (`broker.cpp:70`), and a port that is no number
ends the process with an uncaught exception instead of a configuration error.

### How `TlvMessage` corresponds to the code

A datagram is a sequence of cells of two bytes, so that a type, a length and half of
a 32-bit field are a cell each, and offsets and lengths count cells where the code
counts bytes. Numbers of cells that are odd in bytes add nothing: every bound is a
comparison of sums of lengths. `CellBase` is 2^16 and `BufferSize` 4096 bytes in the
code; both are small in the run, so that a name can be too long for its length field
and a message for the buffer.

`Receive` cuts the datagram to the buffer. `Header`, `ValidateTlv` and `ValidatePayload`
are the constructor; `FindStep` is a round of `findTlv` for the types the message's
handler looks up, in its order (`Lookups`), with the getter's minimum length. `reach`
records the end of what was read. Cells behind the datagram's end, which are bytes
of earlier datagrams in the same buffer, read as 0, and `InBounds` says that they are
not read at all. `Forward` is what
`handlePublish` sends on, to its parent (`FROM_CHILD`) or a child (`FROM_PARENT`), by a
broker with or without a key. `origin`, `hop`, `key`, `marks` and `reach` are history.

Two remarks from reading the code along. A relayed publication keeps the hash that
its first broker made of the name, so a message grows on its first hop only
(`GrowsOnce`). `TlvMessage.h:34` says that STATS_DATA_EXT holds 80 bytes, while
`handleStatsRequest` writes 96; nothing in the program reads the field.

## 3. Runs

| Run | Instance | Shows |
|---|---|---|
| `delivery` | one root under the clock to 6, 2 subscriptions, 2 publications, plaintext and blinded, a query, a heartbeat, cache of 1, local brake of 1, TTL, cleanup and epoll 1 | types; deliveries get nearer; what is nearer and not braked is delivered; the cached distance is that of the last send; the feed is implemented; a group is swept in bounded time, and not while refreshed |
| `brake` | root and leaf, limit 2 per second, 4 publications in two hemispheres, both directions | the rate limit, and that nothing is braked unless the window of its own key and quadrant is full |
| `fan` | root and two leaves, blinded values, 3 publications | no echo, no double hash, conserved traffic, nearer offers, nothing withheld without one as near before, leaf coverage |
| `chain` | three in a row, two services, fair processes, a leaf that is killed once | interest is never lost and reaches every ancestor; publications reach the root |
| `faults` | root and leaf in any order, `require_he`, no key file yet, a subscriber whose key may be of any root run, two kills and one loss anywhere | delivery, single handling and the child table survive; nothing blinded is filed in plaintext; interest outlives the child's restarts; who loads a key has one no older than any client's |
| `blinded` | moduli 35, 77 and 143, two masks, stretches 2 to 4, four names, two root runs | with one key the exact difference is recovered, and a match is equality |
| `process` | every file of up to 5 of 15 lines, right and wrong, and the start of the process with its logger's thread | what is accepted is what is written; no log line or wakeup is lost; plaintext and mode are said; the destructor returns |
| `wire` | clients' messages from below to above the buffer's size, their cut and miscounted copies, every sequence of up to 6 cells with and without a header; 3 relays | no read outside the datagram; cut ones refused, built ones accepted, all fields as written; a relayed name stays |

The other four runs each check one statement of the documentation and find it
violated by what the code does:

| Run | Statement | What the code does |
|---|---|---|
| `beat_blind` | HEARTBEAT keeps a subscription alive (`README.md:125`) | refreshes the plaintext key; a blinded group lives under the hashed one and is swept |
| `brake_cleanup` | fewer than `brake_limit` within `brake_window` (`main_fixed.tex:159`) | cleanup erases windows whose stamps still count |
| `quadrant_shared` | suppressed precisely when a better one was forwarded (`main_fixed.tex:370`) | `closest_quad` is shared by all services |
| `coverage_middle` | quadrant decisions are made against accurate coverage (`main_fixed.tex:168`), and the MBH is every broker's coverage (`AGENT.md:43`) | a broker with children forgets its own clients' positions when it rebuilds its region |

**Bounds.** Two subscriptions and two publications are enough to compare a
delivery with an earlier one, to overflow a cache of one, to reach a brake of one
and to answer a query after an eviction. Three brokers are the fewest with a sibling
(`fan`) or a grandparent (`chain`). A time of 6 covers TTL + cleanup interval + epoll
timeout + 1 = 4 from a refresh made at any moment up to 2, so the expiry bound is
met with equality inside the run. A
second hash would show at `h = 2`, which `MaxHash` includes. Four names and the next
one after them use up most of the half of the smallest modulus, so both
thresholds are approached from both sides; a second root run is what separates
the keys of publisher, subscriber and broker. Two kills let a child die before and
after its parent has read what it said, a root die between any two operations on its
key files, or each of them die once. One client subscribes in `faults`: a second
one differs in position only, which is what `delivery` is about. Five lines are the
three required ones, a parent and `require_he`, or an override; a start logs at most four lines, enough for the queue
to fill while the worker prints. Three relays are the first that builds from a
client's message and two that build from a broker's. Brakes are out of the
way (`BrakeLimit = 9`) in runs that are not about them. Deadlock is not checked:
the bounded environment stops, a broker without datagrams or clock ticks has
nothing to do, a process ends and a datagram has been handled.

**Fault-free runs.** `delivery`, `brake` and `fan` lose nothing, kill nobody and start
parents first, which is how the repository's scripts run brokers; `chain` kills its
leaf. `InterestRelayed` really needs the parent to live (see the hazards at
`broker.cpp:321` and `:707`): a SUBSCRIBE that is dropped is not repeated.
`InterestSurvivesChild` says what is left when brokers start in any order and a
child dies: everything, as long as the root stays and no datagram is lost.

**Fairness** (`FairSpec`, run `chain`). Weak fairness of a broker's start-up, of its
cleanup check, of reading from its child and of reading from its parent. The
operating system schedules every process and `epoll_wait` returns while its
socket has datagrams; a UDP socket is read in order of arrival, so no sender is
passed over for ever, and each sender has its own fairness condition. Nothing is
assumed of clients, of the clock or of failures. `Process` has weak fairness of each
of its two threads, which the operating system schedules; nothing is assumed of
spurious wakeups. A thread that waits for a mutex gets it in the end because the
other one leaves it alone when it has nothing to log or to print.

## 4. Proofs

For every tree of brokers, every configuration, any number of clients, services,
losses and kills (no bound of the runs is used):

* `TypeCorrect`: `Spec => []TypeOK`. One lemma per action; the ones worth reading are
  `MyRegionType` (the box of a non-empty set of regions exists: by well-foundedness
  of the naturals), `LedgerAfterType` and `HandlePublishTypes`.
* `OnlyNearer`: `Spec => []StrictlyNearer`. It is not inductive: `handlePublish` compares
  a distance with `cached_closest_dist`, not with what the client was sent.
  `DeliveryInv` adds that the cached distance is that of the last delivery
  (`CachedIsLastSent`), that every live `GeoClient` has a ledger entry filed under its
  own broker and key (`Enrolled`) and that no two of a group share one
  (`OneEntryEach`). The last two are what keeps a push to one group from disturbing
  what is known of another. A push extends the entries of the clients served and
  no others (`EntryAfter`, `PublishBooked`); cleanup and kills drop whole groups
  (`GroupsKeptOrGone`).
* `BrokersImplementFeed`: `Spec => FeedSpec`, from the same invariant. `NearestFeed` knows
  nothing of brokers: a subscription joins with at most one answer, and an
  announcement extends feeds of one key by something nearer.
* `NothingNearerIsWithheld`: `Spec => NearerIsDelivered`, the side that the feed leaves open: a
  feed may withhold anything. One `executeMatch` against the first subscriber decides
  for a whole group, which is right only if all of the group would match. `SealInv`
  is why they do: every key is one of those made, who is filed under a hashed name
  has sent a blinded value of that service, and so has every publication on its
  way. Two things are part of the property, since the code does otherwise without
  them: the root has made one key only (values of two keys match at random), and a
  blinded publication is filed under the hashed name (a broker without a key files
  it under the plaintext one, beside clients that do not blind).
* `OneKeyEverywhere`: `Spec => []OneKeyPerPublication`. There is an assignment of one key to
  each publication (`KeyedBy`) with which every cache and channel agrees: only the
  publisher's own datagram is hashed, all others keep the key they carry.
* `NoEcho`: `Spec => []HandledOnce`. `RouteInv` keeps, for each publication, the set of
  brokers that handled it: it is rooted in the tree, copies are on their way only
  from a member to a neighbour that is none, and no channel holds two. This is
  where `TreeAssumption` is needed.
* `OnlyNearerForwarded`: `Spec => []OffersStrictlyNearer`. `OfferInv`: `closest_quad` in the
  living parent's record is at most the distance of every offer it made since it
  came up, and a repeated HELLO leaves it alone.
* `NothingFirstIsWithheld`: `Spec => []WithheldOnlyIfNearerSent`, the other side of it. By
  `WithheldInv`, every distance in a record of `closest_quad` is that of an offer that was
  sent since the parent came up, or `DoubleMax`; and every distance is less than
  `DoubleMax` (`GeoDistanceBound`), so what comes first is sent.
* `OneServiceSuppressed`: `Spec => [](OneServiceOffered => WithheldOnlyIfBetterSent)`. The
  statement that `quadrant_shared` finds violated holds as long as each child is offered
  publications of one service: the sharing between services is the only reason.
* `TrafficAddsUp`: `Undisturbed => (Spec => []TrafficConserved)`. `Undisturbed` is what the runs
  `delivery`, `brake` and `fan` are: a killed broker takes its counters and its queue
  along, and a datagram that is lost, or sent to a port nobody has bound yet, was
  counted as forwarded. `TrafficInv` adds that interest is recorded for one's own
  children only (`OwnChildren`) and that a broker that does not run has nothing on
  its links and is on nobody's record (`IdleInv`), so no forward goes to a closed
  port. The sums are folds over the set of brokers; the proof speaks of the tables
  of partial sums they compute, and shows that a sum is additive by induction on the
  size of a set, through the least counterexample.
* `ConsultedWithinLimit`, `OnlyFreshEntriesCount`: the brake's window never exceeds its
  limit, and counts nothing older than the window.
* `BrakesOnlyWhenFull`: `Spec => BrakedOnlyAtLimit`. The property names the publication that
  was braked, through the cache it was filed in, and asks for `brake_limit` passes under
  that key, from that quadrant and in that direction. From `BrakeInv`: each window is
  an end of the history of what passed, in order of time. Whatever erased the window,
  what it still holds did pass. `HandledFiled` and `BrakedFull` tie the step that brakes
  to the window it consulted.
* `RateHolds`: `Spec /\ [][~Forgets]_vars => []BrakeRate`. For the converse, windows must
  hold everything that still counts (`RateInv`), and two steps take that away: a
  kill, and a cleanup that finds an expired group. `Forgets` is those two and the
  run `brake_cleanup` shows that the second one matters.
* `GroupsExpireInTime`: `Spec => []ExpiryBound`. `SoftInv`: a cleanup is never in the future; a
  running broker was at most a cleanup interval past its last cleanup when its
  last iteration ended, and an iteration that is not over began at most an epoll
  timeout later (`Timely`); a group in the table was fresh enough at the last
  cleanup (`SurvivedCleanup`).
* `NoEarlyExpiry`: `MentionedOneWay => (Spec => SilentBeforeExpiry)`. The hypothesis says that
  at one broker the clients of a service either all blind or none does, and that
  blinded services get no heartbeats. Without it the theorem is false: a heartbeat
  refreshes the plaintext key only, which run `beat_blind` shows. With it,
  `MentionInv` holds: a group's time is that of the last mention of its service.
* `InterestGoesUp`: `Spec => []InterestRelayed` if no datagram is lost, parents start first
  and no parent is killed. `InterestInv`: a broker has relayed all it has
  subscribers or interested children for (`RelayInv`); a running child is on its
  parent's record or its HELLO is in flight (`Introduced`), and each key it relayed
  is filed or in flight behind that HELLO (`Coming`). Only the order of start is
  assumed; children may be killed and come back.
* `InterestOutlivesChild`: `LinksKept => (Spec => []InterestSurvivesChild)`. It does without the
  order of start where `require_he` replaces it: no child runs before the root has
  put its first key in the file (`FirstKeyInv`), and by then the root's socket is
  bound. This works for children of a root only; a broker deeper in the tree finds
  the key file whether its parent runs or not, so there the order of start stays
  a hypothesis. Run `faults` is the first case, run `chain` the second.
* `LeafCoverage`: `Spec => []LeafCoverageKnown` under the hypotheses of `InterestGoesUp`.
  `CoverInv`: a leaf's region covers its subscribers, and its latest HELLO or
  REGION_UPDATE in flight, or else its parent's record, carries that region. Run
  `coverage_middle` shows why it is about leaves.
* `ThresholdIsEquality`: for every modulus, stretch and spread with r_m * (|x - v| + 1)
  below the floor of n/2, the two threshold tests hold together exactly for equal
  names. It is the corollary of `main_fixed.tex:181` in the form the code needs: floor
  division, and the bound v + 1 as well as v. With a 64-bit hash, r_m below 2^992
  and a 2048-bit n the condition holds by far.
* `DifferenceRecovered`: `Spec => []DifferenceExact`, the lemma of `main_fixed.tex:177` for the
  code's arithmetic. `LinearPower` gives (1 + an)^k = 1 + akn modulo n²; with
  `KeyAssumption` notification and subscription become linear (`NotificationLinear`,
  `CipherLinear`) and encrypt's randomness becomes 1 (`RandomnessGone`), so the masks
  cancel and the division in `executeMatch` is exact (`OneKeyRecovers`). The powers
  need induction. The library's induction theorems take an operator, which the
  provers cannot instantiate, so `InductionOnSet` states it for sets of naturals
  and derives it from the well-foundedness of `<`.
* `VerdictFollows`: `Spec => []VerdictIsEquality`, from the two before and `MatchInv` (keys come
  from `keyGen`, the verdict on file is that of the values on file).
* `QueueLosesNothing`, `NoWakeupIsLost`: `Spec => []NothingLost` and `Spec => []NoLostWakeup` for
  `Process` with any configuration and any lines. `LogInv` adds which thread holds the
  mutex at each of its steps: the worker tests its predicate and goes to sleep
  with the mutex held, so the owner cannot change what was tested, and whatever
  it changes later is followed by a notification.
* `FileIsObeyed`: `Spec => []AcceptedAsWritten` for every file of any length. `ConfInv`: each
  field seen has a line, has the value of its last line, every line so far was
  within range and known, and what no line sets has its default. `ProcessTypes` is
  the type invariant of both threads and the configuration.
* `ReadsStayInside`: `Spec => []InBounds` for any datagrams whatever, any buffer size and any
  width of a cell. Validation and search are different loops over the same
  datagram; `TlvInv` ties them by `marks`, the offsets validation went through: each TLV
  ends where the next begins and the last one within the datagram, and a search is
  always at the mark of its round. `ParserTypes` is part of it.
* `CutIsRefused`, `WholeIsAccepted`, `HandlersReadTheClient`, `LaterHopsFit`, `NameChosenOnce`:
  `Spec => []TruncatedRefused`, `[]BuiltIsValid`, `[]ReadAsWritten`, `[]GrowsOnce` and `OneName`, after
  any number of relays, for any sizes of fields, payloads, cells and buffer.
  `WireInv` describes the datagram by its form (type, fields in the builder's order,
  payload): the wire is laid out as that form (`Layout`), the form is what the client
  wrote or a relay of it (`Written`), and the parser stands at the offset of one of
  the form's fields (`Parsing`). Their hypothesis `ClientsBuild` is what
  `clients/test_client.cpp` sends with coordinates: a SUBSCRIBE or PUBLISH with a name
  and coordinates, and a payload whose length the header can tell. HEARTBEATs
  carry only a name and are left out of these theorems. Run `wire` asserts that its
  clients are such (`RunClients`).
* `InterestIsOfKnownChildren`: `Spec => []ActiveChildrenKnown`: known children only grow
  until a kill, which empties both tables.
* `LoadersKeepUp`: `OneRoot => (Spec => []LoadersAgree)`. `KeyInv` follows the last key made
  through a root's start: from `published` on the brokers' file holds it, from
  `running` on the clients' file too, and between two starts the brokers' file is
  missing or the newest. It says what a restart repairs, not that keys always agree:
  from 170 to 187, or after a kill there, a leaf may load a newer key than any client
  has. With two roots, which share the files of one host, it does not hold; the
  theorem has `OneRoot` as its hypothesis.
* `EncryptedStaysEncrypted`: `Spec => []NeverFiledInPlain`: a broker that runs has a key, so a
  blinded value it files comes with a hashed name, or with the name another broker
  hashed; `FiledInv` carries this through the channels.
* `GeoDistanceSymmetric`, `MergeCovers`, `QuadrantCenterInside`: the geometry the routing
  relies on.

Assumptions about the constants: `BrokerAssumption` (finite sets of brokers and
services, coordinates in range, positive cache size and epoll timeout, a known
`brake_scope`), `TreeAssumption` (parents form no cycle, as in the deployments of
the scripts and `configs/`; the code does not look), `BrakeAssumption` (natural limits),
`MatchAssumption` (stretches of at least 2, operands within half of every modulus),
`KeyAssumption` (see `BlindedMatch` above), `NobodyAssumption` and `NoChildAssumption` (the
absent value is none of the present ones), `LinesAssumption` (the lines a start logs
are lines), `ConfigAssumption` (conversions give an integer or fail) and
`CellAssumption` (messages are built of cells, types fit a cell). TLC evaluates each
of them for its instances. Hypotheses that only some theorems need (`OneRoot`,
`MentionedOneWay`, `LinksKept`, `Undisturbed`, `MaxLosses = 0`, `ClientsBuild`,
`OneServiceOffered`, `~Forgets`) are part of those
theorems and not assumed by the others.

Model-checked only is what is out of the prover's reach, liveness under fairness
with its `ENABLED` (`InterestArrives`, `PublicationsReachRoot`, `PlaintextIsSaid`,
`ModeIsSaid`, `DestructorReturns`). Every invariant and every other property of the
passing runs is proved.
No module declares a RECURSIVE operator.

## 5. Not modelled

* `Paillier::decrypt`, `add` and `match`, which no broker or client calls; plain
  Paillier is used by `tests/` only.
* Deliveries per client rather than per subscription: a client that subscribes again
  gets a second entry that starts at infinity (`broker.cpp:354`), and the properties of
  delivery are about entries.
* The text of configuration values, and the byte order and float conversions of
  fields on the wire, which are inverse to each other on both ends.
* Log lines left in the queue by a destructor that comes too early: only a `start()`
  that returns reaches it, and nothing promises those lines.
* The test client's receive loop and the benchmarks, scripts, results and tests:
  they are the environment or measure the broker from outside.
* `Region::overlaps` and `toString`, which no broker calls.
* Formatting of statistics, wording of log lines.
* Duplicated or reordered datagrams on one link, and IP-level spoofing.

## 6. Plan

Done, in this order: `Geo`, `BrakeWindow`, `Broker` with every handler, properties and
runs, `NearestFeed` and its refinement; the type invariant; the delivery invariant;
`BlindedMatch` with its threshold theorems; `Logger`, `Config` and `Process`; `TlvMessage`;
restarts of a child and of a root between any two operations on its key files; the theorems of
the queue, the parser and the faults; those of expiry, interest, coverage, routing,
traffic, brake, configuration, relayed messages and the recovered difference.

What could follow, most important first:

1. **Recovery of a parent.** The code has none (`broker.cpp:707`); once it repeats HELLO
   and SUBSCRIBE, `InterestSurvivesChild` loses its premises one by one.
2. **What a grandparent knows** of coverage, when the documents say what it should.
