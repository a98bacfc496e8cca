SPECIFICATION Spec
CONSTANTS
  root = root  mid = mid  leaf = leaf  s1 = s1  s2 = s2  ann = ann  bob = bob
  NoBroker = NoBroker  NoBlind = NoBlind  NoChild = NoChild
  Brokers = {root, mid, leaf}
  Parent <- FanParent
  Home <- TreeHome
  Services = {s1}
  Clients = {ann, bob}
  BrakeScope = "both"
  BrakeLimit = 9
  BrakeWindowSec = 1
  RequireHe = FALSE
  TTL_SECONDS = 2
  CLEANUP_INTERVAL_SEC = 1
  EPOLL_TIMEOUT_SEC = 1
  MAX_PUB_CACHE = 4
  Subscriptions <- BlindSubscriptions
  Publications <- BlindPublications
  Beats = {}
  Polled = {root}
  Killable = {}
  ParentFirst = TRUE
  MaxSubs = 2
  MaxPubs = 3
  MaxBeats = 0
  MaxTime = 0
  MaxCrashes = 0
  MaxLosses = 0
INVARIANTS HandledOnce LeafCoverageKnown TrafficConserved OffersStrictlyNearer WithheldOnlyIfNearerSent OneKeyPerPublication
CHECK_DEADLOCK FALSE
