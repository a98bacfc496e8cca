SPECIFICATION Spec
CONSTANTS
  root = root  s1 = s1  s2 = s2  ann = ann  bob = bob
  NoBroker = NoBroker  NoBlind = NoBlind  NoChild = NoChild
  Brokers = {root}
  Parent <- NoParent
  Home <- HomeAt
  Services = {s1, s2}
  Clients = {ann, bob}
  BrakeScope = "local"
  BrakeLimit = 1
  BrakeWindowSec = 1
  RequireHe = FALSE
  TTL_SECONDS = 1
  CLEANUP_INTERVAL_SEC = 1
  EPOLL_TIMEOUT_SEC = 1
  MAX_PUB_CACHE = 1
  Subscriptions <- MixedSubscriptions
  Publications <- MixedPublications
  Beats <- Beat
  Polled = {}
  Killable = {}
  ParentFirst = TRUE
  MaxSubs = 2
  MaxPubs = 2
  MaxBeats = 1
  MaxTime = 6
  MaxCrashes = 0
  MaxLosses = 0
INVARIANTS TypeOK StrictlyNearer CachedIsLastSent ExpiryBound
PROPERTIES FeedSpec SilentBeforeExpiry NearerIsDelivered
CHECK_DEADLOCK FALSE
