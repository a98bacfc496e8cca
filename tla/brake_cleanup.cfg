SPECIFICATION Spec
CONSTANTS
  root = root  s1 = s1  s2 = s2  ann = ann  bob = bob
  NoBroker = NoBroker  NoBlind = NoBlind  NoChild = NoChild
  Brokers = {root}
  Parent <- NoParent
  Home <- HomeAt
  Services = {s1}
  Clients = {ann, bob}
  BrakeScope = "both"
  BrakeLimit = 1
  BrakeWindowSec = 2
  RequireHe = FALSE
  TTL_SECONDS = 3
  CLEANUP_INTERVAL_SEC = 2
  EPOLL_TIMEOUT_SEC = 1
  MAX_PUB_CACHE = 2
  Subscriptions <- OneSubscription
  Publications <- OnePublication
  Beats = {}
  Polled = {}
  Killable = {}
  ParentFirst = TRUE
  MaxSubs = 2
  MaxPubs = 2
  MaxBeats = 0
  MaxTime = 7
  MaxCrashes = 0
  MaxLosses = 0
INVARIANTS BrakeRate
CHECK_DEADLOCK FALSE
