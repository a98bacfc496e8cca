SPECIFICATION Spec
CONSTANTS
  root = root  mid = mid  leaf = leaf  s1 = s1  s2 = s2  ann = ann  bob = bob
  NoBroker = NoBroker  NoBlind = NoBlind  NoChild = NoChild
  Brokers = {root, leaf}
  Parent <- FanParent
  Home <- TreeHome
  Services = {s1}
  Clients = {ann, bob}
  BrakeScope = "both"
  BrakeLimit = 2
  BrakeWindowSec = 1
  RequireHe = FALSE
  TTL_SECONDS = 9
  CLEANUP_INTERVAL_SEC = 5
  EPOLL_TIMEOUT_SEC = 4
  MAX_PUB_CACHE = 2
  Subscriptions <- BrakeSubscriptions
  Publications <- BrakePublications
  Beats = {}
  Polled = {}
  Killable = {}
  ParentFirst = TRUE
  MaxSubs = 1
  MaxPubs = 4
  MaxBeats = 0
  MaxTime = 3
  MaxCrashes = 0
  MaxLosses = 0
INVARIANTS BrakeRate
PROPERTIES BrakedOnlyAtLimit
CHECK_DEADLOCK FALSE
